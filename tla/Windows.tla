------------------------------ MODULE Windows ------------------------------
(***************************************************************************)
(* The windows of the screen (w.c), the text windows and their buffers     *)
(* (tw.c, ufile.c), and the position history (poshist.c).                  *)
(*                                                                         *)
(* Windows form a ring.  A main window shows a buffer; prompts and menus   *)
(* belong to the family of a main window and stand behind it.  From topwin *)
(* on, families are put on the screen until it is full, the others are off *)
(* the screen.  Heights are kept as parts of 1000 of the screen, and       *)
(* exactly only until the next wfit.                                       *)
(***************************************************************************)
EXTENDS Integers, Sequences, FiniteSets, FiniteSetsExt, SequencesExt

CONSTANTS
  Heights,      \* heights of the terminal
  HelpLines,    \* lines of the help screen
  MaxW,         \* bound: windows at a time
  MenuLines,    \* items of a menu, one on each line
  Buffers, NULL,
  Lines,        \* places in a text
  NPOS,         \* places remembered (20)
  Scenarios,    \* what the user does: sets of command names
  FITHEIGHT     \* the least height of a family (4)

ASSUME WindowsAssumption ==
  /\ Heights \subseteq Nat \ (0 .. FITHEIGHT - 1) /\ FITHEIGHT \in Nat \ {0, 1}
  /\ HelpLines \in Nat /\ MaxW \in Nat \ {0} /\ NPOS \in Nat \ {0} /\ Lines \subseteq Nat

VARIABLES
  scr,      \* SCREEN: the ring from topwin on, curwin, h, wind, leave, the windows; the buffers and the
            \* option orphan; the history and curpos in it, 0 for none
  use       \* the scenario

vars == <<scr, use>>

Ids == 1 .. MaxW

-----------------------------------------------------------------------------
(* The ring.                                                               *)

From(t, x) ==
  LET i == CHOOSE j \in DOMAIN t.ring : t.ring[j] = x
  IN SubSeq(t.ring, i, Len(t.ring)) \o SubSeq(t.ring, 1, i - 1)

Top(t) == t.ring[1]
Succ(t, x) == LET r == From(t, x) IN r[IF Len(r) = 1 THEN 1 ELSE 2]
Prev(t, x) == Last(From(t, x))
IsMain(t, x) == t.w[x].win = NULL

(* The members of r that follow each other with the main window of x.      *)
Kin(t, r, is) == \A i \in is : t.w[r[i]].main = t.w[r[1]].main
Foremost(t, r) ==
  Append(r, r[1])[Min({Len(r) + 1} \cup {k \in 2 .. Len(r) : Kin(t, r, k .. Len(r))})]
Kindred(t, r) == SubSeq(r, 1, Max({k \in DOMAIN r : Kin(t, r, 1 .. k)}))

findtopw(t, x) == Foremost(t, From(t, x))
findbotw(t, x) == Last(Kindred(t, From(t, x)))
Family(t, x) == Kindred(t, From(t, findtopw(t, x)))

countmain(t) ==
  LET r == From(t, t.cur)
  IN Cardinality({i \in 2 .. Len(r) : t.w[r[i]].main # t.w[r[i - 1]].main}) + 1

-----------------------------------------------------------------------------
(* Heights.                                                                *)

Room(t) == t.h - t.wind

geth(t, x) ==
  LET r == t.w[x]
  IN IF r.reqh # 0 THEN r.reqh ELSE IF r.fixed # 0 THEN r.fixed ELSE (Room(t) * r.hh) \div 1000

(* Faulty variant of Scaled: rounded down. *)
Scaled_Down(t, n) == (1000 * n) \div Room(t)
Scaled(t, n) == (1000 * n + Room(t) - 1) \div Room(t)

seth(t, x, n) == [t EXCEPT !.w[x].reqh = n, !.w[x].hh = Scaled(t, n)]

getgrouph(t, x) == FoldLeft(LAMBDA n, z : n + geth(t, z), 0, Family(t, x))
getminh(t, x) ==
  FoldLeft(LAMBDA n, z : n + IF t.w[z].fixed # 0 THEN t.w[z].fixed ELSE 2, 0, Family(t, x))

(* The families get n lines each, or as many as they need.                 *)
SetMains(t, n) ==
  FoldLeft(LAMBDA s, x : IF IsMain(s, x)
                         THEN [seth(s, x, Max({2, n - (getminh(s, x) - 2)})) EXCEPT !.w[x].orgwin = NULL]
                         ELSE s, t, t.ring)

-----------------------------------------------------------------------------
(* A window dies, and all that ask for it or about it.                     *)

windie(t, x) ==
  [t EXCEPT !.pos = [i \in DOMAIN @ |-> IF @[i].w = x THEN [@[i] EXCEPT !.w = NULL] ELSE @[i]]]

Unlinked(t, x) ==
  [windie(t, x) EXCEPT !.ring = SelectSeq(@, LAMBDA z : z # x), !.leave = Len(t.ring) = 1,
                       !.w = [z \in DOMAIN @ \ {x} |-> @[z]]]

(* The height goes back to the window it was taken from.                   *)
GivenBack(t, x) ==
  IF t.w[x].orgwin = NULL THEN t
  ELSE seth(t, t.w[x].orgwin, geth(t, t.w[x].orgwin) + geth(t, x))

Heir(t, x) ==
  IF t.w[x].win # NULL THEN t.w[x].win
  ELSE IF t.w[x].orgwin # NULL THEN t.w[x].orgwin ELSE Succ(t, x)

CursorGone(t, x) == IF t.cur = x THEN [t EXCEPT !.cur = Heir(t, x)] ELSE t

NoDebt(t, x, zs) ==
  [t EXCEPT !.w = [z \in DOMAIN @ |->
     IF z \in zs /\ @[z].orgwin = x THEN [@[z] EXCEPT !.orgwin = NULL] ELSE @[z]]]

(* Marked as dying, and no longer topwin.                                  *)
Dying(t, x) ==
  [t EXCEPT !.w[x].y = -2, !.ring = IF @[1] = x THEN From(t, Succ(t, x)) ELSE @]

RECURSIVE doabort(_, _), Kids(_, _), Kid(_, _, _)

(* Those that belong to x die first; each time the search starts again.    *)
Belong(t, x) == {i \in DOMAIN t.ring :
                   LET z == t.w[t.ring[i]] IN x \in {z.win, z.main} /\ z.y # -2}
Kid(s, d, x) == Kids([t |-> d.t, amnt |-> s.amnt + d.amnt], x)
Until(t, x, k) == NoDebt(t, x, {t.ring[i] : i \in 1 .. k})
Kids(s, x) ==
  IF Belong(s.t, x) = {} THEN [s EXCEPT !.t = Until(@, x, Len(@.ring))]
  ELSE LET k == Min(Belong(s.t, x)) IN Kid(s, doabort(Until(s.t, x, k), s.t.ring[k]), x)

Buried(s, x) ==
  [t |-> Unlinked(CursorGone(GivenBack(s.t, x), x), x),
   amnt |-> IF Len(s.t.ring) = 1 THEN 0 ELSE s.amnt]
doabort(t, x) == Buried(Kids([t |-> Dying(t, x), amnt |-> geth(t, x)], x), x)

-----------------------------------------------------------------------------
(* wfit: the state of its loop is f: the window x to be placed next at y,  *)
(* the lines left, the latest main window pw, whether the cursor's window  *)
(* has been placed, and the new places ny and heights nh.                  *)

RECURSIVE Squeeze(_), FitFamily(_), SameFamily(_), FitAll(_), MoreFamilies(_), wfit(_), Seen(_)

(* A main window with fewer than two lines takes those of the next one.    *)
Takes(f, d) == Squeeze([f EXCEPT !.t = d.t, !.nh[f.x] = @ + d.amnt])
Squeeze(f) == IF f.nh[f.x] >= 2 THEN f ELSE Takes(f, doabort(f.t, Succ(f.t, f.x)))

Placed(f) ==
  IF ~IsMain(f.t, f.x) THEN [f EXCEPT !.ny[f.x] = f.y]
  ELSE Squeeze([f EXCEPT !.ny[f.x] = f.y, !.pw = f.x, !.nh[f.x] = @ - f.adj])

Moved(f) ==
  [f EXCEPT !.seen = @ \/ f.x = f.t.cur, !.y = @ + f.nh[f.x], !.left = @ - f.nh[f.x],
            !.x = Succ(f.t, f.x)]

(* A family that is higher than the lines left gets lower by f.adj.        *)
SameFamily(f) ==
  IF f.x # Top(f.t) /\ f.t.w[f.x].main = f.t.w[Prev(f.t, f.x)].main THEN FitFamily(f) ELSE f
FitFamily(f) == SameFamily(Moved(Placed(f)))

Excess(f) == Max({0, getgrouph(f.t, f.x) - f.left})

MoreFamilies(f) == IF f.x # Top(f.t) /\ f.left >= FITHEIGHT THEN FitAll(f) ELSE f
FitAll(f) == MoreFamilies(FitFamily([f EXCEPT !.adj = Excess(f)]))

(* The last main window placed gets the rest; its prompts move down.       *)
Upto(x, r) == Range(SubSeq(r, 2, Min({k \in 2 .. Len(r) : r[k] = x} \cup {Len(r) + 1}) - 1))
(* Faulty variant of Lowered: the prompts stay where they were. *)
Lowered_Main(f, xs) == [f EXCEPT !.nh[f.pw] = @ + f.left]
Lowered(f, xs) ==
  [f EXCEPT !.nh[f.pw] = @ + f.left,
            !.ny = [x \in DOMAIN @ |-> IF x \in xs THEN @[x] + f.left ELSE @[x]]]
Stretched(f) == Lowered(f, Upto(f.x, From(f.t, f.pw)))

Fitted(f) ==
  [f.t EXCEPT !.w = [x \in DOMAIN @ |-> [@[x] EXCEPT !.y = f.ny[x], !.h = f.nh[x], !.reqh = 0]]]

(* Until the window with the cursor is on the screen, with the families    *)
(* from the next one on.                                                   *)
Seen(f) ==
  IF f.seen THEN Fitted(Stretched(f))
  ELSE wfit([f.t EXCEPT !.ring = From(f.t, Succ(f.t, findbotw(f.t, Top(f.t))))])
wfit(t) ==
  Seen(FitAll([t |-> t, x |-> Top(t), y |-> t.wind, left |-> Room(t), pw |-> NULL,
               seen |-> FALSE, adj |-> 0, ny |-> [x \in DOMAIN t.w |-> -1],
               nh |-> [x \in DOMAIN t.w |-> geth(t, x)]]))

-----------------------------------------------------------------------------
(* Sharing the screen, growing and shrinking.                              *)

Share(t, n) == Max({FITHEIGHT, Room(t) \div Max({1, n})})

wshowall(t) ==
  LET n == Cardinality({x \in Range(t.ring) : IsMain(t, x)}) IN wfit(SetMains(t, Share(t, n)))

wspread(t) ==
  LET n == Cardinality({x \in Range(t.ring) : IsMain(t, x) /\ t.w[x].y >= 0})
  IN IF n = 0 THEN wfit(t) ELSE wfit(SetMains(t, Share(t, n)))

OnlyHeight(t, x) == Room(t) - (getminh(t, x) - 2)
wshowone(t) ==
  wfit(FoldLeft(LAMBDA s, x : IF IsMain(s, x) THEN [seth(s, x, OnlyHeight(s, x)) EXCEPT !.w[x].orgwin = NULL]
                              ELSE s, t, t.ring))

LastOnScreen(t, x) == x # Top(t) /\ (Succ(t, x) = Top(t) \/ t.w[Succ(t, x)].y = -1)

(* The next window that is no prompt, or topwin.                           *)
NextVariable(t, x) ==
  LET r == Tail(From(t, x)) \o <<x>>
      is == {i \in DOMAIN r : r[i] = Top(t) \/ t.w[r[i]].fixed = 0}
  IN r[Min(is)]

(* A failing operation leaves the screen as it is and says so.             *)
Fail(t) == [t |-> t, ok |-> FALSE]
Ok(t) == [t |-> t, ok |-> TRUE]

RECURSIVE wgrow(_, _), wshrink(_, _)
wgrow(t, x) ==
  LET n == NextVariable(t, x)
  IN IF LastOnScreen(t, x) THEN wshrink(t, t.w[Prev(t, x)].main)
     ELSE IF n = Top(t) \/ t.w[n].y = -1 \/ t.w[n].h <= FITHEIGHT THEN Fail(t)
     ELSE Ok(wfit(seth(seth(t, x, t.w[x].h + 1), n, t.w[n].h - 1)))
wshrink(t, x) ==
  LET n == NextVariable(t, x)
  IN IF LastOnScreen(t, x) THEN wgrow(t, t.w[Prev(t, x)].main)
     ELSE IF t.w[x].h <= FITHEIGHT \/ n = Top(t) THEN Fail(t)
     ELSE Ok(wfit(seth(seth(t, x, t.w[x].h - 1), n, t.w[n].h + 1)))

uexpld(t) == IF Room(t) = getgrouph(t, t.cur) THEN wshowall(t) ELSE wshowone(t)

wnext(t) ==
  IF Len(t.ring) = 1 THEN Fail(t)
  ELSE LET s == [t EXCEPT !.cur = Succ(t, t.cur)]
       IN Ok(IF s.w[s.cur].y = -1 THEN wfit(s) ELSE s)

wprev(t) ==
  IF Len(t.ring) = 1 THEN Fail(t)
  ELSE LET s == [t EXCEPT !.cur = Prev(t, t.cur)]
       IN Ok(IF s.w[s.cur].y = -1 THEN wfit([s EXCEPT !.ring = From(s, findtopw(s, s.cur))]) ELSE s)

-----------------------------------------------------------------------------
(* A new window of the given height: behind where, or at the end; its      *)
(* lines come from the window original, if that is high enough.            *)

NewWindow(t, target, original, height, id) ==
  [main |-> IF target = NULL THEN id ELSE t.w[target].main, win |-> target, orgwin |-> original,
   fixed |-> IF target = NULL THEN 0 ELSE height, reqh |-> height, hh |-> Scaled(t, height),
   y |-> -1, h |-> height, buf |-> NULL, cur |-> NULL]

Queued(t, where, id) ==
  IF where = NULL THEN Append(t.ring, id)
  ELSE LET i == CHOOSE j \in DOMAIN t.ring : t.ring[j] = where IN InsertAt(t.ring, i + 1, id)

TooSmall(t, original, height) == original # NULL /\ t.w[original].h - height <= 2

Taken(t, original, height) ==
  IF original = NULL THEN t ELSE seth(t, original, t.w[original].h - height)

FreshId(t) == Min(Ids \ DOMAIN t.w)
HasRoom(t, n) == Cardinality(DOMAIN t.w) + n <= MaxW

wcreate(t, where, target, original, height) ==
  LET id == FreshId(t)
      new == NewWindow(t, target, original, height, id)
  IN [Taken(t, original, height) EXCEPT !.ring = Queued(t, where, id), !.w = (id :> new) @@ @]

-----------------------------------------------------------------------------
(* Buffers: how many refer to it, and whether it is an orphan, which       *)
(* counts as one.                                                          *)

Freed(t, b) ==
  [t EXCEPT !.pos = [i \in DOMAIN @ |-> IF @[i].p # NULL /\ @[i].p[1] = b
                                       THEN [@[i] EXCEPT !.p = NULL] ELSE @[i]]]
brm(t, b) ==
  LET s == [t EXCEPT !.bufs[b].count = @ - 1]
  IN IF s.bufs[b].count = 0 THEN Freed(s, b) ELSE s

orphit(t, b) == [t EXCEPT !.bufs[b].count = @ + 1, !.bufs[b].orphan = TRUE]

(* A window or an orphan becomes one more user of b.                       *)

(* Faulty variant of bfind: an orphan that is found is counted again. *)
bfind_Again(t, b) == [t EXCEPT !.bufs[b].orphan = FALSE, !.bufs[b].count = @ + 1]
bfind(t, b) ==
  IF t.bufs[b].orphan THEN [t EXCEPT !.bufs[b].orphan = FALSE]
  ELSE [t EXCEPT !.bufs[b].count = @ + 1]

Loaded(t) == {b \in Buffers : t.bufs[b].count > 0}
Orphans(t) == {b \in Buffers : t.bufs[b].orphan}

(* bwmk: the window shows b from its start.                                *)
Shows(t, x, b) == [t EXCEPT !.w[x].buf = b, !.w[x].cur = <<b, 0>>]

(* The window x gets the buffer b, which has been found, for its own.      *)
Replaced(t, x, b) == Shows(brm(t, t.w[x].buf), x, b)

(* Faulty variant of KeepIt: the last window of a text forgets it. *)
KeepIt_Not(t, b) == t
KeepIt(t, b) == IF t.bufs[b].count = 1 THEN orphit(t, b) ELSE t

-----------------------------------------------------------------------------
(* The commands on the current window x; b is a buffer the user names, or  *)
(* one that comes next.                                                    *)

(* The new window id shows what x shows, and gets the cursor.              *)
Doubled(t, x, id) ==
  [Shows(t, id, t.w[x].buf) EXCEPT !.bufs[t.w[x].buf].count = @ + 1, !.w[id].cur = t.w[x].cur, !.cur = id]

SplitAt(t, x, h, n) ==
  IF h \div 2 < FITHEIGHT \/ TooSmall(t, x, n) THEN Fail(t)
  ELSE Ok(Doubled(wfit(wcreate(t, findbotw(t, x), NULL, x, n)), x, FreshId(t)))
usplitw(t, x) == LET h == getgrouph(t, x) IN SplitAt(t, x, h, (h + 1) \div 2)

(* The family of x goes to the end, off the screen.                        *)
demotegroup(t, x) ==
  LET f == Family(t, x)
      r == IF Top(t) \in Range(f)
           THEN From(t, Succ(t, findbotw(t, x)))
           ELSE SelectSeq(t.ring, LAMBDA z : z \notin Range(f)) \o f
  IN [t EXCEPT !.ring = r, !.w = [z \in DOMAIN @ |-> IF z \in Range(f) THEN [@[z] EXCEPT !.y = -1] ELSE @[z]]]

InFront(t, x, s, id) ==
  IF Top(t) \in Range(Family(t, x)) THEN [s EXCEPT !.ring = From(s, id)] ELSE s
Dupped(t, x, made, id) == wfit(Doubled(InFront(made, x, demotegroup(made, x), id), x, id))
uduptw(t, x) == Dupped(t, x, wcreate(t, findbotw(t, x), NULL, NULL, getgrouph(t, x)), FreshId(t))

(* A prompt or menu of h lines over x, whose family gives the lines.       *)
Ask(t, x, h) ==
  LET s == wfit(wcreate(t, x, x, t.w[x].main, h))
  IN IF TooSmall(t, t.w[x].main, h) THEN Fail(t) ELSE Ok([s EXCEPT !.cur = FreshId(t)])

MenuHeight(t, x, n) == Min({n, Max({1, (t.w[t.w[x].main].h * 40) \div 100})})

lastw(t) ==
  LET r == t.ring
  IN r[Max({k \in DOMAIN r : \A i \in 2 .. k : t.w[r[i]].y >= 0})]

wabort(t, x) ==
  LET s == doabort(t, x).t
  IN IF s.leave THEN s
     ELSE IF IsMain(t, x) /\ Succ(s, lastw(s)) = Top(s) THEN wspread(s) ELSE wfit(s)

(* The text in x is given up: an orphan o takes its place in the last      *)
(* window, otherwise the window goes.                                      *)
abortit(t, x, o) ==
  IF countmain(t) = 1 /\ o # NULL THEN Replaced(bfind(t, o), x, o)
  ELSE wabort([brm(t, t.w[x].buf) EXCEPT !.w[x].buf = NULL], x)

Main(t) == t.w[t.cur].main

(* utw0 and utw1: the window goes, its text stays; all but x.              *)
utw0(t, x) == abortit(KeepIt(t, t.w[x].buf), x, NULL)

RECURSIVE Others(_, _), Advance(_, _), SkipFamily(_, _), Further(_, _)
SkipFamily(t, x) == IF Main(t) = t.w[x].main /\ t.cur # x THEN Advance(t, x) ELSE t
Advance(t, x) == SkipFamily(wnext(t).t, x)
Further(t, x) == IF Main(t) = t.w[x].main THEN t ELSE Others(utw0(t, Main(t)), x)
Others(t, x) == Further(Advance(t, x), x)

unbuf(t, x, b) == Replaced(KeepIt(bfind(t, b), t.w[x].buf), x, b)

(* A file is edited in place of a text: loaded from the disk, as a new     *)
(* buffer, or found among the buffers.  The text that gives way becomes an *)
(* orphan or, without the option, keeps its window, which is dup'ed; a     *)
(* file that was found lets it go if another window shows it.              *)
HereReplaced(t, b) == Replaced(t, t.cur, b)
doedit1(t, x, b, load) ==
  LET s == bfind(t, b)
  IN IF ~load /\ s.bufs[t.w[x].buf].count # 1 THEN Replaced(s, x, b)
     ELSE IF t.orphan THEN Replaced(orphit(s, t.w[x].buf), x, b) ELSE HereReplaced(uduptw(s, x), b)

(* uabortbuf: the window keeps open for an orphan o if there is one; not   *)
(* for a changed text that only this window shows.                         *)
uabortbuf(t, x, o) ==
  IF t.bufs[t.w[x].buf].count = 1 THEN Fail(t)
  ELSE Ok(IF o # NULL THEN Replaced(bfind(t, o), x, o) ELSE abortit(t, x, o))

(* A buffer is lost: each of its windows shows an orphan or, when there is *)
(* none, a new buffer.  The set of the outcomes.                           *)
Unloaded(t) == Buffers \ Loaded(t)
Spare(t) == IF Orphans(t) # {} THEN Orphans(t) ELSE {Min(Unloaded(t))}
RECURSIVE dolose(_, _)
dolose(t, xs) ==
  IF xs = <<>> THEN {t}
  ELSE UNION {dolose(Replaced(bfind(t, o), Head(xs), o), Tail(xs)) : o \in Spare(t)}

sresize(t, h) ==
  LET wind == Max({0, IF h - t.wind < FITHEIGHT THEN h - FITHEIGHT ELSE t.wind})
  IN wfit([t EXCEPT !.h = h, !.wind = wind,
                    !.w = [x \in DOMAIN @ |-> [@[x] EXCEPT !.y = -1]]])

help_on(t) == wfit([t EXCEPT !.wind = Min({HelpLines, t.h - FITHEIGHT})])
help_off(t) == wfit([t EXCEPT !.wind = 0])


-----------------------------------------------------------------------------
(* The history.  execmd: the place revisited becomes the latest one again, *)
(* and the place of the cursor the latest, unless the command only moved.  *)

Record(t, x, p) == [w |-> x, p |-> p]

markpos(t, x, p) ==
  [t EXCEPT !.pos = (IF Len(@) = NPOS THEN Tail(@) ELSE @) \o <<Record(t, x, p)>>]

afterpos(t) ==
  IF t.curpos = 0 THEN t
  ELSE [t EXCEPT !.pos = Append(RemoveAt(@, t.curpos), @[t.curpos]), !.curpos = 0]

Near(e, x, p) == e.w = x /\ e.p # NULL /\ e.p[2] - p[2] \in -2 .. 2
aftermove(t, x, p) ==
  LET n == Len(t.pos)
  IN IF n > 0 /\ Near(t.pos[Max({n, 1})], x, p) THEN [t EXCEPT !.pos[n].p = p] ELSE markpos(t, x, p)

HasText(t, x) == t.w[x].cur # NULL
Remembers == "history" \in use
Kept(t) == IF HasText(t, t.cur) /\ Remembers THEN aftermove(t, t.cur, t.w[t.cur].cur) ELSE t
Noted(t) == IF HasText(t, t.cur) THEN afterpos(t) ELSE t
Done(t) == IF t.leave THEN t ELSE Kept(Noted(t))

(* The entries a walk from i on stops at: alive, and not where the cursor  *)
(* is, of which it compares the window and the byte.                       *)
Elsewhere(t, i) ==
  LET e == t.pos[i]
  IN e.p # NULL /\ e.w # NULL /\ ~(e.w = t.cur /\ e.p[2] = t.w[e.w].cur[2])

Visible(t) == IF t.w[t.cur].y = -1 THEN wfit(t) ELSE t
Landed(t, p) == IF t.w[t.cur].cur[2] = p[2] THEN t ELSE [t EXCEPT !.w[t.cur].cur = p]
Arrived(t, i) == Landed(Visible([t EXCEPT !.curpos = i, !.cur = t.pos[i].w]), t.pos[i].p)

(* To the place i, if there is one; otherwise only curpos ends at the last *)
(* entry looked at.                                                        *)
Walk(t, i, end) == IF i # 0 THEN Ok(Arrived(t, i)) ELSE Fail([t EXCEPT !.curpos = end])

uprevpos(t) ==
  LET is == 1 .. IF t.curpos = 0 THEN Len(t.pos) ELSE t.curpos - 1
      there == {i \in is : Elsewhere(t, i)}
  IN Walk(t, IF there = {} THEN 0 ELSE Max(there), IF is = {} THEN t.curpos ELSE 1)
unextpos(t) ==
  LET is == IF t.curpos = 0 THEN {} ELSE t.curpos + 1 .. Len(t.pos)
      there == {i \in is : Elsewhere(t, i)}
  IN Walk(t, IF there = {} THEN 0 ELSE Min(there), IF is = {} THEN t.curpos ELSE Len(t.pos))

-----------------------------------------------------------------------------
(* The start: a window for each file, or only for the first one.           *)

wmktw(t, b) ==
  LET id == FreshId(t)
      new == NewWindow(t, NULL, NULL, t.h, id)
      s == [t EXCEPT !.ring = Append(@, id), !.w = (id :> new) @@ @]
  IN Shows([s EXCEPT !.bufs[b].count = 1], id, b)

screate(h, orphan) ==
  [ring |-> <<>>, cur |-> NULL, h |-> h, wind |-> 0, leave |-> FALSE, w |-> <<>>,
   bufs |-> [b \in Buffers |-> [count |-> 0, orphan |-> FALSE]], orphan |-> orphan,
   pos |-> <<>>, curpos |-> 0]

Started(h, orphan, files) ==
  LET t == screate(h, orphan)
      n == IF orphan THEN 1 ELSE Len(files)
      s == FoldLeft(wmktw, t, SubSeq(files, 1, n))
      o == [s EXCEPT !.bufs = [b \in Buffers |-> IF b \in Range(SubSeq(files, n + 1, Len(files)))
                                                THEN [count |-> 1, orphan |-> TRUE] ELSE @[b]]]
  IN wshowall([o EXCEPT !.cur = Top(o)])

Init ==
  /\ use \in Scenarios
  /\ scr \in {Started(h, "orphan" \in use, f) : h \in Heights, f \in {<<1>>, <<1, 2>>}}

-----------------------------------------------------------------------------
(* The commands.                                                           *)

May(c) == c \in use /\ ~scr.leave
Text == IsMain(scr, scr.cur)
Does(t) == scr' = Done(t) /\ UNCHANGED use

(* In a text window.                                                       *)
Split == May("splitw") /\ Text /\ HasRoom(scr, 1) /\ Does(usplitw(scr, scr.cur).t)
Dup == May("dupw") /\ Text /\ HasRoom(scr, 1) /\ Does(uduptw(scr, scr.cur))
Grow == May("groww") /\ Text /\ Does(wgrow(scr, scr.cur).t)
Shrink == May("shrinkw") /\ Text /\ Does(wshrink(scr, scr.cur).t)
(* A file that is not loaded, or one that is loaded again, into a new      *)
(* buffer; or a buffer that is loaded.                                     *)
Edit ==
  /\ May("edit") /\ Text /\ HasRoom(scr, 1)
  /\ \E b \in Buffers : Does(doedit1(scr, scr.cur, b, b \notin Loaded(scr)))
Switch ==
  /\ May("switch") /\ Text /\ HasRoom(scr, 1)
  /\ \E b \in Buffers : Does(doedit1(scr, scr.cur, b, FALSE))
NextBuffer ==
  /\ May("nbuf") /\ Text
  /\ \E b \in Loaded(scr) :
       Does(IF b = scr.w[scr.cur].buf THEN scr ELSE unbuf(scr, scr.cur, b))
LoseBuffer ==
  /\ May("lose") /\ Text
  /\ LET b == scr.w[scr.cur].buf
         xs == SelectSeq(scr.ring, LAMBDA x : IsMain(scr, x) /\ scr.w[x].buf = b)
     IN /\ Cardinality(Orphans(scr) \cup Unloaded(scr)) >= Len(xs)   \* bound
        /\ \E t \in dolose(scr, xs) : Does(t)

(* In every window.                                                        *)
AnOrphan(t) == IF Orphans(t) = {} THEN {NULL} ELSE Orphans(t)
NextWindow == May("nextw") /\ Does(wnext(scr).t)
PrevWindow == May("prevw") /\ Does(wprev(scr).t)
Explode == May("explode") /\ Does(uexpld(scr))
Abort ==
  /\ May("abort")
  /\ IF ~Text THEN Does(wabort(scr, scr.cur))
     ELSE \E o \in AnOrphan(scr) : Does(abortit(scr, scr.cur, o))
AbortBuffer == May("abortbuf") /\ Text /\ \E o \in AnOrphan(scr) : Does(uabortbuf(scr, scr.cur, o).t)
CloseWindow ==
  May("tw0") /\ Does(IF countmain(scr) = 1 THEN scr ELSE utw0(scr, Main(scr)))
CloseOthers == May("tw1") /\ Does(Others(scr, scr.cur))

(* A question; a prompt, which has a text; a menu.  Answering them closes  *)
(* them as Abort does.                                                     *)
Question == May("query") /\ HasRoom(scr, 1) /\ Does(Ask(scr, scr.cur, 1).t)
Texted(r) == IF r.ok THEN [r.t EXCEPT !.w[r.t.cur].cur = <<0, 0>>] ELSE r.t
Prompt ==
  May("ask") /\ HasRoom(scr, 1) /\ Does(Texted(Ask(scr, scr.cur, 1)))
Menu == May("menu") /\ HasRoom(scr, 1) /\ Does(Ask(scr, scr.cur, MenuHeight(scr, scr.cur, MenuLines)).t)

(* Not commands: the terminal, the help, keys that move or type.           *)
Resize == May("resize") /\ \E h \in Heights : scr' = sresize(scr, h) /\ UNCHANGED use
Help == May("help") /\ Does(IF scr.wind = 0 THEN help_on(scr) ELSE help_off(scr))
Move ==
  /\ May("move") /\ HasText(scr, scr.cur)
  /\ \E l \in Lines :
       scr' = Noted([scr EXCEPT !.w[scr.cur].cur[2] = l]) /\ UNCHANGED use
Type == May("type") /\ HasText(scr, scr.cur) /\ Does(scr)
PrevPos == May("prevpos") /\ HasText(scr, scr.cur) /\ scr' = uprevpos(scr).t /\ UNCHANGED use
NextPos == May("nextpos") /\ HasText(scr, scr.cur) /\ scr' = unextpos(scr).t /\ UNCHANGED use

Next ==
  \/ Split \/ Dup \/ Grow \/ Shrink \/ Edit \/ Switch \/ NextBuffer \/ LoseBuffer
  \/ NextWindow \/ PrevWindow \/ Explode \/ Abort \/ AbortBuffer \/ CloseWindow \/ CloseOthers
  \/ Question \/ Prompt \/ Menu \/ Resize \/ Help \/ Move \/ Type \/ PrevPos \/ NextPos

Spec == Init /\ [][Next]_vars

-----------------------------------------------------------------------------
(* Properties.                                                             *)

Alive == Range(scr.ring)

(* Windows refer only to windows that exist; from topwin on, a prompt      *)
(* stands behind its main window or another prompt of it.                  *)
LinksSound(t, alive) ==
  /\ DOMAIN t.w = alive /\ IsInjective(t.ring) /\ t.cur \in alive
  /\ \A x \in alive :
       LET r == t.w[x]
       IN /\ {r.win, r.orgwin, r.main} \subseteq alive \cup {NULL}
          /\ r.main = IF r.win = NULL THEN x ELSE t.w[r.win].main
  /\ \A i \in DOMAIN t.ring :
       IsMain(t, t.ring[i]) \/ (i > 1 /\ t.w[t.ring[i]].main = t.w[t.ring[i - 1]].main)

(* The windows s on the screen fill it without gap or overlap, from topwin *)
(* on and whole families only, and the cursor's window is one of them.     *)
LayoutExact(t, s, w) ==
  /\ IsPrefix(s, t.ring) /\ s # <<>> /\ t.cur \in Range(s)
  /\ w[s[1]].y = t.wind /\ w[Last(s)].y + w[Last(s)].h = t.h
  /\ \A i \in 2 .. Len(s) : w[s[i]].y = w[s[i - 1]].y + w[s[i - 1]].h
  /\ \A i \in DOMAIN s : w[s[i]].h >= IF IsMain(t, s[i]) THEN 2 ELSE 1
  /\ \A x \in DOMAIN w \ Range(s) : w[x].y = -1 /\ w[x].main # w[Last(s)].main

OnScreen(t) == SelectSeq(t.ring, LAMBDA x : t.w[x].y >= 0)

(* Whatever is split, shared, opened, closed, hidden, demoted or resized,  *)
(* the windows are linked soundly and fill the screen exactly (wfit,       *)
(* doabort, wcreate).                                                      *)
LayoutSound ==
  ~scr.leave => LinksSound(scr, Alive) /\ LayoutExact(scr, OnScreen(scr), scr.w)

(* A buffer counts the windows that show it and, if it is an orphan,       *)
(* itself; so the editor ends only when every text has been given up.      *)
BuffersSound ==
  IF scr.leave THEN Loaded(scr) = {}
  ELSE \A b \in Buffers :
    scr.bufs[b].count = Cardinality({x \in Alive : scr.w[x].buf = b})
                        + IF scr.bufs[b].orphan THEN 1 ELSE 0

(* No command drops a text but those that ask the user when it was changed *)
(* (uabort, ulose): "one of the window goes away, not the file".           *)
TextKept == [][Loaded(scr) \subseteq Loaded(scr') \/ Abort \/ LoseBuffer]_vars

(* Opening a question or a menu and answering it leaves every window where *)
(* it was, wherever the user does that.                                    *)
Layout(t) ==
  [cur |-> t.cur, at |-> [x \in Range(t.ring) |-> <<t.w[x].y, IF t.w[x].y = -1 THEN 0 ELSE t.w[x].h>>]]
Answered(r) == r.ok => Layout(wabort(r.t, r.t.cur)) = Layout(scr)
QuestionRestores ==
  ~scr.leave /\ HasRoom(scr, 1) =>
    \A h \in {1, MenuHeight(scr, scr.cur, MenuLines)} : Answered(Ask(scr, scr.cur, h))

(* The places remembered are not too many, and are of windows that exist   *)
(* and texts that are loaded; from a place in the history, prevpos and     *)
(* then nextpos come back to it.                                           *)
PlacesAlive(t) ==
  /\ Len(t.pos) <= NPOS /\ t.curpos \in 0 .. Len(t.pos)
  /\ ~t.leave => \A i \in DOMAIN t.pos :
       LET e == t.pos[i]
       IN e.w \in Alive \cup {NULL} /\ (e.p # NULL => e.p[1] \in Loaded(t) \cup {0})
Place(t) == <<t.cur, t.w[t.cur].cur>>
AtPlace(t) == ~t.leave /\ t.curpos # 0 /\ HasText(t, t.cur) /\ Place(t) = <<t.pos[t.curpos].w, t.pos[t.curpos].p>>
Returns(r, p) == r.ok => Place(unextpos(r.t).t) = p
PlacesSound == PlacesAlive(scr) /\ (AtPlace(scr) => Returns(uprevpos(scr), Place(scr)))
(* All of these, in every state.                                           *)
WindowsSound == LayoutSound /\ BuffersSound /\ PlacesSound
=============================================================================
