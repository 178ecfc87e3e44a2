------------------------------- MODULE Prompts -------------------------------
(***************************************************************************)
(* Prompts and menus (pw.c, tab.c, menu.c, path.c): a prompt holds the     *)
(* history of earlier answers above the line that is typed; Tab completes  *)
(* the line as the name of a file, or of a command, or offers the names in *)
(* a menu; that of files may go from directory to directory                *)
(* (-menu_explorer).                                                       *)
(* Texts are sequences of characters; columns are characters.              *)
(*                                                                         *)
(* Not modelled: "~" and ",skip,size" in a name (parsens), brackets in a   *)
(* pattern, a screen without room for the menu, leaving a menu for another *)
(* window, commands that run in one key without a redraw between them.     *)
(***************************************************************************)
EXTENDS Integers, Sequences, SequencesExt

CONSTANTS
  Tree,       \* the files: from each readable directory to its sorted entries
  Names,      \* the names of commands, as entries
  Letter,     \* the characters typed
  Widths,     \* of a menu, as the terminal is resized
  Height,     \* of a menu at most: 40 % of the window
  Histories,  \* earlier answers
  MaxKeys

Up == <<".", ".">>
Star == <<"*">>
Slash == <<"/">>
NULL == [n |-> 0]   \* no menu

VARIABLES
  hist,            \* the history of answers, oldest first
  open,            \* the open prompts, each in a window of its own
  menu,            \* the menu of the last prompt, or NULL
  tab,             \* what its completion remembers
  smode,           \* not 0 right after a completion that left a choice
  menu_explorer, w, kind, keys

vars == <<hist, open, menu, tab, smode, menu_explorer, w, kind, keys>>

-----------------------------------------------------------------------------
(* Names (path.c).                                                         *)
LastSlash(path) ==
  LET is == {i \in DOMAIN path : path[i] = "/"} IN IF is = {} THEN 0 ELSE CHOOSE i \in is : \A j \in is : j <= i
namprt(path) == SubSeq(path, LastSlash(path) + 1, Len(path))
dirprt(path) == SubSeq(path, 1, LastSlash(path))
Unslashed(path) ==   \* without the slashes at its end
  LET is == {i \in DOMAIN path : path[i] # "/"}
  IN IF is = {} THEN <<>> ELSE SubSeq(path, 1, CHOOSE i \in is : \A j \in is : j <= i)
begprt(path) == IF Unslashed(path) = <<>> THEN path ELSE dirprt(Unslashed(path))
endprt(path) == namprt(Unslashed(path))

RECURSIVE rmatch(_, _)
rmatch(a, b) ==
  CASE a = <<>> -> b = <<>>
    [] a # <<>> /\ Head(a) = "*" -> \E i \in 1 .. Len(b) + 1 : rmatch(Tail(a), SubSeq(b, i, Len(b)))
    [] a # <<>> /\ Head(a) = "?" -> b # <<>> /\ rmatch(Tail(a), Tail(b))
    [] OTHER -> b # <<>> /\ Head(a) = Head(b) /\ rmatch(Tail(a), Tail(b))
isreg(s) == \E i \in DOMAIN s : s[i] \in {"*", "?"}

(* The directory that a path leads to: one that is not there, or cannot be *)
(* read, is not in DOMAIN Tree.                                            *)
Enter(d, name) ==
  CASE name = <<>> -> d
    [] name = Up /\ d \in DOMAIN Tree -> IF d = <<>> THEN d ELSE Front(d)
    [] OTHER -> Append(d, name)
chpwd(path) ==
  FoldLeft(LAMBDA s, c : IF c = "/" THEN [d |-> Enter(s.d, s.name), name |-> <<>>]
                         ELSE [s EXCEPT !.name = Append(@, c)],
           [d |-> <<>>, name |-> <<>>], path \o Slash).d

-----------------------------------------------------------------------------
(* Menus (menu.c): the entries are laid out row by row, perline in each.   *)
Least(a, b) == IF a < b THEN a ELSE b
Shown(e) == e.name \o (CASE e.kind = "dir" -> Slash [] e.kind = "exec" -> Star [] OTHER -> <<>>)
Longest(files) == CHOOSE n \in {Len(Shown(files[i])) : i \in DOMAIN files} :
                    \A i \in DOMAIN files : Len(Shown(files[i])) <= n
PerLine(files, wd) == LET n == Longest(files) IN wd \div ((IF n > wd THEN wd - 1 ELSE n) + 1)
Rows(n, perline) == (n + perline - 1) \div perline

(* mconfig and mkmenu; the entry "cursor" counts from 0.                   *)
mconfig(m, files, cursor, wd) ==
  [m EXCEPT !.n = Len(files), !.cursor = cursor, !.top = 0, !.perline = PerLine(files, wd)]
mkmenu(files, cursor) ==
  mconfig([n |-> 0, cursor |-> 0, top |-> 0, perline |-> 0,
           h |-> Least(Height, Rows(Len(files), PerLine(files, w)))], files, cursor, w)

menufllw(m) ==
  LET row == m.cursor - (m.cursor % m.perline)
  IN CASE m.cursor < m.top -> [m EXCEPT !.top = row]
       [] m.cursor >= m.top + m.perline * m.h -> [m EXCEPT !.top = row - m.perline * (m.h - 1)]
       [] OTHER -> m

Col(m) == m.cursor % m.perline
To(m, c) == [m EXCEPT !.cursor = c]
(* Faulty variant of Below: also where the last row is shorter.            *)
Below_Past(m, row) == To(m, row + Col(m))
Below(m, row) == To(m, Least(row + Col(m), m.n - 1))   \* in that row, or the last entry
Paged(m, rows) ==
  [Below(m, m.cursor - Col(m) + rows * m.perline) EXCEPT !.top = m.top + rows * m.perline]

umbol(m) == To(m, m.cursor - Col(m))
umeol(m) == To(m, Least(m.cursor - Col(m) + m.perline - 1, m.n - 1))
umrtarw(m) == To(m, Least(m.cursor + 1, m.n - 1))
umltarw(m) == IF m.cursor > 0 THEN To(m, m.cursor - 1) ELSE m
umtab(m) == To(m, (m.cursor + 1) % m.n)
umuparw(m) == IF m.cursor >= m.perline THEN To(m, m.cursor - m.perline) ELSE m
umdnarw(m) ==
  LET next == m.cursor - Col(m) + m.perline IN IF next < m.n THEN Below(m, next) ELSE m

umpgup(m) ==
  LET amnt == ((m.h + 1) \div 2) * m.perline
  IN CASE m.top >= amnt -> [m EXCEPT !.top = @ - amnt, !.cursor = @ - amnt]
       [] m.top > 0 /\ m.top < amnt -> [m EXCEPT !.top = 0, !.cursor = @ - m.top]
       [] OTHER -> To(m, Col(m))
umpgdn(m) ==
  LET amnt == (m.h + 1) \div 2
      left == Rows(m.n, m.perline) - (m.top \div m.perline + m.h)   \* rows below the menu
  IN IF left > 0 THEN Paged(m, Least(amnt, left))
     ELSE Below(m, (Rows(m.n, m.perline) - 1) * m.perline)

Moves(m) ==
  {umbol(m), To(m, 0), To(m, m.n - 1), umeol(m), umrtarw(m), umltarw(m), umtab(m), umuparw(m),
   umdnarw(m), umpgup(m), umpgdn(m)}

-----------------------------------------------------------------------------
(* Completion (tab.c) of the line of the last prompt.                      *)
Text(pw) == pw.lines[pw.row]
Line == Text(Last(open))
Written(s) == [open EXCEPT ![Len(open)].lines[Last(open).row] = s, ![Len(open)].changed = TRUE]
insnam(path, nam, dir) ==
  Written(path \o (IF path = <<>> \/ Last(path) = "/" THEN <<>> ELSE Slash)
               \o nam \o (IF dir THEN Slash ELSE <<>>))

(* The entries that match, <<>> if there are none or no such directory.    *)
get_entries(path, pattern) ==
  IF chpwd(path) \in DOMAIN Tree
  THEN SelectSeq(Tree[chpwd(path)], LAMBDA e : rmatch(pattern, e.name)) ELSE <<>>
Which(path, files, prv) ==   \* the entry that is the directory shown before, or the first
  LET is == {i \in DOMAIN files : files[i].kind = "dir" /\ Enter(chpwd(path), files[i].name) = prv}
  IN IF is = {} THEN 0 ELSE (CHOOSE i \in is : \A j \in is : j <= i) - 1

Common(a, b) == CHOOSE n \in 0 .. Least(Len(a), Len(b)) :
                  /\ SubSeq(a, 1, n) = SubSeq(b, 1, n)
                  /\ n = Least(Len(a), Len(b)) \/ a[n + 1] # b[n + 1]
cull(a, b) == SubSeq(a, 1, Common(a, b))
mcomplete(files) == FoldLeft(LAMBDA com, e : cull(com, Shown(e)), Shown(files[1]), Tail(files))

Closed == menu' = NULL /\ tab' = NULL
Ended == smode' = 0                \* execmd: the key after that of a completion is the last to know
treload(path, files, cursor) ==    \* another directory in the same menu
  /\ menu' = menufllw(mconfig(menu, files, cursor, w))
  /\ tab' = [tab EXCEPT !.path = path, !.files = files, !.prv = chpwd(path)]
  /\ open' = insnam(path, Star, FALSE)

(* The line is path and name, the files are those that match it, and menus *)
(* is the prompt when it offers them in a menu.                            *)
Complete(path, name, files, menus) ==
  /\ CASE files = <<>> -> UNCHANGED <<open, menu, tab>> /\ Ended
       [] Len(files) = 1 -> /\ open' = insnam(path, files[1].name, files[1].kind = "dir")
                            /\ UNCHANGED <<menu, tab>> /\ Ended
       [] Len(files) > 1 /\ (smode > 0 \/ isreg(name)) ->
            /\ menu' = menufllw(mkmenu(files, 0))
            /\ tab' = [path |-> path, first |-> path, files |-> files, prv |-> chpwd(path),
                       orgpath |-> path, orgnam |-> name, line |-> Line]
            /\ open' = menus
            /\ Ended
       [] OTHER -> /\ open' = insnam(path, mcomplete(files), FALSE)
                   /\ UNCHANGED <<menu, tab>> /\ smode' = 1
  /\ UNCHANGED <<hist, w>>

cmplt ==
  /\ open # <<>> /\ menu = NULL
  /\ LET path == dirprt(Line)
         pattern == namprt(Line) \o Star
     IN Complete(path, namprt(Line), get_entries(path, pattern), insnam(path, pattern, FALSE))

(* Of a name of which there is a list: commands, macros, options.          *)
regsub(pattern) == SelectSeq(Names, LAMBDA e : rmatch(pattern, e.name))
simple_cmplt ==
  /\ open # <<>> /\ menu = NULL
  /\ Complete(<<>>, Line, regsub(Line \o Star), open)

tabrtn(i) ==   \* the i-th entry is chosen
  LET e == tab.files[i]
      path == tab.path \o Shown(e)
      files == get_entries(path, Star)
  IN /\ CASE menu_explorer /\ e.kind = "dir" /\ files = <<>> ->
               menu' = menufllw(To(menu, i - 1)) /\ UNCHANGED <<tab, open>>
          [] menu_explorer /\ e.kind = "dir" /\ files # <<>> -> treload(path, files, 0)
          [] OTHER -> open' = insnam(tab.path, e.name, e.kind = "dir") /\ Closed
     /\ Ended /\ UNCHANGED <<hist, w>>
umrtn == menu # NULL /\ tabrtn(menu.cursor + 1)

(* Faulty variant of tababrt: the directory that the menu shows stays.     *)
tababrt_Here == open' = insnam(tab.path, tab.orgnam, FALSE) /\ Closed
tababrt == open' = insnam(tab.orgpath, tab.orgnam, FALSE) /\ Closed
tabbacks ==
  /\ menu # NULL /\ kind = "names"
  /\ IF endprt(tab.path) # <<>> /\ Len(tab.path) # Len(tab.first)
     THEN LET path == begprt(tab.path)
              files == get_entries(path, Star)
          IN treload(path, files, Which(path, files, tab.prv))   \* it can still be read
     ELSE tababrt
  /\ Ended /\ UNCHANGED <<hist, w>>
menuabort == menu # NULL /\ tababrt /\ Ended /\ UNCHANGED <<hist, w>>

Move ==
  /\ menu # NULL
  /\ \E m \in Moves(menu) : menu' = menufllw(m)
  /\ Ended /\ UNCHANGED <<hist, open, tab, w>>

(* A letter goes to the only entry that begins with it and chooses that, or*)
(* to the next of several.                                                 *)
umkey(c) ==
  /\ menu # NULL
  /\ LET is == {i \in DOMAIN tab.files : Head(Shown(tab.files[i])) = c}
         after == {i \in is : i > menu.cursor + 1}
         first == CHOOSE i \in IF after = {} THEN is ELSE after :
                    \A j \in IF after = {} THEN is ELSE after : i <= j
     IN \/ is # {} /\ is = {first} /\ tabrtn(first)
        \/ /\ is # {} /\ is # {first}
           /\ menu' = menufllw(To(menu, first - 1))
           /\ Ended /\ UNCHANGED <<hist, open, tab, w>>

(* The terminal becomes wider or narrower: the menu follows the cursor with*)
(* the old layout and is laid out afresh.                                  *)
sresize(wd) ==
  /\ wd # w /\ w' = wd
  /\ menu' = IF menu = NULL THEN NULL ELSE mconfig(menufllw(menu), tab.files, menu.cursor, wd)
  /\ UNCHANGED <<hist, open, tab, smode>>

-----------------------------------------------------------------------------
(* Prompts (pw.c).                                                         *)
wmkpw ==
  /\ open' = Append(open, [lines |-> Append(hist, <<>>), row |-> Len(hist) + 1, changed |-> FALSE,
                           was |-> hist])
  /\ Ended /\ UNCHANGED <<hist, menu, tab, w>>

uarrow(i, row) ==   \* to the answer above or below
  /\ menu = NULL /\ row \in DOMAIN open[i].lines
  /\ open' = [open EXCEPT ![i].row = row]
  /\ Ended /\ UNCHANGED <<hist, menu, tab, w>>
utypebw(c) ==
  /\ menu = NULL
  /\ open' = Written(Append(Line, c))
  /\ Ended /\ UNCHANGED <<hist, menu, tab, w>>
uundo(i) ==         \* in a prompt that is as it was made: undoes the insertion of the history
  /\ menu = NULL /\ ~open[i].changed
  /\ open' = [open EXCEPT ![i].lines = << <<>> >>, ![i].row = 1]
  /\ Ended /\ UNCHANGED <<hist, menu, tab, w>>

(* An answer that was typed is added unless it is the newest; one that was *)
(* looked up moves to the end, found by the number of its line.            *)
Newest == IF hist = <<>> THEN <<>> ELSE Last(hist)
rtnpw(i) ==
  /\ menu = NULL
  /\ hist' =
       CASE open[i].changed -> IF Text(open[i]) = Newest THEN hist ELSE Append(hist, Text(open[i]))
         [] ~open[i].changed /\ open[i].row > Len(hist) -> hist
         [] OTHER -> Append(RemoveAt(hist, open[i].row), hist[open[i].row])
  /\ open' = RemoveAt(open, i)
  /\ Ended /\ UNCHANGED <<menu, tab, w>>

abortpw(i) ==
  /\ menu = NULL /\ open' = RemoveAt(open, i)
  /\ Ended /\ UNCHANGED <<hist, menu, tab, w>>

Init ==
  /\ hist \in Histories /\ open = <<>> /\ menu = NULL /\ tab = NULL /\ smode = 0
  /\ menu_explorer \in BOOLEAN /\ w \in Widths
  /\ kind \in {"names", "commands", "answers"} /\ keys = 0
Next ==
  /\ keys < MaxKeys /\ keys' = keys + 1
  /\ UNCHANGED <<menu_explorer, kind>>
  /\ \/ Len(open) < (IF kind = "answers" THEN 2 ELSE 1) /\ menu = NULL /\ wmkpw
     \/ \E i \in DOMAIN open : \/ uarrow(i, open[i].row - 1) \/ uarrow(i, open[i].row + 1)
                               \/ uundo(i) \/ rtnpw(i) \/ abortpw(i)
     \/ open # <<>> /\ \E c \in Letter : utypebw(c)
     \/ kind = "names" /\ cmplt
     \/ kind = "commands" /\ simple_cmplt
     \/ /\ kind # "answers" /\ open # <<>>
        /\ \/ umrtn \/ tabbacks \/ menuabort \/ Move
           \/ \E c \in Letter : umkey(c)
           \/ \E wd \in Widths : sresize(wd)

-----------------------------------------------------------------------------
(* What should hold.                                                       *)

(* Completion adds what all the names that begin with the line have in     *)
(* common, and nothing else: none of them is lost, and it cannot add more. *)
Candidates ==
  CASE kind = "commands" -> {e.name : e \in Range(Names)}
    [] kind = "names" /\ chpwd(dirprt(Line)) \in DOMAIN Tree ->
         {dirprt(Line) \o Shown(e) : e \in Range(Tree[chpwd(dirprt(Line))])}
    [] OTHER -> {}
Begun == {f \in Candidates : IsPrefix(Line, f)}
Completes ==
  (IF kind = "names" THEN cmplt ELSE simple_cmplt) /\ ~isreg(Line) /\ menu' = NULL =>
    /\ IsPrefix(Line, Line')
    /\ \A f \in Begun : IsPrefix(Line', f)
    /\ \A c \in Letter \ Range(Star) :
         Begun # {} => \E f \in Begun : ~IsPrefix(Append(Line', c), f)

(* The entry that is chosen is on the screen: always, but for the redraw of*)
(* a terminal that has become wider or narrower.                           *)
ChoiceShown(m) ==
  m # NULL => /\ m.top % m.perline = 0
              /\ m.top <= m.cursor /\ m.cursor < Least(m.n, m.top + m.perline * m.h)

(* A menu that is left by choosing leaves the name of a file that is there,*)
(* and one that is left otherwise the line as it was.                      *)
Chooses ==
  menu # NULL /\ menu' = NULL =>
    \/ Line' = tab.line
    \/ \E e \in Range(tab.files) : Line' = tab.path \o e.name \o (IF e.kind = "dir" THEN Slash ELSE <<>>)
Restores == menuabort => Line' = tab.line

(* The newest answer in the history is the one just given, and the others  *)
(* stay in it; but a prompt whose history has changed meanwhile, or has    *)
(* been undone, moves some other answer to the end.                        *)
InStep(pw) == pw.changed \/ pw.lines = Append(hist, <<>>)
AnswersKept ==
  \A i \in DOMAIN open :
    rtnpw(i) => /\ Range(hist) \subseteq Range(hist')
                /\ InStep(open[i]) /\ Text(open[i]) # <<>> => Last(hist') = Text(open[i])

AnswersRight == Completes /\ (w' = w => ChoiceShown(menu')) /\ Chooses /\ Restores /\ AnswersKept
=============================================================================
