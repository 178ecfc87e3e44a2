------------------------------- MODULE Startup -------------------------------
(***************************************************************************)
(* A start-up file (procrc of src/rc.c): its lines set options for all     *)
(* files or for those of a section, and bind key sequences in key maps     *)
(* (src/kbd.c), which are trees with ranges of keys as branches.  A file   *)
(* that is opened takes its options from a section (setopt); a key that is *)
(* typed goes down the tree of its window (dokey).                         *)
(***************************************************************************)
EXTENDS Integers, Sequences, FiniteSets, FiniteSetsExt, SequencesExt

CONSTANTS
  Key,      \* the keys, integers
  Context,  \* names of contexts
  Lines,    \* the lines a start-up file may have
  MaxLines  \* bound on the lines of a file

VARIABLES
  file,     \* the lines so far
  maps,     \* contexts: the key map of each name
  context,  \* the name that was selected last
  fdefault, options, o, \* options of all files, the sections, the current one
  running,  \* the file has been read, keys are typed
  curmap,   \* where dokey is in the map of a window that has Top
  bound     \* what the last key was bound to

vars == <<file, maps, context, fdefault, options, o, running, curmap, bound>>

NULL   == "none"        \* no context, no expression
NIL    == <<>>          \* no map, no macro

(* One entry of a map: a prefix key with a map of its own, or a macro.     *)
Prefix(t) == [k |-> 1, submap |-> t, bind |-> NIL]
Leaf(m)   == [k |-> 0, submap |-> NIL, bind |-> m]
mkkmap    == [n \in Key |-> Leaf(NIL)]

(* range: a key or an interval of keys; nothing for an unknown key name or *)
(* an empty interval.                                                      *)
Named(r) == r[1] \in Key /\ r[2] \in Key /\ r[1] <= r[2]

(* kbuild: the macro is bound to every key of the last range; macstk tells *)
(* it which.                                                               *)
RECURSIVE kbuild(_, _, _)
Deeper(e, seq, m) ==
  Prefix(kbuild(IF e.k = 1 THEN e.submap ELSE NIL, Tail(seq), m))
Entry(t, n, seq, m) ==
  IF Len(seq) > 1 THEN Deeper(t[n], seq, m) ELSE Leaf(<<m, n>>)
(* Faulty variant of Built: the keys of a range share one map.             *)
Built_Shared(t, seq, m) ==
  [n \in Key |-> IF n \in seq[1][1] .. seq[1][2]
                 THEN Entry(t, seq[1][1], seq, m) ELSE t[n]]
Built(t, seq, m) ==
  [n \in Key |-> IF n \in seq[1][1] .. seq[1][2] THEN Entry(t, n, seq, m) ELSE t[n]]
kbuild(t, seq, m) ==
  IF ~Named(seq[1]) THEN t ELSE Built(IF t = NIL THEN mkkmap ELSE t, seq, m)

kadd(t, seq, m) == kbuild(t, seq, m)

RECURSIVE kdel(_, _)
Cleared(e, seq) ==
  IF Len(seq) = 1 THEN Leaf(NIL)
  ELSE IF e.k = 1 THEN Prefix(kdel(e.submap, Tail(seq))) ELSE e
kdel(t, seq) ==
  IF ~Named(seq[1]) \/ t = NIL THEN t
  ELSE [n \in Key |-> IF n \in seq[1][1] .. seq[1][2] THEN Cleared(t[n], seq) ELSE t[n]]

RECURSIVE kcpy(_, _)
Copied(d, s) ==
  CASE s.k = 1 -> Prefix(kcpy(IF d.k = 1 THEN d.submap ELSE mkkmap, s.submap))
    [] s.k = 0 /\ s.bind # NIL -> s
    [] OTHER -> d
kcpy(dest, src) == [n \in Key |-> Copied(dest[n], src[n])]

Init ==
  /\ file = <<>>
  /\ maps = [c \in {} |-> mkkmap] /\ context = NULL
  /\ fdefault = [contents |-> NULL, value |-> 0] /\ options = <<>> /\ o = 0
  /\ running = FALSE /\ curmap = <<>> /\ bound = NIL

(* A line of the file is read (at most MaxLines).                          *)
Line(l) ==
  /\ ~running /\ Len(file) < MaxLines
  /\ file' = Append(file, l)
  /\ UNCHANGED <<running, curmap, bound>>
kmap_getcontext(c) == IF c \in DOMAIN maps THEN maps ELSE maps @@ (c :> mkkmap)

Select(l) ==
  /\ l.op = "context" /\ Line(l)
  /\ maps' = kmap_getcontext(l.name) /\ context' = l.name
  /\ UNCHANGED <<fdefault, options, o>>
Bind(l) ==
  /\ l.op = "bind" /\ Line(l)
  /\ maps' = IF context = NULL THEN maps ELSE [maps EXCEPT ![context] = kadd(@, l.seq, l.macro)]
  /\ UNCHANGED <<context, fdefault, options, o>>
Delete(l) ==
  /\ l.op = "delete" /\ Line(l)
  /\ maps' = IF context = NULL THEN maps ELSE [maps EXCEPT ![context] = kdel(@, l.seq)]
  /\ UNCHANGED <<context, fdefault, options, o>>
Inherit(l) ==
  /\ l.op = "inherit" /\ Line(l)
  /\ maps' = IF context = NULL THEN maps
             ELSE [kmap_getcontext(l.name) EXCEPT ![context] = kcpy(@, kmap_getcontext(l.name)[l.name])]
  /\ UNCHANGED <<context, fdefault, options, o>>
(* A section starts as a copy of the options of all files as they are here,*)
(* with their expression for the contents, if there is one.                *)
Section(l) ==
  /\ l.op = "section" /\ Line(l)
  /\ options' = Append(options, [name |-> l.name, own |-> fdefault])
  /\ o' = Len(options')
  /\ UNCHANGED <<maps, context, fdefault>>
(* Faulty variant of Selected: what is set goes to all files, too.         *)
Selected_Both(field, x) ==
  /\ fdefault' = [fdefault EXCEPT ![field] = x]
  /\ options' = IF o = 0 THEN options ELSE [options EXCEPT ![o].own[field] = x]
Selected(field, x) ==
  IF o = 0 THEN fdefault' = [fdefault EXCEPT ![field] = x] /\ UNCHANGED options
  ELSE options' = [options EXCEPT ![o].own[field] = x] /\ UNCHANGED fdefault
Contents(l) ==
  /\ l.op = "contents" /\ Line(l) /\ Selected("contents", l.name)
  /\ UNCHANGED <<maps, context, o>>
Option(l) ==
  /\ l.op = "option" /\ Line(l) /\ Selected("value", l.value)
  /\ UNCHANGED <<maps, context, o>>
(* :include, and the end of the file that it names: what was selected is   *)
(* not selected any more.                                                  *)
Include(l) ==
  /\ l.op = "include" /\ Line(l)
  /\ context' = NULL /\ o' = 0
  /\ UNCHANGED <<maps, fdefault, options>>

(* A key is typed in a window that has the map named Top.                  *)
Top == CHOOSE c \in Context : TRUE
RECURSIVE Node(_, _)
Node(t, path) == IF path = <<>> \/ t = NIL THEN t ELSE Node(t[Head(path)].submap, Tail(path))
Took(n, t) ==
  /\ curmap' = IF t[n].k = 1 THEN Append(curmap, n) ELSE <<>>
  /\ bound' = t[n].bind
dokey(n) ==
  /\ Top \in DOMAIN maps /\ Node(maps[Top], curmap) # NIL
  /\ Took(n, Node(maps[Top], curmap))
  /\ running' = TRUE
  /\ UNCHANGED <<file, maps, context, fdefault, options, o>>

Next ==
  \/ \E l \in Lines :
       Select(l) \/ Bind(l) \/ Delete(l) \/ Inherit(l) \/ Section(l) \/ Contents(l)
       \/ Option(l) \/ Include(l)
  \/ \E n \in Key : dokey(n)

Spec == Init /\ [][Next]_vars

(* The options of a file: those of the first section in the list whose     *)
(* expressions match its name and its text.                                *)
Matches(s, f) == s.name \in f.names /\ s.own.contents \in f.texts \cup {NULL}
First(is) == Max(is)                \* the list is kept with its newest first
setopt(f) ==
  LET is == {i \in DOMAIN options : Matches(options[i], f)}
  IN IF is = {} THEN fdefault.value ELSE options[First(is)].own.value

-----------------------------------------------------------------------------
(* What should hold.                                                       *)

(* A map as what it is for: sequences of keys and what they are bound to.  *)
RECURSIVE Bindings(_)
Bindings(t) ==
  IF t = NIL THEN {}
  ELSE UNION {IF t[n].k = 1 THEN {<< <<n>> \o b[1], b[2] >> : b \in Bindings(t[n].submap)}
              ELSE {<< <<n>>, b >> : b \in {t[n].bind} \ {NIL}} : n \in Key}
RECURSIVE PrefixKeys(_)
PrefixKeys(t) ==
  IF t = NIL THEN {<<>>}
  ELSE {<<>>} \cup UNION {{<<n>> \o p : p \in PrefixKeys(t[n].submap)} : n \in {x \in Key : t[x].k = 1}}
PathsOf(seq) == {p \in [1 .. Len(seq) -> Key] : \A i \in DOMAIN seq : p[i] \in seq[i][1] .. seq[i][2]}
Inside(p, q) == IsPrefix(q, p)
Clash(p, q) == IsPrefix(p, q) \/ IsPrefix(q, p)

(* A line binds all sequences of its ranges to its macro with the last key,*)
(* unbinds what is on their way or behind them (or, for :delete, behind    *)
(* them), and leaves all other sequences of all contexts alone.  :inherit  *)
(* takes over all of the other context's, and keeps what it has not.       *)
Was(c) == IF c \in DOMAIN maps THEN Bindings(maps[c]) ELSE {}
Is(c)  == IF c \in DOMAIN maps' THEN Bindings(maps'[c]) ELSE {}
Good(seq) == \A i \in DOMAIN seq : Named(seq[i])
Expected(l) ==
  CASE l.op = "bind" /\ Good(l.seq) ->
         {b \in Was(context) : \A p \in PathsOf(l.seq) : ~Clash(b[1], p)}
         \cup {<<p, <<l.macro, p[Len(p)]>>>> : p \in PathsOf(l.seq)}
    [] l.op = "delete" /\ Good(l.seq) ->
         {b \in Was(context) : \A p \in PathsOf(l.seq) : ~Inside(b[1], p)}
    [] l.op = "inherit" ->
         {b \in Was(context) : \A d \in Was(l.name) : ~Clash(b[1], d[1])} \cup Was(l.name)
    [] OTHER -> Was(context)
HidesNone(l) ==   \* no prefix key of the other context is left with nothing behind it
  l.op = "inherit" /\ l.name \in DOMAIN maps =>
    \A p \in PrefixKeys(maps[l.name]) \ {<<>>} : \E b \in Was(l.name) : IsPrefix(p, b[1])
Sound(l) == l.op \in {"bind", "delete"} => Good(l.seq)
BindingsRight ==
  file' # file /\ context # NULL /\ Sound(Last(file')) /\ HidesNone(Last(file')) =>
    \A c \in Context : Is(c) = IF c = context THEN Expected(Last(file')) ELSE Was(c)

(* "If more than one regular expression matches the file name, then the    *)
(* last matching one is chosen" (joerc.in:121): a file has the options of  *)
(* the last section for it, which are those of its lines and else the ones *)
(* that held for all files where it began.                                 *)
EndOf(i) == Min({j \in i + 1 .. Len(file) : file[j].op \in {"section", "include"}} \cup {Len(file) + 1})
InSection(k) == \E i \in 1 .. k : file[i].op = "section" /\ k < EndOf(i)
Own(i, op) == {k \in i .. EndOf(i) - 1 : file[k].op = op}
Before(i, op) == {k \in 1 .. i - 1 : file[k].op = op /\ ~InSection(k)}
Latest(i, op) == IF Own(i, op) # {} THEN Own(i, op) ELSE Before(i, op)
Fits(i, f) ==
  /\ file[i].op = "section" /\ file[i].name \in f.names
  /\ Latest(i, "contents") = {} \/ file[Max(Latest(i, "contents"))].name \in f.texts
ValueOf(ks) == IF ks = {} THEN 0 ELSE file[Max(ks)].value
OptionsOf(f) ==
  LET is == {i \in DOMAIN file : Fits(i, f)}
  IN IF is = {} THEN ValueOf(Before(Len(file) + 1, "option"))
     ELSE ValueOf(Latest(Max(is), "option"))
Files == [names : SUBSET {l.name : l \in {x \in Lines : x.op = "section"}},
          texts : SUBSET {l.name : l \in {x \in Lines : x.op = "contents"}}]
OptionsRight == \A f \in Files : setopt(f) = OptionsOf(f)
(* Both, at every line: the lines of a start-up file mean what they say.   *)
LinesRight == BindingsRight /\ OptionsRight'
=============================================================================
