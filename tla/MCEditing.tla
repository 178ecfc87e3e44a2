----------------------------- MODULE MCEditing -----------------------------
(***************************************************************************)
(* Instances of Editing: short texts with words, indentation, quoted       *)
(* lines, brackets and tabs, each with the options that make it matter.    *)
(***************************************************************************)
EXTENDS Editing

Base ==
  [square |-> FALSE, lightoff |-> FALSE, autoswap |-> TRUE, overtype |-> FALSE,
   istep |-> 2, indentc |-> SP, junk |-> 0, rdonly |-> FALSE, utf8 |-> TRUE,
   lmargin |-> 0, rmargin |-> 5, french |-> FALSE, indentfirst |-> FALSE,
   smarthome |-> TRUE, smartbacks |-> TRUE, picture |-> FALSE, wordwrap |-> TRUE,
   autoindent |-> TRUE, spaces |-> FALSE]

Program == <<SP, SP, "a", "(", NL, NL, SP, "b", ")", NL>>
Prose   == <<"a", "b", ".", SP, SP, "a", SP, "b", NL, "b", "a">>
Quoted  == <<">", "a", NL, ">", SP, "b", NL, "a", NL>>
Nested  == <<"(", "[", "a", "(", ")", ")", "]", "A", NL>>
Ragged  == <<"a", "b", "A", NL, SP, "b", NL, NL, "A", "B">>
Tabbed  == <<"a", TAB, "b", NL, TAB, "A", NL, "b">>
Mixed   == <<SP, SP, SP, SP, "a", NL, TAB, SP, "b", NL>>

Square  == [Base EXCEPT !.square = TRUE]
Anywhere(t) == {NULL} \union 0 .. Len(t)
Once(t, o)  == [t |-> t, o |-> o, marks |-> Anywhere(t), n |-> 1]

Instances ==
  {Once(Program, Base), Once(Prose, Base),
   Once(Quoted, [Base EXCEPT !.utf8 = FALSE, !.lightoff = TRUE]),
   Once(Nested, [Base EXCEPT !.overtype = TRUE, !.spaces = TRUE, !.wordwrap = FALSE]),
   Once(Ragged, Square), Once(Tabbed, [Square EXCEPT !.autoswap = FALSE]),
   Once(Tabbed, [Square EXCEPT !.overtype = TRUE, !.picture = TRUE]),
   Once(Tabbed, [Base EXCEPT !.istep = 1, !.indentc = TAB, !.french = TRUE,
                             !.indentfirst = TRUE, !.autoswap = FALSE]),
   Once(Mixed, Base), Once(Mixed, [Base EXCEPT !.istep = 1, !.indentc = TAB]),
   [t |-> <<"a", NL>>, o |-> Base, marks |-> {NULL}, n |-> 3]}

TypedKeys == {"a", TAB, SP}
Contents  == {<<"b", NL, "b">>}
=============================================================================
