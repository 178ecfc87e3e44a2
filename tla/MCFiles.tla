------------------------------- MODULE MCFiles -------------------------------
(* Instances of Files for TLC.                                             *)
EXTENDS Files

Plan(on, line, cmds, w, s, f) ==
  [existing |-> on, line |-> line, commands |-> cmds, windows |-> w, seconds |-> s, failures |-> f]

(* One buffer and one file at a time, each call failing, other programs    *)
(* writing; then several buffers, and one file loaded twice.               *)
One == Plan({"a"}, <<"a">>, {"modify", "save", "exsave", "nobackups", "signal", "external", "remove"}, 1, 5, 2)
Nameless == Plan({"a"}, <<>>, {"modify", "edit", "save", "exsave", "signal", "external"}, 1, 5, 1)
Several == Plan({"a", "b"}, <<"a", "b">>, {"modify", "edit", "nbuf", "nextw", "abort", "exsave", "querysave", "signal"}, 2, 4, 0)
Twice == Plan({"a"}, <<"a">>, {"modify", "edit", "save", "nextw", "abort", "signal", "external"}, 2, 4, 0)
Around == Plan({"a"}, <<"a", "b">>, {"modify", "switch", "pbuf", "nextw", "ask", "querysave"}, 2, 4, 1)
Core == {One, Nameless, Several, Twice, Around}

(* Three modified files, to be saved by querysave. *)
Query == {Plan({"a", "b", "c"}, <<"a", "b", "c">>, {"modify", "nextw", "querysave"}, 3, 7, 0)}
=============================================================================
