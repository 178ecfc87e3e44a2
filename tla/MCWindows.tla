----------------------------- MODULE MCWindows -----------------------------
(* Small screens for Windows.                                              *)
EXTENDS Windows

\* The screen is split and shared and covered by questions.
Shares == {"splitw", "groww", "shrinkw", "nextw", "abort"}
Dups == {"dupw", "prevw", "explode", "query", "abort"}
\* The terminal gets another size, the help comes and goes.
Sizes == {"splitw", "menu", "abort", "resize"}
Helps == {"splitw", "nextw", "query", "tw0", "help"}
\* Files come and go.
Files == {"splitw", "nextw", "edit", "abort", "tw0"}
OrphanFiles == {"orphan", "splitw", "nextw", "nbuf", "lose", "abort", "abortbuf", "switch", "tw0", "tw1"}
\* Places are remembered, those of prompts too.
Places == {"history", "splitw", "move", "type", "prevpos", "nextpos"}
Asked == {"history", "ask", "abort", "move", "prevpos", "nextpos"}
MCScenarios == {Shares, Dups, Sizes, Helps, Files, OrphanFiles, Places, Asked}
=============================================================================
