------------------------------ MODULE MCSearch ------------------------------
(* Search on small texts.                                                  *)
EXTENDS Search

LettersDef == {"a", "b", "A", "c"}
LowerDef == [c \in {"a", "b", "A", "c", NL, "(", ")", "\"", "-"} |-> IF c = "A" THEN "a" ELSE c]

O(pat, repl, replace, repeat, opts) ==
  [pat |-> pat, repl |-> repl, replace |-> replace, repeat |-> repeat,
   ignore |-> "i" \in opts, backwards |-> "b" \in opts, block |-> "k" \in opts]
Texts(S, n) == UNION {[1..k -> S] : k \in 0..n}
Bare == [texts |-> {<<>>}, starts |-> {0}, blocks |-> {NoMark}, wrap |-> FALSE, finds |-> {},
         keys |-> {}, chars |-> {}, commands |-> 1, typed |-> 0]

(* Patterns of every kind on every text of up to three characters.         *)
Simple == {Chr("a"), Chr(NL), Sets({"a", "b"}), Plus({"a"}), Plus({"b"})}
            \cup {Op(n) : n \in {"any", "star", "bol", "eol", "bow", "eow"}}
Ones == {<<x>> : x \in Simple}
Twos == {<<x, y>> : x \in Simple, y \in Simple}
Threes == {<<x, y, z>> : x \in {Chr("a"), Plus({"a"}), Op("star")}, y \in {Plus({"a"}), Op("any"), Op("star")},
                         z \in {Chr("a"), Op("any"), Plus({"b"})}}
Patterns ==
  [Bare EXCEPT !.texts = Texts({"a", "b", NL}, 3),
               !.finds = {O(p, <<>>, FALSE, -1, {}) : p \in Ones \cup Twos \cup Threes}]
Balanced ==
  [Bare EXCEPT !.texts = Texts({"(", ")", "\"", "a"}, 4),
               !.finds = {O(<<Chr("("), Op("bal"), Chr(")")>>, <<>>, FALSE, -1, {}),
                          O(<<Op("bal"), Chr("a")>>, <<>>, FALSE, -1, {})}]
Cases ==
  [Bare EXCEPT !.texts = Texts({"a", "A", "b"}, 3),
               !.finds = {O(p, <<>>, FALSE, -1, o) : o \in {{}, {"i"}},
                          p \in {<<Chr("a"), Chr("b")>>, <<Chr("A"), Plus({"A"})>>}}]

(* Find and find next, anywhere, both ways, with NNN, block and wrap.      *)
AB == <<"a", "b", "a", NL, "a", "b">>
Finding(wrap, opts, blocks) ==
  [Bare EXCEPT !.texts = {AB}, !.starts = 0..6, !.blocks = blocks, !.wrap = wrap,
               !.finds = {O(p, <<>>, FALSE, n, o) : p \in {<<Chr("a")>>, <<Chr("a"), Chr("b")>>, <<Op("bol"), Chr("a")>>},
                                                    n \in {-1, 1, 2}, o \in opts},
               !.commands = IF wrap THEN 1 ELSE 3]
Plain == Finding(FALSE, {{}, {"b"}}, {NoMark, [b |-> 1, k |-> 5]})
Blocked == Finding(FALSE, {{"k"}, {"k", "b"}}, {NoMark, [b |-> 1, k |-> 5], [b |-> 4, k |-> 6]})
Around == Finding(TRUE, {{}, {"b"}}, {NoMark})

(* Replacing, with questions and without.                                  *)
XY == <<Lit("x"), Lit("y")>>
Doubled == <<Lit("x"), Entire, Lit("x")>>
Replacing(text, starts, blocks, wrap, pats, repls, opts) ==
  [Bare EXCEPT !.texts = {text}, !.starts = starts, !.blocks = blocks, !.wrap = wrap,
               !.finds = {O(p, r, TRUE, n, o) : p \in pats, r \in repls, n \in {-1, 1, 2, 9}, o \in opts}]
ABA == <<"a", "b", "a", "b", "a">>
As == {<<Chr("a")>>}
Forward == Replacing(ABA, {0, 1, 2}, {NoMark}, FALSE, As \cup {<<Chr("b"), Op("any")>>}, {XY, <<>>, Doubled}, {{}})
Backward == Replacing(ABA, {5, 2}, {NoMark}, FALSE, As, {XY, <<>>}, {{"b"}})
InBlocks == Replacing(ABA, {0}, {[b |-> 0, k |-> 3], [b |-> 1, k |-> 5], [b |-> 2, k |-> 3]}, FALSE, As, {XY, <<>>, Doubled}, {{"k"}})
BlockBack == Replacing(ABA, {5}, {[b |-> 0, k |-> 4], [b |-> 1, k |-> 4]}, FALSE, As, {XY, <<>>}, {{"k", "b"}})
AllRound == Replacing(ABA, {0, 2, 3}, {NoMark}, TRUE, As, {XY, <<>>, Doubled}, {{}})
BackRound == Replacing(ABA, {5, 3}, {NoMark}, TRUE, As, {XY, <<>>}, {{"b"}})
Shuffled == Replacing(<<"a", "b", NL, "a", "a", "b", "b">>, {0}, {NoMark}, FALSE,
              {<<Op("any"), Op("star"), Op("eol")>>, <<Op("any"), Plus({"b"}), Op("eol")>>},
              {<<Piece_(2), Piece_(1)>>}, {{}})
Resumed ==
  [Forward EXCEPT !.commands = 3, !.starts = {0, 3}, !.chars = {"a"},
                  !.finds = {O(<<Chr("a")>>, XY, TRUE, -1, {})}]

(* Incremental search.                                                     *)
Incremental ==
  [Bare EXCEPT !.texts = {<<"a", "b", "a", "a", "b">>}, !.starts = {0, 3}, !.blocks = {NoMark},
               !.keys = {"a", "b"}, !.typed = 3, !.commands = 2,
               !.finds = {O(<<Chr("b")>>, <<>>, FALSE, -1, {})}]
Repeating == [Incremental EXCEPT !.starts = {0, 2}, !.keys = {"a"}, !.commands = 3, !.finds = {}]

Core == {Patterns, Balanced, Cases, Plain, Blocked, Around, Forward, Backward, InBlocks, BlockBack,
         AllRound, BackRound, Shuffled, Resumed, Incremental, Repeating}
Overlaid == {[Bare EXCEPT !.texts = Texts({"a", "b", "c"}, 3),
                          !.finds = {O(<<Plus({"a"}), Op("any"), Chr("b")>>, <<>>, FALSE, -1, {})}]}
=============================================================================
