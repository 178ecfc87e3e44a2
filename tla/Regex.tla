-------------------------------- MODULE Regex --------------------------------
(***************************************************************************)
(* The patterns of a search (src/regex.c): whether a text matches at a     *)
(* place, how far the match goes, and which pieces of it can be put into   *)
(* the replacement.  A text is a sequence of characters, a place in it the *)
(* number of characters before it, a pattern a sequence of tokens.         *)
(***************************************************************************)
EXTENDS Integers, Sequences, FiniteSets

CONSTANTS
  Letters,    \* the characters that words are made of
  Lower       \* character -> the same in lower case

NL == "\n"
NoMoreData == "eof"
After(t, p) == IF p < Len(t) THEN t[p + 1] ELSE NoMoreData
Before(t, p) == IF p > 0 THEN t[p] ELSE NoMoreData
pisbol(t, p) == p = 0 \/ Before(t, p) = NL
piseol(t, p) == After(t, p) \in {NL, NoMoreData}
pisbow(t, p) == After(t, p) \in Letters /\ Before(t, p) \notin Letters
piseow(t, p) == After(t, p) \notin Letters /\ Before(t, p) \in Letters

(* Tokens: a character; \? ; \[..] ; \* ; \c ; \+ and what it repeats;     *)
(* \^ \$ \< \> .  Sets stands for the brackets, inverted or not.           *)
Chr(c) == [op |-> "chr", set |-> {c}]
Sets(s) == [op |-> "set", set |-> s]
Plus(s) == [op |-> "plus", set |-> s]
Op(name) == [op |-> name, set |-> {}]
Saves(tok) == tok.op \in {"any", "set", "star", "bal", "plus"}
Piece(pat, k) == Cardinality({i \in 1..k : Saves(pat[i])})
Same(c, d, icase) == c = d \/ (icase /\ c # NoMoreData /\ Lower[c] = Lower[d])
Among(c, s, icase) == \E d \in s : Same(c, d, icase)

(* skip_special: past a string, a character constant, a pair of brackets   *)
(* or a comment, else past one character.  s is what was read last, -2     *)
(* after one of those.                                                     *)
Skipped == "skipped"
Closer == [c \in {"(", "[", "{"} |-> IF c = "(" THEN ")" ELSE IF c = "[" THEN "]" ELSE "}"]
Got(t, p) == [s |-> After(t, p), p |-> IF p < Len(t) THEN p + 1 ELSE p]
Unescaped(t, g) == IF g.s = "\\" THEN Got(t, Got(t, g.p).p) ELSE g
RECURSIVE InString(_, _), InPair(_, _, _), InComment(_, _, _), skip_special(_, _)
InString(t, p) ==
  LET g == Unescaped(t, Got(t, p))
  IN IF g.s = "\"" THEN [g EXCEPT !.s = Skipped]
     ELSE IF g.s = NoMoreData THEN g ELSE InString(t, g.p)
Constant(t, p) ==
  LET a == Unescaped(t, Got(t, p))
      b == IF a.s = "'" THEN a ELSE Got(t, a.p)
      c == IF b.s = "'" THEN b ELSE Got(t, b.p)
  IN IF c.s = "'" THEN [c EXCEPT !.s = Skipped] ELSE c
InPair(t, p, to) ==
  LET g == skip_special(t, p)
  IN IF g.s = to THEN [g EXCEPT !.s = Skipped]
     ELSE IF g.s = NoMoreData THEN g ELSE InPair(t, g.p, to)
InComment(t, p, star) ==
  LET g == Got(t, p)
  IN IF star /\ g.s = "/" THEN [g EXCEPT !.s = Skipped]
     ELSE IF g.s = NoMoreData THEN g ELSE InComment(t, g.p, g.s = "*")
Slash(t, p) ==
  LET g == Got(t, p)
  IN IF g.s = "*" THEN InComment(t, g.p, FALSE)
     ELSE IF g.s = NoMoreData THEN [s |-> "/", p |-> p] ELSE [g EXCEPT !.p = p]
skip_special(t, p) ==
  LET g == Got(t, p)
  IN CASE g.s = "\"" -> InString(t, g.p)
       [] g.s = "'" -> Constant(t, g.p)
       [] g.s \in DOMAIN Closer -> InPair(t, g.p, Closer[g.s])
       [] g.s = "/" -> Slash(t, g.p)
       [] OTHER -> g

(* pmatch: of the tokens from k on, at p; pieces is what earlier tokens    *)
(* and earlier attempts have left.                                         *)
Yes(p, pieces) == [ok |-> TRUE, p |-> p, pieces |-> pieces]
No(pieces) == [ok |-> FALSE, p |-> 0, pieces |-> pieces]
Saved(m, n, s) == [m EXCEPT !.pieces = [@ EXCEPT ![n] = s]]
Span(t, a, b) == SubSeq(t, a + 1, b)
RECURSIVE pmatch(_, _, _, _, _, _), Shortest(_, _, _, _, _, _, _), Longest(_, _, _, _, _, _, _, _)

(* \* and \c try the rest of the pattern further and further on.           *)
Shortest(pieces, pat, k, t, o, p, icase) ==
  LET m == pmatch(pieces, pat, k + 1, t, p, icase)
      g == IF pat[k].op = "star" THEN Got(t, p) ELSE skip_special(t, p)
  IN IF m.ok THEN Saved(m, Piece(pat, k), Span(t, o, p))
     ELSE IF g.s = NoMoreData \/ (pat[k].op = "star" /\ g.s = NL) THEN No(m.pieces)
     ELSE Shortest(m.pieces, pat, k, t, o, g.p, icase)

(* Faulty variant of Longest: the run whole, and nothing shorter.           *)
Longest_Whole(pieces, pat, k, t, o, p, best, icase) ==
  LET m == pmatch(pieces, pat, k + 1, t, p, icase)
  IN IF After(t, p) # NoMoreData /\ Among(After(t, p), pat[k].set, icase)
     THEN Longest(pieces, pat, k, t, o, p + 1, best, icase)
     ELSE IF m.ok THEN Saved(m, Piece(pat, k), Span(t, o, p)) ELSE m
(* \+ goes on as long as its character comes, and takes the last place     *)
(* where the rest of the pattern matched.                                  *)
Longest(pieces, pat, k, t, o, p, best, icase) ==
  LET m == pmatch(pieces, pat, k + 1, t, p, icase)
      e == IF m.ok THEN Saved(m, Piece(pat, k), Span(t, o, p)) ELSE No(m.pieces)
      b == IF m.ok THEN [ok |-> TRUE, p |-> m.p] ELSE best
  IN IF After(t, p) # NoMoreData /\ Among(After(t, p), pat[k].set, icase)
     THEN Longest(e.pieces, pat, k, t, o, p + 1, b, icase)
     ELSE IF b.ok THEN Yes(b.p, e.pieces) ELSE No(e.pieces)

Asserted(op, t, p) ==
  CASE op = "bol" -> pisbol(t, p)
    [] op = "eol" -> piseol(t, p)
    [] op = "bow" -> pisbow(t, p)
    [] op = "eow" -> piseow(t, p)
Takes(tok, c, icase) ==
  CASE tok.op = "chr" -> Among(c, tok.set, icase)
    [] tok.op = "set" -> c \in tok.set
    [] tok.op = "any" -> c # NoMoreData
Kept(pieces, pat, k, c) == IF Saves(pat[k]) THEN [pieces EXCEPT ![Piece(pat, k)] = <<c>>] ELSE pieces
pmatch(pieces, pat, k, t, p, icase) ==
  IF k > Len(pat) THEN Yes(p, pieces)
  ELSE CASE pat[k].op \in {"star", "bal"} -> Shortest(pieces, pat, k, t, p, p, icase)
         [] pat[k].op = "plus" -> Longest(pieces, pat, k, t, p, p, [ok |-> FALSE, p |-> p], icase)
         [] pat[k].op \in {"bol", "eol", "bow", "eow"} ->
              IF Asserted(pat[k].op, t, p) THEN pmatch(pieces, pat, k + 1, t, p, icase) ELSE No(pieces)
         [] pat[k].op \in {"chr", "set", "any"} ->
              IF Takes(pat[k], After(t, p), icase)
              THEN pmatch(Kept(pieces, pat, k, After(t, p)), pat, k + 1, t, p + 1, icase)
              ELSE No(pieces)
NoPieces == <<<<>>, <<>>, <<>>, <<>>, <<>>, <<>>, <<>>, <<>>, <<>>, <<>>>>
Match(pat, t, p, icase) == pmatch(NoPieces, pat, 1, t, p, icase)

-----------------------------------------------------------------------------
(* What a match is: places c[0], c[1].. such that each token fits between  *)
(* two of them, the earliest that a \* can do with and the latest that a   *)
(* \+ can reach.                                                           *)
Steps(t, p) == {skip_special(t, p).p} \ {p}
Reach(t, p) ==
  LET from[n \in 0..Len(t)] ==
        IF n = 0 THEN {p}
        ELSE from[n - 1] \cup UNION {IF skip_special(t, q).s = NoMoreData THEN {} ELSE Steps(t, q) : q \in from[n - 1]}
  IN from[Len(t)]
Fits(tok, t, a, b, icase) ==
  CASE tok.op \in {"chr", "any", "set"} -> b = a + 1 /\ b <= Len(t) /\ Takes(tok, After(t, a), icase)
    [] tok.op = "star" -> b >= a /\ \A i \in a + 1..b : t[i] # NL
    [] tok.op = "bal" -> b \in Reach(t, a)
    [] tok.op = "plus" -> b >= a /\ \A i \in a + 1..b : Among(t[i], tok.set, icase)
    [] tok.op \in {"bol", "eol", "bow", "eow"} -> b = a /\ Asserted(tok.op, t, a)
Matches(pat, t, p, icase) ==
  {c \in [0..Len(pat) -> p..Len(t)] :
     c[0] = p /\ \A k \in 1..Len(pat) : Fits(pat[k], t, c[k - 1], c[k], icase)}
Better(pat, c, d) ==
  \E k \in 1..Len(pat) :
    /\ \A i \in 1..k - 1 : c[i] = d[i]
    /\ IF pat[k].op = "plus" THEN c[k] > d[k] ELSE c[k] < d[k]
Best(pat, M) == CHOOSE c \in M : \A d \in M : d = c \/ Better(pat, c, d)
PieceOf(pat, t, c, n) ==
  LET k == CHOOSE k \in 1..Len(pat) : Saves(pat[k]) /\ Piece(pat, k) = n
  IN Span(t, c[k - 1], c[k])
Pieces(pat) == 1..Piece(pat, Len(pat))
Undisturbed(pat, n) == \A i \in 1..Len(pat) : pat[i].op = "plus" => Piece(pat, i) >= n
=============================================================================
