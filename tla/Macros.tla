------------------------------- MODULE Macros -------------------------------
(***************************************************************************)
(* Keyboard macros (src/macro.c): every key runs a command; while a macro  *)
(* is recorded the command is noted too.  Commands that ask (record, play, *)
(* arg, uarg) open a prompt that takes the keys that follow.  What is      *)
(* recorded can be played, repeated, written as text, and parsed again.    *)
(***************************************************************************)
EXTENDS Integers, Sequences, FiniteSets, SequencesExt

CONSTANTS
  Keys,     \* the macros that keys are bound to
  MaxKeys,  \* bound on the keys the user types
  MaxArg    \* bound on a repeat count

VARIABLES
  ed,       \* the editor, see Fresh
  typed     \* number of keys so far

vars == <<ed, typed>>

Digit == {"1", "2"}
Value == [c \in Digit |-> IF c = "1" THEN 1 ELSE 2]
NULL  == "none"
CtrlC == "^C"

(* mkmacro: a command with a key, or a block of steps.                     *)
Cmd(name, k) == [cmd |-> name, k |-> k, steps |-> <<>>]
Block(steps) == [cmd |-> "block", k |-> NULL, steps |-> steps]
NoMacro == Cmd(NULL, NULL)

(* text is what has been typed; win the prompts that are open, the latest  *)
(* last; rec the recordings, the latest last.  A recording notes where it  *)
(* started; once a command has failed, what there was then (at), and       *)
(* whether it had keys that are not played as they were typed (odd).       *)
Fresh ==
  [text |-> <<>>, win |-> <<>>, ungot |-> NULL, rec |-> <<>>,
   mac |-> [d \in Digit |-> NoMacro], playing |-> {}, argset |-> FALSE, arg |-> 0,
   num |-> 0, neg |-> FALSE, ret |-> 0]
Ret(s, r)  == [s EXCEPT !.ret = r]
Asking(s)  == s.win # <<>>
Ask(s, p)  == Ret([s EXCEPT !.win = Append(@, p)], 0)
Closed(s)  == [s EXCEPT !.win = Front(@)]

(* unmac, chmac, record: the last step of the recording is dropped, is     *)
(* made to abort its prompt, is added.                                     *)
Top(s) == Last(s.rec)
WithTop(s, r) == [s EXCEPT !.rec[Len(s.rec)] = r]
unmac(s) ==
  IF s.rec = <<>> THEN s ELSE WithTop(s, [Top(s) EXCEPT !.m = Front(@)])
chmac(s) ==
  IF s.rec = <<>> \/ Top(s).m = <<>> THEN s
  ELSE WithTop(s, [Top(s) EXCEPT !.m[Len(Top(s).m)].k = CtrlC])
record(s, m) ==
  IF s.rec = <<>> THEN s ELSE WithTop(s, [Top(s) EXCEPT !.m = Append(@, m)])
nungetc(s, c) == IF c = CtrlC THEN s ELSE [chmac(s) EXCEPT !.ungot = c]

(* A nested recording, a repeat count before it and the macro itself are   *)
(* not played the way they were typed.                                     *)
Odd(s) == [s EXCEPT !.rec = [i \in DOMAIN s.rec |-> [s.rec[i] EXCEPT !.odd = TRUE]]]

dorecord(s, c) ==
  CASE c \notin Digit -> Ret(nungetc(s, c), -1)
    [] c \in Digit /\ s.playing # {} -> Ret(s, -1)
    [] OTHER -> Ret([Odd(s) EXCEPT !.rec =
                       Append(@, [n |-> c, m |-> <<>>, from |-> [s EXCEPT !.rec = <<>>],
                                  failed |-> FALSE, at |-> s.text, odd |-> FALSE])], 0)
urecord(s, k) == IF k \in Digit THEN dorecord(s, k) ELSE Ask(s, "record")

Stopped(s, r) == [s EXCEPT !.rec = Front(@), !.mac[r.n] = Block(r.m)]
ustop(s) ==
  IF s.rec = <<>> THEN Ret(s, 0)
  ELSE Ret(record(Stopped(unmac(s), Top(unmac(s))), Cmd("play", Top(s).n)), 0)

(* The number of the prompt of arg; the one that uarg reads key by key.    *)
doarg(s) == Ret([s EXCEPT !.arg = s.num, !.argset = TRUE], 0)
uarg(s)  == Ask([s EXCEPT !.num = 0], "arg")
Count(s) == IF s.num # 0 THEN s.num ELSE IF s.neg THEN 1 ELSE 4
douarg(s, c) ==
  CASE c = "-" -> Ask([s EXCEPT !.neg = ~@], "uarg")
    [] c \in Digit -> Ask([s EXCEPT !.num = @ * 10 + Value[c]], "uarg")
    [] c = CtrlC -> Ret(s, -1)
    [] OTHER -> Ret([nungetc(Odd(s), c) EXCEPT
                       !.arg = IF s.neg THEN -Count(s) ELSE Count(s), !.argset = TRUE], 0)
uuarg(s, k) ==
  LET z == [s EXCEPT !.num = 0, !.neg = FALSE]
  IN IF k \in Digit \cup {"-"} THEN douarg(z, k) ELSE Ask(z, "uarg")

ubacks(s) == IF s.text = <<>> THEN Ret(s, -1) ELSE Ret([s EXCEPT !.text = Front(@)], 0)

(* A key in the window for the text, or in the latest prompt; utypeqw      *)
(* closes the prompt before it hands the key on.                           *)
RECURSIVE doplay(_, _), exmacro(_, _)
utypeqw(s, p, k) ==
  CASE p = "record" -> dorecord(s, k)
    [] p = "play" -> doplay(s, k)
    [] p = "uarg" -> douarg(s, k)
utype(s, k) ==
  CASE ~Asking(s) -> Ret([s EXCEPT !.text = Append(@, k)], 0)
    [] Asking(s) /\ Last(s.win) # "arg" -> utypeqw(Closed(s), Last(s.win), k)
    [] OTHER -> Ret(IF k \in Digit THEN [s EXCEPT !.num = @ * 10 + Value[k]] ELSE s, 0)

(* execmd; a command that its window does not have fails.                  *)
uplay(s, k) == IF k \in Digit THEN doplay(s, k) ELSE Ask(s, "play")
execmd(s, cmd, k) ==
  CASE cmd = "type"   -> utype(s, k)
    [] cmd = "backs"  -> IF Asking(s) THEN Ret(s, -1) ELSE ubacks(s)
    [] cmd = "delch"  -> Ret(s, -1)             \* the cursor is at the end
    [] cmd = "abort"  -> IF Asking(s) THEN Ret(Closed(s), -1) ELSE Ret(s, -1)
    [] cmd = "rtn"    -> IF Asking(s) /\ Last(s.win) = "arg" THEN doarg(Closed(s)) ELSE Ret(s, -1)
    [] cmd = "record" -> urecord(s, k)
    [] cmd = "stop"   -> ustop(s)
    [] cmd = "play"   -> uplay(s, k)
    [] cmd = "arg"    -> uarg(s)
    [] cmd = "uarg"   -> uuarg(s, k)

(* How often, and which command: with a negative count its opposite; one   *)
(* that cannot be repeated is not run at all.                              *)
CanRepeat == {"type", "backs", "rtn", "play"}
negarg    == [type |-> "backs", backs |-> "delch"]
Times(s, m) ==
  CASE ~s.argset -> 1
    [] s.argset /\ m.cmd = "block" -> IF s.arg < 0 THEN -s.arg ELSE s.arg
    [] OTHER -> IF m.cmd \notin CanRepeat \/ (s.arg < 0 /\ m.cmd \notin DOMAIN negarg) THEN 0
                ELSE IF s.arg < 0 THEN -s.arg ELSE s.arg
Which(s, m) ==
  IF s.argset /\ s.arg < 0 /\ m.cmd \in DOMAIN negarg THEN negarg[m.cmd] ELSE m.cmd

(* exmacro: until a step fails.                                            *)
RunSteps(s, steps) == FoldLeft(LAMBDA z, d : IF z.ret # 0 THEN z ELSE exmacro(z, d), s, steps)
Once(s, m, cmd) == IF m.cmd = "block" THEN RunSteps(s, m.steps) ELSE execmd(s, cmd, m.k)
Repeated(s, m, cmd, n) ==
  FoldLeft(LAMBDA z, i : IF z.ret # 0 THEN z ELSE Once(z, m, cmd), s, [i \in 1 .. n |-> i])
TakeArg(s) == Ret([s EXCEPT !.argset = FALSE, !.arg = 0], 0)
exmacro(s, m) == Repeated(TakeArg(s), m, Which(s, m), Times(s, m))

OddIfOwn(s, c) == IF \E i \in DOMAIN s.rec : s.rec[i].n = c THEN Odd(s) ELSE s
Playing(s, c)  == [OddIfOwn(s, c) EXCEPT !.playing = @ \cup {c}]
doplay(s, c) ==
  CASE c \notin Digit -> Ret(nungetc(s, c), -1)
    [] c \in Digit /\ (c \in s.playing \/ s.mac[c] = NoMacro) -> Ret(OddIfOwn(s, c), -1)
    [] OTHER -> [exmacro(Playing(s, c), s.mac[c]) EXCEPT !.playing = s.playing]

(* A failure is noted in what is being recorded.                           *)
Failing(s) ==
  IF s.ret = 0 THEN s
  ELSE [s EXCEPT !.rec = [i \in DOMAIN s.rec |->
          IF s.rec[i].failed THEN s.rec[i] ELSE [s.rec[i] EXCEPT !.failed = TRUE, !.at = s.text]]]
(* Faulty variant of exemac: a command is noted when it has been run.      *)
exemac_Late(s, m) == Failing(record(exmacro(s, m), m))
exemac(s, m) == Failing(exmacro(record(s, m), m))

Init == ed = Fresh /\ typed = 0

(* edloop: a key that was put back comes first.  In a prompt for one key   *)
(* every key that is no command there is typed (querya).                   *)
Bound(m) ==
  /\ m.cmd = "abort" => Asking(ed)
  /\ Asking(ed) => CASE Last(ed.win) = "record" -> m.cmd \in {"type", "abort", "play", "stop"}
                     [] Last(ed.win) = "arg" -> m.cmd \in {"abort", "rtn"} \/ (m.cmd = "type" /\ m.k \in Digit)
                     [] OTHER -> m.cmd \in {"type", "abort"}
Unget ==
  /\ ed.ungot # NULL
  /\ ed' = exemac([ed EXCEPT !.ungot = NULL], Cmd("type", ed.ungot))
  /\ UNCHANGED typed
Key(m) ==
  /\ ed.ungot = NULL /\ typed < MaxKeys /\ Bound(m)
  /\ ed.num <= MaxArg
  /\ ed' = exemac(ed, m)
  /\ typed' = typed + 1
Next == Unget \/ \E m \in Keys : Key(m)
Spec == Init /\ [][Next]_vars

-----------------------------------------------------------------------------
(* The text of a macro: names of commands and strings, with commas between.*)
(* A text is a sequence of characters, a name being one of them.           *)
Quote == "quote"
Escape == "backslash"
Control == "control"
RECURSIVE FlatSteps(_)
FlatSteps(steps) ==
  FoldLeft(LAMBDA z, m : z \o IF m.cmd = "block" THEN FlatSteps(m.steps) ELSE <<m>>, <<>>, steps)

(* unescape puts characters that would end the string behind a backslash   *)
(* and writes others in hexadecimal.                                       *)
(* Faulty variant of unescape: a backslash stands for itself.              *)
unescape_Bare(c) ==
  CASE c = Quote -> <<Escape, c>>
    [] c \in {Control, CtrlC} -> <<Escape, "x", "1", "1">>
    [] OTHER -> <<c>>
unescape(c) ==
  CASE c \in {Quote, Escape} -> <<Escape, c>>
    [] c \in {Control, CtrlC} -> <<Escape, "x", "1", "1">>
    [] OTHER -> <<c>>
WithKey == {"play", "record", "uarg"}
Comma(w) == IF w.first \/ w.instr THEN w.out ELSE Append(w.out, ",")
Typed(w, c) ==
  [out |-> IF w.instr THEN w.out \o unescape(c) ELSE Append(Comma(w), Quote) \o unescape(c),
   first |-> FALSE, instr |-> TRUE]
Closing(w) == IF w.instr THEN [w EXCEPT !.out = Append(@, Quote), !.instr = FALSE] ELSE w
Command(w, m) ==
  [out |-> Append(Comma(w), m.cmd)
           \o IF m.cmd \in WithKey THEN <<",", Quote>> \o unescape(m.k) \o <<Quote>> ELSE <<>>,
   first |-> FALSE, instr |-> FALSE]
domtext(w, m) == IF m.cmd = "type" THEN Typed(w, m.k) ELSE Command(Closing(w), m)
mtext(steps) ==
  Closing(FoldLeft(domtext, [out |-> <<>>, first |-> TRUE, instr |-> FALSE], FlatSteps(steps))).out

(* mparse: the steps from place x of the text on.  What a number behind a  *)
(* backslash says is not used: the character behind the number is typed.   *)
At(s, x)  == IF x \in DOMAIN s THEN s[x] ELSE "end"
Hex == Digit    \* the digits among the characters
RECURSIVE ParseItem(_, _), ParseString(_, _)
Numeral(s, x, most) == Cardinality({n \in 1 .. most : \A i \in x .. x + n - 1 : At(s, i) \in Hex})
Escaped(s, x) ==    \* where the character is that is typed for the escape at x
  CASE At(s, x + 1) = "x" -> x + 2 + Numeral(s, x + 2, 2)
    [] At(s, x + 1) \in Hex -> x + 1 + Numeral(s, x + 1, 3)
    [] OTHER -> x + 1
Then(s, x) == IF At(s, x) = "," THEN ParseItem(s, x + 1) ELSE <<>>
ParseChar(s, x) == <<Cmd("type", At(s, x))>> \o ParseString(s, x + 1)
ParseString(s, x) ==
  CASE At(s, x) = "end" -> <<>>
    [] At(s, x) = Quote -> Then(s, x + 1)
    [] At(s, x) = Escape -> ParseChar(s, Escaped(s, x))
    [] OTHER -> ParseChar(s, x)
ParseItem(s, x) ==
  IF At(s, x) = Quote THEN ParseString(s, x + 1) ELSE <<Cmd(At(s, x), NULL)>> \o Then(s, x + 1)
mparse(s) == Block(ParseItem(s, 1))

-----------------------------------------------------------------------------
(* What should hold.                                                       *)

(* "record a series of keystrokes and replay them" (joe.1.in:834): played  *)
(* where its recording began, a macro makes the text that its keys made, or*)
(* made until one of them failed; but a macro is not played as it was typed*)
(* when it has a recording in it, the key after uarg, or itself.           *)
Replay(r, mac) == doplay([r.from EXCEPT !.mac = mac], r.n)
Made(r, s) == IF r.failed THEN r.at ELSE s.text
Stops == Len(ed'.rec) < Len(ed.rec)
PlaysBack == Stops /\ ~Top(ed).odd => Replay(Top(ed), ed'.mac).text = Made(Top(ed), ed)

(* Written as text and parsed again, a macro does what it did, if its      *)
(* commands ask no questions, it types no control characters and repeats no*)
(* play and no block (the text repeats their first command instead).       *)
Literal(m) == m.cmd \in {"type", "backs", "stop", "arg", "rtn"} \/ (m.cmd = "play" /\ m.k \in Digit)
Plain(m) == Literal(m) /\ m.k \notin {Control, CtrlC}
Commands(steps) == {steps[i].cmd : i \in DOMAIN steps}
AllPlain(steps) == steps # <<>> /\ \A i \in DOMAIN steps : Plain(steps[i])
Playable(steps) ==
  /\ AllPlain(FlatSteps(steps))
  /\ "arg" \in Commands(FlatSteps(steps)) => Commands(steps) \cap {"block", "play"} = {}
Play(mac, d) == doplay([Fresh EXCEPT !.mac = mac, !.text = <<"x", "x">>], d).text
TextPlays(mac) ==
  \A d \in Digit : Playable(mac[d].steps) =>
    Play([mac EXCEPT ![d] = mparse(mtext(mac[d].steps))], d) = Play(mac, d)
(* Both: a recorded macro is played, and written, as it was typed.         *)
PlayRight == PlaysBack /\ \A mac \in {ed'.mac} : TextPlays(mac)
=============================================================================
