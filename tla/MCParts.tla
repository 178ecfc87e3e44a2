------------------------------- MODULE MCParts -------------------------------
(***************************************************************************)
(* Small instances of eight parts that share no state: virtual memory,     *)
(* killed text and compiler messages (VFile, Yank and Messages, extended), *)
(* the start-up file, macros, the screen, its cursor and prompts.  Each    *)
(* behaviour is one of the part that is chosen in its first state.         *)
(***************************************************************************)
EXTENDS VFile, Yank, Messages, TLC

CONSTANTS MaxLines, MaxKeys, MaxEdits, MaxSteps,
  MaxLost  \* bound on the pages of virtual memory that are lost

VARIABLES
  part,
  file, maps, context, fdefault, options, o, running, curmap, bound,    \* Startup
  ed, typed,                                                            \* Macros
  scr, steps,                                                           \* Screen
  crs,                                                                  \* Cursor
  hist, open, menu, tab, smode, menu_explorer, w, kind, keys            \* Prompts

(* Keys 1 and 2: ranges, sequences, sequences behind sequences.            *)
Sequences ==
  {<< <<1, 1>> >>, << <<1, 2>> >>, << <<1, 1>>, <<2, 2>> >>, << <<1, 2>>, <<1, 2>> >>,
   << <<2, 2>>, <<1, 1>>, <<2, 2>> >>, << <<2, 1>> >>}
Lines ==
  [op : {"bind"}, seq : Sequences, macro : {"m"}]
  \cup [op : {"delete"}, seq : {<< <<1, 1>> >>, << <<1, 2>>, <<2, 2>> >>}]
  \cup [op : {"context", "inherit"}, name : {"main", "windows"}]
  \cup [op : {"section"}, name : {"c", "h"}] \cup [op : {"contents"}, name : {"perl"}]
  \cup [op : {"option"}, value : {1, 2}] \cup {[op |-> "include"]}
S == INSTANCE Startup WITH Key <- {1, 2}, Context <- {"main", "windows"}

Cmd(name, k) == [cmd |-> name, k |-> k, steps |-> <<>>]
Keys ==
  {Cmd("type", k) : k \in {"x", "1", "backslash"}}
  \cup {Cmd("backs", "B"), Cmd("record", "["), Cmd("stop", "]"), Cmd("play", "1"),
        Cmd("arg", "a"), Cmd("rtn", "R"), Cmd("uarg", "u"), Cmd("abort", "^C"),
        [cmd |-> "block", k |-> "none",
         steps |-> <<Cmd("type", "x"), Cmd("backs", "B"), Cmd("backs", "B")>>]}
M == INSTANCE Macros WITH MaxArg <- 2

(* One window in the middle with and without a scrolling region and with   *)
(* comments, two windows, one on all of a terminal that keeps what leaves  *)
(* it.                                                                     *)
Numbered(n) == [i \in 1 .. n |-> [id |-> i, q |-> FALSE]]
Window(y, h, top) == [y |-> y, h |-> h, top |-> top, cur |-> top, inside |-> FALSE]
Setup(n, win, cap, mid, highlight) ==
  [text |-> Numbered(n), win |-> win, mid |-> mid, highlight |-> highlight,
   cap |-> [x \in {"cs", "sf", "sr", "al", "dl", "da", "db"} |-> x \in cap]]
Setups ==
  {Setup(6, <<Window(1, 3, 1)>>, {"cs", "sf", "sr"}, FALSE, FALSE),
   Setup(6, <<Window(1, 3, 1)>>, {"al", "dl"}, FALSE, FALSE),
   Setup(5, <<Window(1, 3, 1)>>, {"al", "dl"}, FALSE, TRUE),
   Setup(5, <<Window(0, 2, 0), Window(3, 2, 2)>>, {"al", "dl"}, FALSE, FALSE),
   Setup(5, <<Window(0, 5, 0)>>, {"cs", "sf", "sr", "al", "dl", "da", "db"}, TRUE, FALSE)}
D == INSTANCE Screen WITH LI <- 5, Amounts <- {1, 2}

(* Terminals with cm and a scrolling region, with home and last line only, *)
(* with rows and columns apart, with tabs in both directions.              *)
Capabilities ==
  {"cm", "cr", "ho", "ll", "ch", "cv", "cV", "lf", "DO", "up", "UP", "bs", "LE", "nd", "RI", "ta", "bt"}
Terminal(costs, flags) ==
  costs @@ [f \in {"cs", "cl", "homes"} |-> f \in flags]
        @@ [cr |-> 1, lf |-> 1, bs |-> 1] @@ [cap \in Capabilities |-> 10000]
Terminals ==
  {Terminal([cm |-> 6, ho |-> 3, up |-> 3, nd |-> 3, UP |-> 4, DO |-> 4, LE |-> 4, RI |-> 4,
             ta |-> 1], {"cs", "cl", "homes"}),
   Terminal([lf |-> 3, DO |-> 4, ho |-> 1, up |-> 1, nd |-> 1, ll |-> 2, ta |-> 1], {"cl"}),
   Terminal([lf |-> 3, ch |-> 2, cv |-> 2, ho |-> 2, ll |-> 1, nd |-> 4, up |-> 3], {"cs"}),
   Terminal([cm |-> 9, bt |-> 1, ta |-> 1, nd |-> 2, up |-> 1, ho |-> 2, RI |-> 4, LE |-> 4,
             cV |-> 3], {})}
C == INSTANCE Cursor WITH CO <- 12, LI <- 3, tw <- 4

(* A directory, in it one that can be read and one that cannot.            *)
Entry(n, k) == [name |-> n, kind |-> k]
Up == Entry(<<".", ".">>, "dir")
Files ==
  (<<>> :> <<Up, Entry(<<"a">>, "file"), Entry(<<"a", "a">>, "exec"), Entry(<<"a", "b">>, "file"),
             Entry(<<"a", "b", "a">>, "file"), Entry(<<"b">>, "dir"), Entry(<<"c">>, "dir")>>)
  @@ (<< <<"b">> >> :> <<Up, Entry(<<"a">>, "file"), Entry(<<"a", "b">>, "exec")>>)
Commands == <<Entry(<<"a", "b">>, "file"), Entry(<<"a", "b", "a">>, "file"), Entry(<<"c">>, "file")>>
P == INSTANCE Prompts WITH Tree <- Files, Letter <- {"a", "b", "c", "/", "*"}, Widths <- {5, 9},
       Height <- 3, Names <- Commands,
       Histories <- {<<>>, << <<"a">>, <<"b">>, <<"a", "/">> >>}, MaxKeys <- 6

YankText == <<"a", "\n", "b">>
YankLetters == {"a", "b", "x", "\n"}
MessagesText == <<1, 2>>

fileVars    == <<file, maps, context, fdefault, options, o, running, curmap, bound>>
macroVars   == <<ed, typed>>
screenVars  == <<scr, steps>>
promptVars  == <<hist, open, menu, tab, smode, menu_explorer, w, kind, keys>>
allVars     ==
  <<vars, part, fileVars, macroVars, screenVars, crs, messageVars, promptVars, yankVars>>
PartsInit ==
  /\ part \in {"memory", "file", "macros", "screen", "cursor", "messages", "prompts", "yank"}
  /\ Init /\ S!Init /\ M!Init /\ MessagesInit /\ YankInit
  /\ IF part = "prompts" THEN P!Init
     ELSE /\ hist = <<>> /\ open = <<>> /\ menu = P!NULL /\ tab = P!NULL /\ smode = 0
          /\ menu_explorer = FALSE /\ w = 9 /\ kind = "names" /\ keys = 0
  /\ steps = 0
  /\ \E u \in IF part = "screen" THEN Setups ELSE {CHOOSE x \in Setups : TRUE} : scr = D!Start(u)
  /\ IF part = "cursor" THEN C!Init ELSE crs = C!Start(CHOOSE x \in Terminals : TRUE)
PartsNext ==
  \/ part = "memory" /\ Next /\ Cardinality(Lost') <= MaxLost
     /\ UNCHANGED <<part, fileVars, macroVars, screenVars, crs, messageVars, promptVars, yankVars>>
  \/ part = "file" /\ S!Next
     /\ UNCHANGED <<part, vars, macroVars, screenVars, crs, messageVars, promptVars, yankVars>>
  \/ part = "macros" /\ M!Next
     /\ UNCHANGED <<part, vars, fileVars, screenVars, crs, messageVars, promptVars, yankVars>>
  \/ part = "screen" /\ D!Next
     /\ UNCHANGED <<part, vars, fileVars, macroVars, crs, messageVars, promptVars, yankVars>>
  \/ part = "cursor" /\ C!Next
     /\ UNCHANGED <<part, vars, fileVars, macroVars, screenVars, messageVars, promptVars, yankVars>>
  \/ part = "messages" /\ unique /\ MessagesNext      \* after that, nothing is claimed
     /\ UNCHANGED <<part, vars, fileVars, macroVars, screenVars, crs, promptVars, yankVars>>
  \/ part = "prompts" /\ P!Next
     /\ UNCHANGED <<part, vars, fileVars, macroVars, screenVars, crs, messageVars, yankVars>>
  \/ part = "yank" /\ YankNext
     /\ UNCHANGED <<part, vars, fileVars, macroVars, screenVars, crs, messageVars, promptVars>>
PartsSpec == PartsInit /\ [][PartsNext]_allVars

(* A start-up file means what its lines say: bindings and options.         *)
FileRight == [][S!LinesRight]_fileVars
(* Macros play what was recorded, also after they were written as text.    *)
MacrosRight == [][M!PlayRight]_macroVars
(* The terminal shows the text that its windows are on.                    *)
ScreenRight == D!ScreenRight
(* The cursor of the terminal is where the editor has it.                  *)
CursorRight == C!CursorRight
(* Prompts complete names, offer menus and remember answers as they should.*)
PromptsRight == [][P!AnswersRight]_promptVars
=============================================================================
