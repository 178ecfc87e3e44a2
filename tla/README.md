# A verification development for jupp

jupp is a programmer's text editor, a fork of JOE 2.8: one process in C that keeps
files in buffers made of gap buffers over a software virtual memory, records every
change for undo, and runs programs in its windows through helper processes. The
modules in this directory are TLA+ models of its parts, made from the source in
`src/`, with TLC configurations that check them on small instances and TLAPS
proofs of what holds for every size. `PROJECT.json` says which lines of the source
each definition stands for (a helper that stands for a few lines of an operation
is covered by the operation's entry), and which hazard of the code each property
is there for.

Contents

1. The system
2. Plan: what is done and what is left
3. Undo: `Undo`, `UndoHistory`, `MCUndo`, `UndoProofs`, `SavedProofs`,
   `HistoryProofs`
4. The input multiplexer: `Mpx`, `ShellWindow`, `MCMpx`, `MpxProofs`
5. The buffer: `GapBuffer`, `Marks`, `MCGapBuffer`, `Points`, `MCPoints`
6. Editing commands: `Text`, `Blocks`, `Format`, `Editing`, `MCEditing`
7. Windows and places: `Windows`, `MCWindows`
8. Loading and saving: `Files`, `MCFiles`, `FilesProofs`
9. Searching: `Regex`, `Search`, `MCSearch`
10. Eight parts in one run: `VFile`, `Startup`, `Macros`, `Screen`, `Cursor`,
    `Messages`, `Prompts`, `Yank`, `MCParts`, `VFileProofs`, `YankProofs`,
    `MessagesProofs`
11. What the checks show, and where code and documents differ
12. Proofs
13. Not modelled
14. How to run it

## 1. The system

| component | state it keeps | operations | talks to | module |
| --- | --- | --- | --- | --- |
| Undo history (`undo.c`) | per buffer a list of records, `ptr`, the open unit, the number of units; the free list; the yank ring | `undoins`, `undodel`, `umclear`, `undomark`, `uundo`, `uredo`, `undogc`; `uyank`, `uyankpop` | called by the buffer on each change and by the command loop around each command; `saver` edits its records; its own undo goes back through the buffer | `Undo`, `Yank` |
| Command loop and macros (`macro.c`, `cmd.c`) | the macro being recorded, play depth, repeat count | `exmacro`, `umacros`, `execmd`, `edloop` | runs every command; commands may start a nested `edloop` | `Macros`, `Undo` |
| Buffer (`b.c`, `blocks.c`) | a chain of segments with gap buffers, the list of its pointers, `changed`, marks, reference count | `binsm`, `bdel`, `pgoto`, `pfwrd`, `bsplit`, `bld`, `bsave`, `brm` | segments live in virtual memory; every pointer of every window is fixed up on a change | `GapBuffer`, `Points`, `Files` |
| Virtual memory (`vfile.c`) | pages with a lock count and a dirty bit, headers, swap file | `vlock`, `vunlock`, `vflsh`, `my_valloc`, `vclose` | used by the buffer only | `VFile` |
| Terminal input and multiplexer (`tty.c`, `ushell.c`) | typeahead `have`/`havec`, the last packet, what is to be acknowledged, slots for programs | `ttgetc`, `ttflsh`, `mpxmk`, `mpxdied`, `ttsusp`, `cdata` | a keyboard task and one copier per program, through pipes | `Mpx` |
| Loading, saving, life cycle (`ufile.c`, `main.c`) | name and time of the file of a buffer, `backup`, `orphan` | `genexmd`, `saver`, `dosave1`, `uexsve`, `uquerysave`, `ttsig` | prompts as continuations; marks undo records; the file system | `Files` |
| Position history (`poshist.c`) | a list of positions, the current one | `aftermove`, `afterpos`, `markpos`, `uprevpos`, `unextpos` | called by the command loop before and after each step | `Windows` |
| Windows (`w.c`, `tw.c`, `bw.c`) | the ring of windows, heights, the current one | `wcreate`, `wabort`, `wfit`, `wgrow`, `usplitw` | hold buffer references; abort callbacks | `Windows` |
| Keyboard maps, options, start-up files (`kbd.c`, `rc.c`) | a tree of keys per context, the keys typed so far, options by section | `dokey`, `kadd`, `kdel`, `procrc`, `setopt` | commands; the options of each buffer | `Startup` |
| Search and replace (`usearch.c`, `uisrch.c`, `regex.c`) | the search record, the history of the incremental search | `pfnext`, `dopfrepl`, `uisrch`, `pmatch` | prompts, undo (one unit per replacement) | `Regex`, `Search` |
| Blocks (`ublock.c`) | the marks | `ublkcpy`, `ublkmove`, `ublkdel`, `urindent`, `ufilt` | buffer, shell | `Blocks`, `Editing` |
| Editing commands (`uedit.c`, `uformat.c`) | little of their own | some hundred commands | buffer | `Text`, `Format`, `Editing` |
| Compiler messages (`uerror.c`) | a list of error positions | `parserr`, `unxterr`, `inserr`, `delerr` | kept up to date by the buffer | `Messages` |
| Prompts, menus, completion (`pw.c`, `menu.c`, `tab.c`) | a window with a continuation, histories of answers | `wmkpw`, `rtnpw`, `cmplt`, `mkmenu`, `umrtn` | files; `notify` of the nested command loop | `Prompts` |
| Screen and highlighting (`scrn.c`, `bw.c`, `syntax.c`) | the image of the screen, what has to be drawn and scrolled, a highlighter state per row; where the cursor is | `nscrlup`, `nscrldn`, `nscroll`, `bwins`, `bwdel`, `bwgen`; `cpos`, `cposs`, `setregn` | told by the buffer of every change | `Screen`, `Cursor` |
| Tags, calculator, character sets, portability | tables | conversions, parsers | - | none |

Everything happens in one thread except at three places: the packets of the
multiplexer, whose senders run beside the editor, signals, and the files, which
other programs may write. What makes the rest hard is not concurrency but *long
sequences of legal calls*: each command leaves the undo list, the pointers, the
marks and the modified flag in a state that the next command takes for granted,
commands nest (a macro runs commands, a prompt runs the loop inside a command),
and limits (50 units of undo, 20 positions, 8 programs, a bounded cache of pages,
the height of the screen) are reached only after long use. What makes each
component correct:

- *undo*: the list is made of whole units; undo and redo move along what has been;
  what is killed in a row comes back as one piece.
- *multiplexer*: no packet, acknowledgement or key is lost, none is given to the
  wrong program; the editor never waits for what does not come.
- *buffer*: all pointers stay where they were in the text, in whatever segment.
- *virtual memory*: what is read is what was written last, whatever was evicted.
- *windows*: the ring, the heights and the buffers' counts agree; a question gives
  the screen back; no text is dropped unasked; places remembered exist.
- *saving*: whatever call fails and whenever a signal comes, a text that has not
  reached its file is still known to be unsaved, and a file of somebody else is
  not overwritten unasked.
- *searching*: the nearest match, exactly the replacements asked for, and going
  back takes back exactly the last answer.
- *editing*: no word is lost by formatting or by moving a block.
- *start-up file, macros*: what is done is what was written or typed.
- *screen*: the terminal shows the text that the windows are on; output goes where
  it is meant to go, whatever the terminal can do.
- *messages*: a message stays with its line.
- *prompts*: completion loses no name that fits; leaving a menu gives the line
  back; answers are remembered.

## 2. Plan: what is done and what is left

Done, in this order, the components whose faults lose text or hang the editor
first:

1. `Undo`, refining `UndoHistory`; `UndoProofs`, `SavedProofs`, `HistoryProofs`.
2. `Mpx`, refining `ShellWindow`; `MpxProofs`.
3. `GapBuffer` (`b.c`), refining `Marks`, a text with marks in it; `Points`, its
   movements and searches.
4. `Text`, `Blocks`, `Format`, `Editing`: the commands over the flat text that
   `Marks` promises.
5. `Windows`: windows, buffers shown and orphaned, positions remembered.
6. `Files`: loading and saving as single system calls; `FilesProofs`.
7. `Regex`, `Search`: patterns against a reference definition; find, replace,
   incremental search.
8. `VFile` with `VFileProofs`; `Yank` with `YankProofs`; `Messages` with
   `MessagesProofs`; `Startup`, `Macros`, `Screen`, `Cursor`, `Prompts`; checked
   together in `MCParts`.

Left:

- UTF-8: decoding as an algorithm, and movements over more than one byte;
- proofs: lock balance and coherence of the pointers in `GapBuffer`, the cursor of
  `Cursor`, `UndoHistory` with redo.

Each component module is parameterised by CONSTANTS with named assumptions and has
one action per operation. The modules proved about have no RECURSIVE operator.
`Points`, `Regex` and the algorithms of `Text`, `Format` and `Windows` have loops,
some of which are RECURSIVE operators or recursive functions; those modules are
only model-checked.

## 3. Undo

### What the code does

All changes of a buffer go through `binsm`/`binsb`/`bdel`, which call `undoins`
or `undodel`. These append a record, or merge the change into the newest record
if the command loop has not closed it (`min`). `exmacro` is the frame of every
command: `umclear` closes the newest record unless the command is a minor one
(typing, backspace), the steps run, `undomark` makes the records of the command
a *unit* by letting its first and last record point at each other, counts it,
and at `UNDOKEEP` units has `undogc` free the oldest.

`uundo` walks from `ptr` backwards through one unit and reverts each record. It
does so through the buffer again, so the inverses are appended to the same list
as one more unit. `uredo` plays the newest records back, without recording, frees
them, and moves `ptr` forward by as many. That the newest unit is the inverse of
the unit at `ptr` is nowhere stored.

### The model

`Undo.tla` has the list as a sequence; a link is a position, `Null`, `Anchor`
(the list head) or `Freed` (a record on the free list: the pointer is stale).
`Begin`, `Insert`, `Delete`, `Undo`, `Redo`, `Save`, `unotmod`, `End` are the
frame of a command and its steps; `UndoRec` and `RedoRec` are one iteration of
the loops of `uundo` and `uredo`, so that it can be seen where they go. Following
a link to a record that is not there sets `pc = "wild"`. Kinds of command
(`Kinds`, `Limit`) choose which steps a command may consist of: "minor" and
"edit" (a command that changes text up to `Limit` times), "undo", "redo",
"macro" (any of them), "save", "notmod".

Abstracted: bytes are members of `Chunk`; the split of a deletion into small
(kept in memory) and big records (kept as a buffer) is left to the bytes. A
position is clipped to the text as `pgoto` and `pfwrd` do.

`UndoHistory.tla` is what the user is promised: a past, a present and a future;
undo and redo move along it; going on to edit after undoing keeps all of it as
past. Where the oldest texts may be forgotten (`Forgets`), a command forgets one at
most, but two when the user edits after undo has come to its end: then the text
edited may have been forgotten already (`undogc` has freed the unit at `ptr`), and
the new unit has the next one freed. `MCUndo.tla` maps the list to it by replaying the records (`PastOf`,
`FutureOf`), and adds auxiliary variables for the properties that speak about
earlier texts.

### Properties and runs

`MCUndo_core` (commands of up to two changes, undo, redo and saves to the own file
and to others, no limit): the list is made of whole units (`UnitsWellFormed`),
everything implements `UndoHistory` (`ImplementsHistory`), redo gives back what was
undone (`RedoRestores`), commands end (`CommandsEnd`), and as long as no save has
met two records made on an unmodified buffer, an unmodified buffer has the text of
its file (`UniqueMeansSaved`). `MCUndo_gc`: eviction at four units, without redo:
`ptr` stays at a unit, no loop leaves the list (`PtrInside`), and only the oldest
texts are forgotten (`ImplementsHistory` again, where it allows forgetting).

Bounds: a text of two bytes and four or five records; with two changes per
command this has units of one and of two records, merging at both ends,
deletions that span insertions, undoing to the very first record and editing
there. `UNDOKEEP` is 50 in the code and 4 here where eviction is wanted, so that
an odd number of units is kept as in the code: after that many, undone one by one,
the unit at `ptr` is the oldest when it is freed, and two texts are forgotten at the
next edit. Three
changes in one command are left out of the runs with redo, for inverses can merge
then: `RedoRestores` and, with redo, `UniqueMeansSaved` do not hold beyond that
(section 11). `MaxUnits`
cuts the counter `nrecs`, which the code lets grow with each redone unit.

Deadlock is checked where a run has steps at its bounds; `CHECK_DEADLOCK FALSE`
is set where the bounds `MaxRecs` and `MaxUnits` stop the editing of a model
whose next step would be one more edit.

Fairness: `CommandsEnd` needs that a command that has begun is carried through
(`WF(Internal)`): the loops run inside one call of `exmacro`, nothing else runs
meanwhile.

## 4. The input multiplexer

### What the code does

While no program runs, `ttgetc` reads the terminal. With the first program
`mpxmk` creates a pipe, a *keyboard task* that reads the terminal instead, and
for each program a *copier*; all of them send packets into that pipe. Each sends
one packet and waits for a byte that acknowledges it. The editor has one packet
(`pack`), and a variable `tty_accept` that says whether it is still to be
acknowledged: `ttflsh` does so the next time the output is flushed, and then
reads ahead the next packet if there is one (`have`). When a program ends, its
copier sends a last packet and exits; `mpxdied` counts it, ends the multiplexer
when it was the last, waits for *any* child and frees the slot.

### The model

`Mpx.tla`: the user (`Type`), the keyboard task (`KbdRead`, `KbdWrite`,
`KbdAck`), programs (`ProgWrite`, `ProgExit`), copiers (`CopierRead`,
`CopierAck`, `CopierEof`, `CopierExit`) and the editor, a single thread with a
program counter `at`: `Ack` and `Poll` are the two halves of `ttflsh`, which is
entered from `then`; `GetKey` and `GetPacket` are `ttgetc`; `Data` is `cdata`,
which may flush in the middle; `Died` and `Reap` are `mpxdied` before and after
its `wait`; `Run`, `Fork`, `Suspend` and `CmdEnd` are the commands that concern
the multiplexer. A key is its number, an item of output is its buffer and
number. A command has up to `MaxSteps` such steps: one when it is typed, more in
a macro.

Folded: the flushes of `edupd` and of the loop of `ttgetc` that follow each other
without an input between them are one flush; clock ticks and window changes only
add flushes. The read and the write of a copier are one step, nothing can be
observed between them. A bell counts as shown when it is rung; the carriage
returns and backspaces that `cdata` interprets are not told apart from text.
`mpxsusp` kills the keyboard task and waits for a child: since it is the number
of children that `wait` uses up and not their names, the task is gone in the same
step. Left out: failing `pipe` and `fork` (the code says it "will explode if
pipe, fork, etc. fail"), the end of the terminal, ptys that are not given back
when no slot is free.

`ShellWindow.tla` is what a window that runs a program promises: output appears
in order and in full, and the program is taken for ended only when all of it is
there (`Safe`), and all of it does appear in the end (`Fairness`). `Mpx` has the
refinement: sent is what was written, shown is the buffer, open is `b->pid # 0`.

### Properties and runs

`MCMpx_core`: `CopierCredit` says that of the packet or acknowledgement that a
copier waits for there is exactly one, wherever it is: in the pipe, prefetched,
with the editor, or in the acknowledgement pipe. `MpxSafety` is the rest of the
inductive invariant: the same for the keyboard task (`KbdCredit`); packets in the
pipe are for the program that has the slot now (`PacketsOwned`); `ackkbd`, the
keyboard task, `nmpx` and the slots fit together (`ModeConsistent`); there is a
child to wait for (`WaitReturns`); the keys under way are those typed and not yet
used, in order (`KeyOrder`); a packet smaller than the output buffer cannot fill it
with bells, so `cdata` unpacks it undisturbed (`Unflushed`); and for each window
what is shown, what is being unpacked, what is in the pipe or prefetched and what
the copier has not read yet make up what the program has written (`Delivery`). `KeysInOrder`: keys are executed in order, each at most
once. `ShowsOutput`: `Mpx` implements `ShellWindow!Safe`. `EverythingEnds`: the
editor always comes back to the user, all output is shown (the fairness that
`ShellWindow` promises), and when a program has ended its buffer and its slot are
freed.

Bounds: two buffers and two slots (a slot can be reused by the other buffer while
a third party has packets under way), packets of up to two items and two items
per buffer (output in one or two packets, the last one together with the end of
the program), two keys (one executed or prefetched, one in the pipe or
terminal). Keys and output are bounded by `MaxKeys` and `MaxOut`.
`CHECK_DEADLOCK FALSE`, because the system stops when the user types no more.

Fairness: `WF` of the editor, of the keyboard task and of each copier: each is a
process of its own and the operating system runs it when it can run. Nothing is
assumed of the user or of the programs.

## 5. The buffer

### What the code does

A buffer is a chain of headers, each with a segment (a page of virtual memory)
around a gap. Everything else refers to places in it by pointers (`P`), which
hang in a ring: a pointer has its segment and offset, and caches of the byte
offset, the line and the column, the last with a flag that says whether it is
valid. An edit changes segments, chain and all pointers: `binsm` inserts into a
gap, into the gap of the previous segment, or splits the segment (`bsplit`) and
puts a chain in between (`inschn`), then `fixupins` goes through the ring; `bcut`
takes the end of one segment, those after it and the start of another out of the
chain, fixes the ring, and makes a buffer of what it took for undo; `pcoalesce`
joins neighbours that got small. A pointer that is *online* holds its page
locked; marks are kept offline.

Movements run along the segments and step over whole ones by their counts of
bytes and newlines. The search is Boyer-Moore with a table of positions.

### The model

`GapBuffer.tla` has one variable, the buffer: chain, segments (the bytes left and
right of the gap and the count of newlines), pointers with all their caches, and
the number of locks on each page. The functions of `b.c` are operators from
buffer to buffer under their own names, in the order of the statements; the
actions are operations of the buffer as commands use them: `Insert` (`binsc`,
`binsm`), `DeleteForward`, `DeleteBack`, `DeleteBlock` (`bdel` from the cursor
forwards, backwards, between two pointers that stay), `Paste` (`bcpy` and
`binsb`), `SetMark` and `GotoMark`. A second buffer (what is cut or copied) lives
in the same headers and locks and is gone at the end of the operation.

`Marks.tla` is what the rest of the editor takes for granted: a text and marks; an
insertion shifts the marks behind it, a deletion collapses those inside.
`MCGapBuffer.tla` maps the bytes of the chain and the byte offsets of the
pointers to it.

`Points.tla` adds the movements, one operator per function (`pgetb`, `pgetc`,
`pfwrd`, `pgoto`, `pnextl`, `pprevl`, `p_goto_bol`, `p_goto_eol`, `pline`, `pcol`,
`pcoli`, `pfcol`, `pfind`, `prfind` and what they call), loops as recursion, and
the cursor commands made of them, which end with `piscol` as the command loop
does it.

Abstracted: bytes are model values, of which newline, return and tab matter.
Headers are interchangeable, so after a command they are numbered along the chain
(`Renumber`). A column that is not valid is kept as 0. `vlock`/`vunlock` around one
step leave nothing behind and are left out, as are the screen and the list of
error positions. The charmap is a byte charmap, without picture mode;
searches do not wrap. With `-crlf` an operand is never between a return and
its newline (`Whole`): commands take the two for one character.

### Properties and runs

`MCGapBuffer_core`: `SegmentsSound` (newline counts, sizes, no empty segment in the
middle; every cache of every pointer is that of its byte, and no pointer rests at
the end of a segment that another follows; a page has as many locks as there are
online pointers into it, nothing is unlocked twice, no header is lost),
`TextHandedOver` (what `bcut` and `bcpy` make is the text between the pointers),
and `ImplementsMarks`, the refinement. Segments have two bytes and the text up to four: with two segments'
worth of text in up to four segments there are edits inside a segment, at its
ends, across two and across more, at the beginning and at the end of the file,
and coalescing on either side. Two pointers: the one that edits, and one that has
to be carried along, online or not. `MaxHdr` is more than any operation needs.

`MCPoints_move`: `PlacesReached` compares, from each place in each layout, the
movements by bytes, characters, lines and columns and both searches with plain
definitions over the text (`BolOf`, `ColOf`, `IsAt`, ...); the pointer reached must
be right in all its fields. With and without `-crlf`, tabs of three columns, a
pattern of two bytes and one of three that repeats a byte; segments of two bytes and a text of up
to four, so that whole segments are skipped. Movements start from pointers
whose column is right (see section 11 for where it is not).

`CHECK_DEADLOCK FALSE`, since with the text at its bound a state may have no step
but those that change nothing.

## 6. Editing commands

### What the code does

The commands of `uedit.c`, `ublock.c` and `uformat.c` move the cursor of a window
and change its text through the buffer. `execmd` (`cmd.c`) frames each of them by
the flags of its table entry: it may be refused in a read-only buffer, puts the
marks in order, pads the line in picture mode, and afterwards fixes `xcol`, the
column that vertical movements aim for.

### The model

`Text.tla` is the flat text that section 5 shows the buffer to be, with pointers
as offsets: an insertion and a deletion move them as `Marks` says. `Blocks.tla`
has `ublock.c` and the rectangles (`pextrect`, `pdelrect`, `pclrrect`,
`pinsrect`), `Format.tla` has `uformat.c` (paragraphs, `wrapword`, `uformat`,
`ufmtblk`, centring). Both are operators from edited text to edited text, one per
function. `Editing.tla` adds `uedit.c` and the state: the edited text, whether a
command hangs, the last command; each action is one command run the way `execmd`
runs it (`Run`, `Fixed`).

Abstracted: segments, undo, what a filter program or a file contains (`Outputs`);
one window, a byte or a UTF-8 charmap only where the code treats a column
differently; no hexadecimal mode; typing by code and the prompts of commands are
their answers.

### Properties and run

`MCEditing_core`. `MatchReturns`: `tomatch` goes to a delimiter from which it
comes back, so the two scans of the code, which count depth differently, agree.
`FormatSound`: formatting and wrapping keep the words and what is behind the
cursor, and a line made by `uformat` goes beyond the margin only where it has no
blank to break it at, beyond the indentation of the paragraph's second line and the
left margin (so an indented first line in front of a deeper second one may be too
long: the instances have one). `BlocksKept`: a moved block arrives whole with its
marks around it; deleting, filtering and changing case leave what is outside alone;
unindenting undoes indenting but for the kind of the blanks, since `urindent` writes
the indentation anew with `indentc` and the spaces and tabs from before are not kept
(for `indentc` a blank; every line begins in its old column again and has its old
text); and a rectangle, in a text without tabs, arrives row by row. `XcolKnown`: the flags of the
command table fix `xcol` wherever the command does not, so that only a vertical
movement leaves it different from the cursor's column.

Bounds: eleven instances, texts of up to eleven characters made for what they show
(indented lines with brackets, prose, quoted lines, nested delimiters, lines of
different length for rectangles, tabs, indentation of both kinds of blanks) each with the options that matter to it;
the cursor everywhere and both marks everywhere or not set, one command; and a
short text with sequences of three commands. A second command on the long texts
would only begin at another text of the same kind. `CHECK_DEADLOCK FALSE`: the
number of commands is bounded.

## 7. Windows and places

### What the code does

Windows form a ring. A text window and the prompts and menus opened from it are a
family. From `topwin` on, families are laid out until the screen is full (`wfit`);
the others are off the screen. `wcreate` makes room for a prompt by taking lines
from a window of the family, and `wabort` gives them back; heights survive a
change of the screen's size as parts of 1000. A buffer counts the windows that
show it; with `-orphan` a buffer left by its last window stays as an orphan. The
position history remembers the places where the cursor was left.

### The model

`Windows.tla` has the screen as a record (ring, current window, sizes of each
window, buffers with count and orphan flag, the positions), the functions of `w.c`
and `tw.c` as operators under their own names, and one action per command: split,
duplicate, grow, shrink, next, previous, explode, edit, switch and lose buffers,
close, close all others, abort, a question of one key, a prompt, a menu, a new
size of the terminal, the help screen, moving, typing, and going through the
positions. `wfit` is a recursion over the families.

Abstracted: the text is a set of places (`Lines`); scrolling and messages are left
out; a buffer with changes asks, and the user says yes.

### Properties and run

`MCWindows_core`. `WindowsSound`: links between windows lead to windows that exist
and families stay together; what is on the screen fills it exactly, nothing
overlaps, the current window is on it; each buffer's count is that of its windows
and its orphan flag; positions remembered are of windows and texts that exist, and
`prevpos` is undone by `nextpos`. `QuestionRestores`: in every state, opening a
question or a menu and answering it gives every window its place back. `TextKept`:
no command drops a text but those that ask.

Bounds: up to three windows on a terminal of 12 or 16 rows (so that families of
the least height, 4, fit three or four times and must be squeezed), menus of three
lines, three buffers, three remembered positions. Eight scenarios, each a set of
commands that act on the same part of the state (`Shares`, `Dups`, `Sizes`,
`Helps`, `Files`, `OrphanFiles`, `Places`, `Asked`); within each, commands come in
any order and number. `CHECK_DEADLOCK FALSE` because the editor may be left.

## 8. Loading and saving

### What the code does

`genexmd` and its continuations ask what to do when the file has changed on disk,
is somebody else's, or the name is new; then `saver` makes a backup (`cp`),
`bsave` opens, writes and closes the file, and `changed`, `backup`, the name and
`mod_time` of the buffer are updated. On a signal `ttsig` appends the changed
buffers to `DEADJOE`. `uquerysave` goes through all changed buffers.

### The model

`Files.tla`: a text is a number, so two texts are the same only if one is a copy
of the other. The disk has a text and a time for each name, and for its backup. A
command that saves is a *job* whose record says which system call comes next
(`ed.job.pc`: the backup's steps, open, write, close, stat); each `Call` may fail,
`Signal` may come between any two, `Others` are other programs, which write or
remove files while the editor waits for an answer. Questions are `ed.ask`,
answered by `Answer`. Files outside the run are not touched by anyone.

Assumed: each write has a second of its own (`st_mtime` has that granularity);
other programs write only while no save is under way; a text that was torn by a
failed write is not a text of any buffer.

### Properties and runs

`MCFiles_core`. `SignalKeeps`: when the editor dies of a signal, every buffer's
text is in its file or in `DEADJOE`, unless somebody else has written the file
since, or a write of it failed and the user was told (`cut`, which only the failing
call sets). One case is excepted because it is a loss (`Gap`, section 11): a buffer
that is not modified is being saved to its own file, and the signal comes between
the `fopen` and the write. `NothingOverwritten`: when a
save opens a file for writing, what it destroys is a text the buffer has saved
there before, is backed up, or was given up: by an answer, by `-nobackups`, or
after a message that the file could not be read. `ClosedSaved`: a text that goes
with its buffer is stored, or the user was asked. `MCFiles_query` shows the
finding about `querysave` (section 11).

Bounds: two names and up to three buffers; the five instances are one file with
failures and other writers, a nameless buffer, two files in two windows, one file
loaded twice, and buffers reached around the list. At most five seconds (writes)
and two failures: a save has at most two writes, so that two saves and an outside
write in every order fit. Failures are met with one buffer for each file;
`NothingOverwritten` does not hold for a file in two buffers when two calls fail
(section 11). `CHECK_DEADLOCK FALSE` because the editor ends.

## 9. Searching

### What the code does

`pmatch` matches a pattern at a place, with `\*` and `\+` taking the longest that
lets the rest match, `\c` a balanced text. `pfnext` finds the next match from the
cursor, with the options for direction, block, case and wrapping; with replacement
it asks at each match (`dopfrepl`) for yes, no, rest, back, last or stop. The
incremental search keeps a record for each key, so that backspace goes back.

### The model

`Regex.tla` has `pmatch` with its tokens, and beside it the reference: the set of
all ways a pattern can be laid along the text (`Matches`), and which of them is
meant (`Best`). `Search.tla` has the buffer with its pointers, the search record
and the prompt it waits in (`mode`); an answer and a key of the incremental search
are actions. Every replacement moves all pointers of the search and of the block
as the buffer does.

### Properties and runs

`MCSearch_core`. `MatchesExact`: at every place of every text, the matcher
succeeds exactly when the reference does, ends where it does, and the pieces are
right but for those behind a `\+`, which are the finding `MCSearch_pieces`.
`FindsNearest`: find and find next go to the match that a plain definition over
the text gives (`Near`, `Occurrences`), with a count, a block, backwards and
wrapping, or say that there is none. `ReplacesExact`: replacing without questions,
or the rest after some answers, gives the text with exactly those matches
replaced. `StepsBack`: going back with B after any mixture of answers asks the
question before again, in the same text with the same block and wrap flag.
`IncrementalDirect`: wherever an incremental search stands is where a direct
search for what is typed would have come.

Bounds: patterns of up to three tokens of every kind on all texts of up to three
characters (balanced ones up to four), and texts of up to seven characters with
every start, block and option for the commands.

## 10. Eight parts in one run

`VFile`, `Startup`, `Macros`, `Screen`, `Cursor`, `Messages`, `Prompts` and `Yank`
share no state with each other. `MCParts` chooses one of them in the initial state
and runs only that, so that one run checks all eight, each with its own property.

**`VFile`** (`vfile.c`). Pages in frames with lock counts and dirty bits, the file
on disk up to `size`; `LockThere`, `LockFree`, `LockClean` and `LockFlush` are the
four ways through `vlock` (in memory, a free frame, a clean frame, after `vflsh`).
`vflsh` sees when `open` or `lseek` fails and stops there, with the rest still
dirty (`stop`); it does not look at what `joe_write` returns, and neither does
`vlock` with `joe_read`, so that a page can be torn in the file and taken for
clean, and what is read can be anything. `Dies` is the exit when no frame can be
had. `memory` is what the callers have written. `PlainMemory`: a locked page is in
memory, and each page reads as what was written last, unless it was itself evicted
after a write that failed, or reading it failed (`Lost`): a failure that nobody
sees costs that page and no other. Three pages in two frames, two locks, one page
lost (`MaxLost`): evictions of clean, dirty, torn and never stored pages, and no
frame at all. Callers keep the rules of `b.c`: a page is written only while locked,
and `vchanged` follows.

**`Startup`** (`rc.c`, `kbd.c`). A start-up file is a sequence of lines of every
kind that `procrc` tells apart; each extends contexts, key maps (trees whose
branches are ranges of keys) or options. Afterwards keys are typed (`dokey`).
`FileRight`: each line changes exactly the bindings it names, in its own context,
a sequence that clashes with a prefix excepted in the way the code says; and a
file gets the options of the last section that fits it. Four lines: contexts, an
inheritance and two bindings that clash.

**`Macros`** (`macro.c`). Each key is recorded before it runs, and prompts
(record, play, arg, uarg) take the keys that follow. `MacrosRight`: playing the
macro recorded last does what the keys did when they were typed, as many times as
asked; its text form, parsed again, is the same macro. Seven keys, counts up to
two.

**`Screen`** (`scrn.c`, `bw.c`, `syntax.c`). Rows hold a line's identity and its
highlighter state, for the screen image and for the terminal; `nscrlup`, `nscrldn`
and `nscroll` note scrolls and do them later in two passes; an update may be
interrupted at any row. `ScreenRight`: the image is always what the terminal
shows, after an update the terminal shows the text that windows are on, after two
its colours. Five setups (scrolling region, line insertion, comments, two windows,
memory below the screen), one edit and three steps between updates.

**`Cursor`** (`scrn.c`). The editor never asks the terminal where the cursor is; it
keeps its own account (`x`, `y`, -1 when unknown), works out what each of fourteen
ways to a place would cost with the capabilities of the terminal (`relcost`,
`Best`), and sends the cheapest (`cposs`: an absolute movement, rows, tabs under or
over, columns). Costs and movements are separate code for the same choice. The
model has beside the account the place where the cursor is (`at`). `CursorRight`:
a place the editor knows is the real one, all output goes where it is meant to go,
and no way there scrolls the text. Twelve columns by three rows, tab stops of four,
so that going under and over a stop both win somewhere; four terminals: addressing
with scrolling regions that home the cursor, only home and last line, column and
row addressing apart, and back tabs. All have `nd` and `bs`.

**`Messages`** (`uerror.c`, extended by `MCParts` like `VFile`). The lines of a
buffer have names; messages name a line. Edits, undo, redo, saving under the name
of the file or another, closing without saving, loading again, and reading new
messages whenever the buffer is unmodified. Undo appends its own record behind the
others and redo takes it away, as in `undo.c`, with one record for each edit, and
`saver` marks the newest record made on an unmodified buffer, that one alone.
`MessagesRight`: after each step every message that still has a line has its
number, and going to a message goes there; until a save under the file's own name
meets two such records (`unique`), after which nothing is claimed (section 11) and
`MCParts` goes no further. Two lines growing to three, two edits
of one or two lines, two messages in any order: enough for an edit before, at and
behind each of them and for one of them to lose its line. `MessagesStay` proves it
for any number of each.

**`Prompts`** (`pw.c`, `tab.c`, `menu.c`, `path.c`). Prompts with a history, one
or two at a time, of answers, of file names with completion and a menu that may go
from directory to directory, and of command names. `PromptsRight`: completing
extends the line to what all names that fit have in common and loses none
(`Completes`); the chosen entry of a menu is on the screen (`ChoiceShown`); Return
takes the name it is on (`Chooses`); leaving the menu gives the line back
(`Restores`); no answer is forgotten and the newest is the last (`AnswersKept`).
Six keys, two directories with names that are prefixes of each other, menus of one
and more columns.

**`Yank`** (`undo.c`, extended by `MCParts` like `VFile`). A ring of killed texts;
a kill next to the one before it joins it (`Joined`), `yank` inserts the newest,
`yankpop` replaces it by the one before and turns the ring. `YankRight`: kills in a
row are one record which, put back where it is from, gives the text from before the
first of them, whichever way they went (`RowWhole`); a `yankpop` behind a `yank` or
`yankpop` leaves the text as if the record before had been yanked instead
(`PopReplaces`). A text of three, a ring limited to 3 (so that it holds two and the
limit is met), four commands with any movements between them; undoing a yank and
typing are among the commands.

The guards that leave out what does not hold are named in the modules (`HidesNone`
and `Clash` in `Startup`, `Playable` in `Macros`, `JustAbove` and, with
highlighting only, `Waits`, `InView` and `Uncommented` in `Screen`, `Reached` in
`Cursor`, `InStep` in `Prompts`, an unmodified buffer in `parserr` and `unique` in
`Messages`) and described in section 11. `Waits` has an update after each step, so
that with highlighting no two edits or scrolls come before one update; without
highlighting they do, and updates are cut short in both cases.
`CHECK_DEADLOCK FALSE` because keys, lines and steps are bounded.

## 11. What the checks show, and where code and documents differ

All properties of the passing runs hold in the instances described. Each has a
faulty variant of the code (a dropped guard, a wrong order; in the modules, marked
"Faulty variant") under which TLC finds it violated.

Two runs end in a violation of what the program says of itself:

- `MCFiles_query`: `querysave` goes through the global list of buffers and stops
  at the buffer it began with, but where the list stands depends on what was done
  before: it can stop short of modified buffers and then says that all have been
  saved, or that none was modified.
- `MCSearch_pieces`: the piece behind a `\+` is what the last, failed attempt
  stored, not what matched; text `abc`, pattern `\+a\?b`, replacement `[\0][\1]`
  gives `[][b]c`.

The following disagreements were met while modelling. They have no run; where one
would break a property, a guard of the model leaves the case out, as said. Those
marked (*) were also seen in the running program.

*Undo.* `saver` marks only the newest record made on an unmodified buffer, and its
comment says there is no other; edit, undo, edit makes a second one
(`UniqueMeansSaved` speaks of the other histories). Two undos in one command (a
repeat count) leave one unit of inverses for two undone units, so redo goes wrong.
Undoing inside a macro what the same macro has changed leaves `ptr` in a unit that
is closed later; the next undo walks out of the list. The unit at `ptr` can be
evicted (`undo.c:188`); redo fails then.

Inverses of several deletions can merge into one record (`undo.c:225`): a command
that deletes the first byte of `abc`, the last and then the middle one leaves two
records, and undoing it only one. `uredo` moves `ptr` by one record for it, so that
`ptr` is a record behind the text from then on. With that command done to a saved
text, one more edit behind it, undo, undo, redo, redo and undo, the third undo
takes back the deletions from a text in which the last edit is still there, and
with them restores the mark: the buffer counts as unmodified and does not have
the text of its file. TLC finds this with three changes per command; it is why
the proof of `UniqueMeansSaved` has no redo.

A typing command that makes two changes breaks its unit in two: its first change
grows the newest record, which is of an earlier command, the second is appended as
a unit of its own, and one undo takes back only that. Word wrap does so
(`uedit.c:1115-1116`: the character, then the new line), and so does a character
behind a tab in overtype mode (`uedit.c:1111-1112`): the undo leaves a text that no
command had left. `Limit` has minor commands make one change; it is why the proof
of `ImplementsHistory` has the hypothesis `OneStep`.

*Killed text.* `yankdel` merges by position without comparing buffers. A kill that
finds nothing to delete still counts as one of a row, so that the next kill joins
an older record at the same offset (*). `copy` after a kill joins the copied block
to the killed text when it begins or ends there (*). `uyankpop` recognises the
place of the last yank by the byte offset alone: after an edit that leaves the
cursor at that offset it deletes other text than was yanked (*). Undoing a yank
puts the yanked text on the ring again. At its limit, a turned ring drops the
record that was popped last.

*Multiplexer.* A macro that starts a program and suspends the editor drops a
prefetched packet (excluded by `MaxSteps = 1`). A bell that fills the output
buffer lets the flush read the next packet over the one `cdata` is reading
(`ushell.c:92`; excluded by `obufsiz`). A key typed ahead of the command that
starts the first program is dropped (`tty.c:759`), one that the keyboard task has
read when the last program ends is lost with the pipe (`tty.c:854`).

*Virtual memory.* On a full disk, or when a read fails, `vflsh` and `vlock` go on
as if nothing were wrong (`vfile.c:79, 82, 249, 252`): a page that was not written
is marked clean and may be evicted, and the text of that page is lost without a
message (`Lost`).

*Buffer.* A deletion that joins two lines leaves pointers behind it with old
columns marked valid (`b.c:1623`). The entries of the search table are bytes and
255 means "none": a pattern of more than 256 bytes may be jumped over. `pisbol`
moves the pointer it asks about (`b.c:1612`).

*Editing.* `nedge` does not return on the last right edge (`uedit.c:311`).
Formatting on the empty last line formats the paragraph above. `pisnpara`'s test
for "." is never true. `prefix` returns a stale column with a byte charmap.
`pdelrect` and `pclrrect` process the last line repeatedly when the rectangle ends
behind it. Swapping marks, ending a marking backwards and `upop` leave `xcol` of a
mark uninitialised (`opt.junk` in the model). Inserting a rectangle leaves `xcol`
stale.

*Windows.* `wfit` closes a main window when heights get below two lines, against
`joe.1.in:820-824`; the scenarios stay above. `prevpos` and `nextpos` move the
cursor of a window that meanwhile shows another buffer. With one family,
`findtopw` may return its prompt. With `-orphan`, `doedit1` (`ufile.c:529`) makes
an orphan of a text that is one already, and a changed text is lost unasked (*),
against `joe.1.in:812`.

*Files.* `backup` deletes the old backup before it copies (`ufile.c:260`), and
whether there is one is a note of each buffer for itself. With one file in two
buffers: the first makes the backup but cannot open the file; the second deletes
that backup, its copy fails, and the user says no to saving without one; the
first, saved again, counts as backed up and overwrites the original, of which no
copy is left, against `joe.1.in:436-438`. `NothingOverwritten` is violated so when
a file loaded twice meets two failing calls (`Twice` in `MCFiles` has none). A
read error leaves a partial text whose later save needs no backup. Saving a buffer
that is not modified to its own file is not safe from a signal: from the `fopen`,
which empties the file (`b.c:2373`), to the end of the write the text is in no
file, and `DEADJOE` gets only modified buffers (`b.c:2558`); nothing is said of
that case (`Gap`). A write error on an
unmodified buffer leaves it unmodified over a torn file (`cut`). `bsavefd` sets
error 5 where -5 is meant (`b.c:2344`). `ublksave` overwrites without asking
(`ublock.c:586`). Renaming at exit does not refresh `mod_time`.

*Search.* Replacing an empty match with Rest does not end; nor does replacing
backwards with Rest when the replacement contains the pattern. With wrapping, a
second find-next says "Not found" beyond the first start, and an incremental
search fails on the character after a wrap. An incremental search drops the marked
block. After Last, a find-next and then B undo an unrelated change. Restricted to
a block, "Not found" leaves the cursor outside it.

*Start-up files.* A bad key name behind the first key of a sequence leaves a
prefix key with no map: pressing it ends the program (*). An empty map left by
`:delete` hides bindings from a context that inherits it (`HidesNone`). A contents
line with no section goes to the defaults of all files.

*Macros.* A macro recorded while another is recorded makes the outer one abort
when played (*), against `joe.1.in:864`; so does `uarg` in a recorded macro (*).
In the text form, the number of a `\x` or octal escape is lost and the character
behind it typed instead (*); a repeated block repeats only its first command.

*Screen.* Enter inside the line just above another window's first scrolls that
window's rows although its text stays (*); undoing an insertion of several lines
there likewise (*); with `-nosta` at row 0 it writes before the table of scrolls.
With `-linums` and typeahead, rows are begun before pending scrolls are done (*).
Colours go stale when an edit above a window opens or closes a comment (`InView`);
when a deletion takes whole lines of which one begins or ends a comment, inside the
window too, since `bwdel` forgets the state of one row only (`Uncommented`); and
when a line that opens or closes a comment is changed and scrolled out of the
window before it has been drawn (`Waits`): rows below are then not derived anew. With
back tabs (`-usetabs`, `bt`), going left to a column at a tab stop ends one stop
too far left or believes in a wrong column (`scrn.c:1011-1014`), against the
comment at 742-745 (*). Without `nd`, moving right by more than the three columns
of `cpos` sends nothing, where the comment on `relcost` says that characters are
written again (`scrn.c:606`) (*).

*Messages.* Messages of lines that were deleted and brought back by undo keep a
wrong number. Messages parsed while the buffer is modified are off when it is
closed. Edit, undo, edit leaves two records that were made on an unmodified buffer,
of which a save marks one (*Undo*, above); with the undos after that the buffer can
count as unmodified with other lines than its file, closing it then leaves the
messages as they are in the buffer (`b.c:254`), and they are off (`unique` ends
where such a save comes). That edits may grow the newest record instead of making
one is left out of `Messages`: it is the subject of `Undo`.

*Prompts.* A menu entry exactly as wide as the window ends the program by a
division by zero (`menu.c:129-131`) (*). Two menu commands bound to one key move
the choice above the first entry (*). Going to the prompt while its menu is up, to
another answer, and back to the menu joins two names (*). The answer looked up is
found again by line number, so an answer given meanwhile in another window with
the same history, or an undo in the prompt, makes another one the newest (*).
After a change of width the chosen entry may be off the screen for one redraw (*).

## 12. Proofs

`UndoProofs.tla`

- `TypeCorrect`: `Spec => []TypeOK` for all constants. Not a formality here: the
  links are part of the type, so that it says no link ever leads to a record that
  is not in the list without the model knowing (`Freed`).
- `UndoSafe`: if no kind of command is a redo or a macro, `[](UnitsWellFormed /\
  PtrInside)` for every `UNDOKEEP >= 2` and every number of changes
  per command. The assumption is what separates the theorem from the repeat counts
  and macros of section 11. `UnitsWellFormed` alone is not inductive, since a
  command leaves its unit open: `UndoInv` says that the records before `first` are
  whole units, those from `first` on have no link, `ptr` is in a closed unit and,
  while `uundo` runs, lies between its start and its end. What needs work is that
  linking the open unit and dropping the oldest one keep the list a sequence of
  units (positions shift).

- `UnitsWhole`: with redo, and without macros, `[]UnitsWellFormed` for all
  constants. Nothing can be said of `ptr` here: inverses that merge
  (`undo.c:225`) make redo leave it inside a unit or on a freed record, and the
  next undo may run off the list (section 11). The theorem says that the list
  itself is sound all the same, as its invariant `ListInv` does not need `ptr`:
  undo only appends to an open unit, and redo removes records from the end until
  it has removed the whole of the last unit, before which the units are whole
  (`WithoutLast`).

`SavedProofs.tla`

- `UnmodifiedIsSaved`: `MCSpec => []UniqueMeansSaved` without redo and macros, and
  if the user never clears the mark by hand; for every text, `UNDOKEEP`, and number
  of changes per command. `SavedInv` says that there are texts that the
  records lead back through (`Chain`): taking a record back from the text behind it
  gives the text before it, and its place and length are inside that text (`Fits`);
  that while the user is undoing, the text is the one before the record at `ptr`;
  and that each record made on an unmodified buffer leads back to the text of the
  file (`Marks`). `ptr = 1` says nothing of the text, since `undogc` puts `ptr`
  there when the unit it was at is evicted. A record that grows must take back
  both changes at once: that is what `CutGrown`, `PutGrownAfter` and
  `PutGrownBefore` say of insertions at either end of an insertion and of deletions
  behind and before a deletion. The hypothesis about the mark is needed: `unotmod`
  lets the user declare a text unmodified that is in no file.

`HistoryProofs.tla`

- `HistoryKept`: `MCSpec => ImplementsHistory`, the refinement of `UndoHistory`,
  without redo and macros (`NoRedo`), if a typing command makes one change and an
  undo command undoes one unit (`OneStep`), and if texts may be forgotten
  (`Forgets`); for every text, `UNDOKEEP`, and number of changes per other command.
  The abstract steps happen when a command ends, so that the invariant `HistoryInv`
  has to remember where it began: it says that there are texts `T0` that the list
  led through then and texts `T` that it leads through now (`Chain`, from
  `SavedProofs`), and how the one came from the other: not at all (`Untouched`), by
  new records in an open unit (`Changed`), by a newest record that has grown
  (`Typed`), or by undoing, from `ptr` back to where the walk is (`Reverting`).
  Between commands `Sound` says what is stored nowhere: from `ptr` on, the texts at
  the starts of units read the same from both ends (`Palindrome`), so that the newer
  half of them is the future. They are as many on both sides (`Even`), or, once the
  unit at `ptr` has been freed, one is missing on the older side (`Odd`, and `ptr` is
  the first record). Where that leads when the user goes on to edit is the case that
  `Keeps` forgets two texts for: the attempt to prove this case with one text
  forgotten failed, and TLC then showed the step at `UNDOKEEP = 4`, which
  `UNDOKEEP = 3` does not have. `OneStep` is needed (section 11).

`MpxProofs.tla`

- `MpxSafe`: if a command takes at most one step that concerns the multiplexer
  (`MaxSteps <= 1`), then `[](TypeOK /\ CopierCredit /\ KbdCredit /\ PacketsOwned
  /\ ModeConsistent /\ WaitReturns)` for any number of buffers, slots, keys and
  items. The inductive invariant `MpxInv` adds where the editor is and what that
  implies for `have` and `tty_accept` (`Control`), that a copier runs only in a
  used slot (`SlotsInv`), that the last packet of a program is the only one of it
  (`LastPacket`), and that the children that can be waited for are as many as the
  slots in use whose copier has ended (`Children`), from which `WaitReturns`
  follows. `MCMpx_core` checks `MpxInv`. The lemma `ReadKeeps` carries the weight:
  a packet moves from the pipe to the editor and the credit of its sender with it.

- `KeysArriveInOrder`: `Spec => KeysInOrder`, likewise for `MaxSteps <= 1`, as are
  the next two. A key is in the terminal, with the
  keyboard task, in the pipe, prefetched, or used; `KeyOrder` says that these
  places hold, in this order, increasing keys behind the last one used. That at
  most one key is between the terminal and the editor is the credit of the
  keyboard task (`KbdCredit`), which is why the invariant of `MpxSafe` is needed.
- `OutputArrives`: `Spec => ShowsOutput`, the refinement of `ShellWindow`, step by
  step, from `Delivery` and `Unflushed`. Its hypothesis is `Chunk < obufsiz`: a
  packet of bells that fills the output buffer makes `cdata` read the next packet
  over the one it unpacks (`ushell.c:92`). The code has packets of 1024 bytes and
  a buffer of up to 4096; at low rates (`tty.c:401`) it can be smaller than a
  packet, and the theorem then says nothing.
- `MpxSafeInOrder`: `Spec => []MpxSafety`, all parts of the invariant in one.

`VFileProofs.tla`

- `MemorySafe`: `Spec => []PlainMemory` for any number of pages, frames and locks
  and any contents. `PlainMemory` is not inductive: evicting a clean page is right
  only because a clean page is as the file has it or torn there (`CleanIsStored`),
  and evicting one that counts no lock only because the counts are those of the
  callers (`Counted`). `IInv` adds both. `FlushStores` says that a flush that stops
  anywhere leaves what it wrote in the file, whole or torn, and no other page
  changed; `LoadSafe` is the step common to the three ways of bringing a page in, of
  which each passes in what it flushed and what it evicts.

`FilesProofs.tla`, for any number of files, buffers, windows, failing calls and
writes by others

- `SignalsLoseNothing`: `Spec => []SignalKeeps`. Its invariant `FilesInv` says of
  each buffer that counts as unchanged where its text is (`Kept`): in the file of
  its name, unless that file has been written by somebody else since. For this to
  be kept by the writes of other buffers and programs, what a buffer knows of its
  file must be in the past (`Dated`), so that any new write makes the file newer
  than all of it. A save in the middle of its calls is described by `JobRight`: a
  file that is open for writing is newer than what any other buffer knows; once it is
  written it has the buffer's text. Between the two the buffer that is being saved to
  its own file is the one of which nothing is said (`InGap` in `AlmostRight`); the
  write brings its text back, and a write that fails marks it as `cut`.
- `ClosedIsSaved`: `Spec => ClosedSaved`. Each step is shown to keep `FilesInv`
  and to be a `SavedStep`. A buffer goes only with its last window (`abortit`,
  `CloseOnly`), and the commands come to that with a buffer that counts as
  unchanged, or that another window shows, or after the question.
- `FilesTyped`: `Spec => []TypeOK`.

Most of the module is about lists: `brm` takes one place out of the list of
buffers, `unbuf` turns it, `abortit` closes a window and moves the current one;
`NextModifiedMoves` follows the walk of `querysave` through a recursive function.

`YankProofs.tla`

- `KillsComeBack`: `YankSpec => YankRight`. `YankInv` says that in a row of kills
  the newest record, put back, gives the text from before the first of them
  (`RowKept`), that behind a yank or yankpop the text is the one from before with
  the newest record put in, and the cursor behind it (`YankKept`), and that what
  undo would take out is there (`UndoKept`). What needs work is cutting and joining
  sequences: a kill next to the newest record joins it at the end it touches.

`MessagesProofs.tla`

- `MessagesStay`: `MessagesSpec => MessagesRight` for any file whose lines can be
  told apart, any number of messages and of edits. That the messages have their
  lines (`WithTheirLines`) is not inductive: `uundo` moves them by what a record
  says, and what it says must be the edit that led from the record's text to the
  next one. `MessagesInv` says so of each record and the text behind it (`Gives`,
  `Grown`); that from the record undo has come to on the texts read the same from
  both ends, because each undo has put its own record at the end (`Mirrored`); that
  no text has two lines of one name, so that a line which is there is at one place
  (`TextsNamed`); and, as long as no save has met two unmodified records, that a
  buffer, or a text undo can come back to, which counts as unmodified has the lines
  of the file (`AsFile`), which is why `parserr` and `brm` may take the numbers of
  the one for those of the other.

Where a proof needs induction it takes the least counterexample (`LeastNumber`):
a set of natural numbers that is not empty has a least member. `HistoryProofs` needs
it most, as the texts of a list of records are recursive functions. The induction
theorems of the library have a predicate as a parameter, which the provers cannot
instantiate.

Assumptions are the named ASSUMEs on the constants, which TLC evaluates in each
run.

Only model-checked:

- liveness (`CommandsEnd`, `EverythingEnds`), which is beyond the prover;
- `NothingOverwritten`, which holds in the instances of `MCFiles_core` but not in
  general (section 11), so that there is nothing to prove;
- `PtrInside` with redo or macros, which does not hold (section 11), and
  `RedoRestores`, which holds for the histories of its run only;
- `UniqueMeansSaved` with redo, for the histories of its run (section 11);
- `ImplementsHistory` with redo, for the histories of `MCUndo_core`;
- the refinement `ImplementsMarks`;
- the algorithms of sections 5 to 7 and 9 and, but for `VFile`, `Yank` and `Messages`,
  the parts of section 10. Most are recursive operators over texts and patterns, which
  the prover does not take.

## 13. Not modelled

- The conditionals and the mark stack of macros, `docmd`.
- UTF-8 beyond what moves a column, hexadecimal display, picture mode beyond the
  movements.
- Pipes, appending and parts of files, read-only and scratch buffers.
- Drawing within a row, attributes, insertion of characters, termcap, help, the
  status line, messages in windows, `-linums`.
- Names of keys and of termcap capabilities, the menu of options, help texts.
- `~`, `,skip,size` and bracketed patterns in file names; a menu left for another
  window; commands that run in one key without a redraw.
- Failures of `pipe` and `fork`, the end of the terminal.
- Tags and calculator: a scan of a file and floating-point arithmetic.
- Character sets: generated tables and pure conversions.
- Portability layer and the start-up file compiled in: no behaviour of the editor.

## 14. How to run it

    tlc -config MCUndo_core.cfg MCUndo
    tlapm UndoProofs.tla

and likewise for the other configurations and proof modules. The longest run takes
about three minutes; the proofs take a few minutes each.
