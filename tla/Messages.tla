------------------------------- MODULE Messages -------------------------------
(***************************************************************************)
(* Compiler messages (src/uerror.c): each names a line of a file.  The line*)
(* moves with edits of the buffer of that file, and goes back to where it  *)
(* is in the file when the buffer is closed without its changes.           *)
(***************************************************************************)
EXTENDS Integers, Sequences, SequencesExt

CONSTANTS
  FileText,     \* the lines of the file in the beginning, all different
  MaxTextLines, \* bound on the lines of the buffer
  MaxMessages,  \* bound on the messages
  MaxTextEdits  \* bound on the edits

(* The lines of the file are all different.                                *)
Distinct(t) == \A i, j \in 1 .. Len(t) : t[i] = t[j] => i = j
LinesAssumption ==
  /\ MaxTextLines \in Nat /\ MaxMessages \in Nat
  /\ FileText \in Seq(1 .. MaxTextLines) /\ Distinct(FileText)
ASSUME LinesGiven == LinesAssumption

VARIABLES
  buf,        \* the buffer of the file: open, text, changed, and for undo
              \* the records of its changes and the one undo has come to
              \* (ptr; 0: none, undo begins with the newest)
  onDisk,     \* the lines of the file
  errors, errptr, \* the messages, and the current one (0: before the first)
  cursor,     \* where a step that went to a message has put the cursor
  edits,
  unique      \* no save has met two records that count as unmodified: a
              \* history variable, for the properties

messageVars == <<buf, onDisk, errors, errptr, cursor, edits, unique>>

(* A message is for the line of this name; valid: that line has not been   *)
(* deleted since; saved: nor had it been when the file was last written.   *)
Message(l) ==
  [name |-> onDisk[l + 1], line |-> l, org |-> l, valid |-> TRUE, saved |-> TRUE]

(* Faulty variant of inserr: a line that is pushed down whole stays.       *)
inserr_Bol(e, where, n, bol) == IF e.line > where THEN [e EXCEPT !.line = @ + n] ELSE e
inserr(e, where, n, bol) ==
  IF e.line > where \/ (e.line = where /\ bol) THEN [e EXCEPT !.line = @ + n] ELSE e
delerr(e, where, n) ==
  CASE e.line > where + n -> [e EXCEPT !.line = @ - n]
    [] e.line \in where + 1 .. where + n -> [e EXCEPT !.line = where]
    [] OTHER -> e
abrerr(e) == [e EXCEPT !.line = e.org, !.valid = e.saved]
saverr(e) == [e EXCEPT !.org = e.line, !.saved = e.valid]

(* A change of the text: n lines at line l, from its start (bol) or from   *)
(* inside it, put in (ins) or taken out.  Its record has the text and the  *)
(* state of the buffer from before.                                        *)
InsAll(l, n, bol) == [i \in DOMAIN errors |-> inserr(errors[i], l, n, bol)]
DelAll(l, n, t)   ==
  [i \in DOMAIN errors |->
     [delerr(errors[i], l, n) EXCEPT !.valid = @ /\ \E j \in DOMAIN t : t[j] = errors[i].name]]
Undoable(l, n, bol, ins) ==
  [text |-> buf.text, changed |-> buf.changed, l |-> l, n |-> n, bol |-> bol, ins |-> ins]
Recorded(t, changed, rec, p) ==
  [buf EXCEPT !.text = t, !.changed = changed, !.recs = Append(@, rec), !.ptr = p]
Edited(t, rec) == Recorded(t, TRUE, rec, 0)               \* undoover

Empty == [open |-> FALSE, text |-> <<>>, changed |-> FALSE, recs |-> <<>>, ptr |-> 0]
MessagesInit ==
  /\ onDisk = FileText
  /\ buf = [Empty EXCEPT !.open = TRUE, !.text = FileText]
  /\ errors = <<>> /\ errptr = 0 /\ cursor = 0 /\ edits = 0 /\ unique = TRUE

(* parserr: the compiler has read the file as it is in the buffer, and says*)
(* something about some of its lines, in any order, some of them more than *)
(* once.  The messages from before are dropped.                            *)
parserr ==
  /\ ~buf.changed
  /\ \E ls \in BoundedSeq(0 .. Len(onDisk) - 1, MaxMessages) :
       errors' = [i \in DOMAIN ls |-> Message(ls[i])]
  /\ errptr' = 0
  /\ cursor' = 0 /\ UNCHANGED <<buf, onDisk, edits, unique>>

NewLines(n) == [i \in 1 .. n |-> MaxTextLines * (edits + 1) + i] \* none like these
fixupins(l, n, bol) ==
  LET k == IF bol THEN l ELSE l + 1      \* lines before the new ones
  IN /\ buf.open /\ edits < MaxTextEdits /\ Len(buf.text) + n <= MaxTextLines
     /\ buf' = Edited(SubSeq(buf.text, 1, k) \o NewLines(n) \o SubSeq(buf.text, k + 1, Len(buf.text)),
                      Undoable(l, n, bol, TRUE))
     /\ errors' = InsAll(l, n, bol)
     /\ edits' = edits + 1
     /\ cursor' = 0 /\ UNCHANGED <<onDisk, errptr, unique>>
(* A deletion from inside line l joins it with line l + n.                 *)
bcut(l, n, bol) ==
  LET k == IF bol THEN l ELSE l + 1
      t == SubSeq(buf.text, 1, k) \o SubSeq(buf.text, k + n + 1, Len(buf.text))
  IN /\ buf.open /\ edits < MaxTextEdits /\ l + n < Len(buf.text)
     /\ buf' = Edited(t, Undoable(l, n, bol, FALSE))
     /\ errors' = DelAll(l, n, t)
     /\ edits' = edits + 1
     /\ cursor' = 0 /\ UNCHANGED <<onDisk, errptr, unique>>

(* doundo: the change of a record is taken back, in the messages too.      *)
TakenBack(u) == IF u.ins THEN DelAll(u.l, u.n, u.text) ELSE InsAll(u.l, u.n, u.bol)
(* Undo goes to the record before ptr, and is itself recorded: its record  *)
(* comes behind all others.  Redo takes that record back and away.         *)
uundoLines ==
  /\ buf.open /\ buf.recs # <<>> /\ buf.ptr # 1
  /\ LET p == IF buf.ptr = 0 THEN Len(buf.recs) ELSE buf.ptr - 1
         u == buf.recs[p]
     IN /\ buf' = Recorded(u.text, u.changed, Undoable(u.l, u.n, u.bol, ~u.ins), p)
        /\ errors' = TakenBack(u)
  /\ cursor' = 0 /\ UNCHANGED <<onDisk, errptr, edits, unique>>
uredoLines ==
  /\ buf.open /\ buf.ptr # 0
  /\ LET u == Last(buf.recs)
     IN /\ buf' = [buf EXCEPT !.text = u.text, !.changed = u.changed, !.recs = Front(@),
                              !.ptr = IF @ + 1 = Len(buf.recs) THEN 0 ELSE @ + 1]
        /\ errors' = TakenBack(u)
  /\ cursor' = 0 /\ UNCHANGED <<onDisk, errptr, edits, unique>>

(* saver, exdone: under its own name (own) the file has the lines of the   *)
(* buffer now.  Under any name the newest record of a change to an         *)
(* unmodified buffer does not lead back to one any more; but only that one.*)
Unmodified == {i \in DOMAIN buf.recs : ~buf.recs[i].changed}
Marked ==
  [i \in DOMAIN buf.recs |->
     [buf.recs[i] EXCEPT !.changed = @ \/ \A j \in Unmodified : j <= i]]
saver(own) ==
  /\ buf.open
  /\ onDisk' = IF own THEN buf.text ELSE onDisk
  /\ buf' = [buf EXCEPT !.changed = @ /\ ~own, !.recs = Marked]
  /\ errors' = IF own THEN [i \in DOMAIN errors |-> saverr(errors[i])] ELSE errors
  /\ unique' = (unique /\ (own => \A i, j \in Unmodified : i = j))
  /\ cursor' = 0 /\ UNCHANGED <<errptr, edits>>
(* brm: the buffer is closed, without its changes.                         *)
brm ==
  /\ buf.open
  /\ buf' = Empty
  /\ errors' = IF buf.changed THEN [i \in DOMAIN errors |-> abrerr(errors[i])] ELSE errors
  /\ cursor' = 0 /\ UNCHANGED <<onDisk, errptr, edits, unique>>

(* unxterr, uprverr: to the next message or the one before; the file is    *)
(* loaded if it is in no buffer.  From before the first message the one    *)
(* before is the last.                                                     *)
Loaded == IF buf.open THEN buf ELSE [buf EXCEPT !.open = TRUE, !.text = onDisk]
Lower(a, b) == IF a < b THEN a ELSE b
GoTo(i) ==
  /\ errptr' = i /\ buf' = Loaded
  /\ cursor' = Lower(errors[i].line, Len(Loaded.text) - 1)    \* pline
  /\ UNCHANGED <<onDisk, errors, edits, unique>>
unxterr == errptr < Len(errors) /\ GoTo(errptr + 1)
uprverr ==
  \/ errptr > 1 /\ GoTo(errptr - 1)
  \/ errptr = 0 /\ errors # <<>> /\ GoTo(Len(errors))

MessagesNext ==
  \/ parserr \/ uundoLines \/ uredoLines \/ brm \/ unxterr \/ uprverr
  \/ \E own \in BOOLEAN : saver(own)
  \/ \E l \in 0 .. Len(buf.text) - 1, n \in 1 .. 2, bol \in BOOLEAN :
       fixupins(l, n, bol) \/ bcut(l, n, bol)
MessagesSpec == MessagesInit /\ [][MessagesNext]_messageVars

-----------------------------------------------------------------------------
(* A message stays with its line, through edits that do not delete the     *)
(* line, undo and redo, saving and closing: its number is that of the line *)
(* in the buffer, or in the file when there is no buffer; and going to a   *)
(* message goes to its line.  That is so until a save meets two records    *)
(* that count as unmodified (the comment at ufile.c:356-361 takes it that  *)
(* there is one at most): then undo can bring a buffer that is not what the*)
(* file is, and yet is not modified, and closing it leaves the messages as *)
(* they are in the buffer (b.c:254).                                       *)
Current == IF buf.open THEN buf.text ELSE onDisk
IsLine(t, l, name) == l < Len(t) /\ t[l + 1] = name
WithTheirLines ==
  \A i \in DOMAIN errors :
    /\ errors[i].valid => IsLine(Current, errors[i].line, errors[i].name)
    /\ errors[i].saved => IsLine(onDisk, errors[i].org, errors[i].name)
GoesThere ==
  errptr' # errptr /\ errptr' # 0 /\ errors[errptr'].valid =>
    IsLine(buf'.text, cursor', errors[errptr'].name)
(* Both: after every step, and whenever a message is gone to.              *)
LinesKept == WithTheirLines' /\ GoesThere
MessagesRight == [][unique' => LinesKept]_messageVars
=============================================================================
