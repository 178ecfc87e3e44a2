-------------------------------- MODULE Files --------------------------------
(***************************************************************************)
(* Loading and saving: buffers that stand for files, the questions asked   *)
(* before a file is written, the backup, and the write itself as the       *)
(* system calls that it makes (src/ufile.c, src/b.c).  Between two of the  *)
(* calls a signal may end the editor, and any of them may fail; while a    *)
(* question waits, other programs write the same files.                    *)
(*                                                                         *)
(* A text is a number, given out when the text comes to be.  Each write    *)
(* has a second of its own: that is the granularity of st_mtime.           *)
(***************************************************************************)
EXTENDS Integers, Sequences, FiniteSets, SequencesExt

CONSTANTS
  Names,      \* of files
  NoName,     \* of an unnamed buffer
  MaxBufs,    \* buffers
  Scenarios   \* bounds, one of which a behaviour keeps to: the files that
              \* exist at the start, the command line, the commands given,
              \* and how many windows, writes and failures there may be

ASSUME FilesAssumption ==
  /\ NoName \notin Names /\ MaxBufs \in Nat \ {0}
  /\ \A s \in Scenarios :
       /\ s.existing \subseteq Names /\ s.line \in Seq(Names) /\ Len(s.line) <= MaxBufs
       /\ {s.windows, s.seconds, s.failures} \subseteq Nat

VARIABLES
  disk,    \* name -> what the file holds
  bak,     \* name -> what its backup, name~, holds
  dead,    \* the texts in DEADJOE
  ed,      \* the editor
  now,     \* the second, and the number of the last text
  faults,  \* calls that failed so far
  plan     \* the scenario
vars == <<disk, bak, dead, ed, now, faults, plan>>

NoText == -2
Torn == -1      \* a file cut short, or a text read in part
Blank == 0
Missing == [text |-> NoText, time |-> 0]
Written(t) == [text |-> t, time |-> now + 1]
Free == [name |-> NoName, text |-> Blank, changed |-> FALSE, backup |-> TRUE, time |-> 0,
         er |-> "none", base |-> -1, own |-> {}, cut |-> FALSE]
Idle == [pc |-> "idle", name |-> NoName, callback |-> "none", first |-> 0, rename |-> FALSE,
         not_saved |-> FALSE, agreed |-> FALSE]

(* The editor: buf, the buffers; bufs, the list of those in use; win, the  *)
(* windows' buffers, and cur, the current window; ask, the question that   *)
(* is waiting; job, the save under way; msg, what the last query said.     *)
Buf(e) == e.buf[e.win[e.cur]]
Here(e) == e.win[e.cur]
count(e, b) == Cardinality({i \in DOMAIN e.win : e.win[i] = b})
Put(e, r) == [e EXCEPT !.buf[Here(e)] = r]
Waits(e, q) == [e EXCEPT !.ask = q, !.job.pc = "asked"]
Dropped(e) == [e EXCEPT !.ask = "none", !.job = Idle]

(* bload: a file that cannot be opened gives an empty buffer, one that     *)
(* cannot be read to its end gives the part that was read; both count as   *)
(* backed up.                                                              *)
bload(n, er) ==
  CASE n = NoName -> [Free EXCEPT !.er = "new"]
    [] n # NoName /\ disk[n] = Missing -> [Free EXCEPT !.name = n, !.er = "new"]
    [] n # NoName /\ disk[n] # Missing /\ er = "open" -> [Free EXCEPT !.name = n, !.er = er]
    [] n # NoName /\ disk[n] # Missing /\ er = "read" ->
         [Free EXCEPT !.name = n, !.er = er, !.text = Torn, !.time = disk[n].time,
                      !.base = disk[n].time]
    [] n # NoName /\ disk[n] # Missing /\ er = "none" ->
         [Free EXCEPT !.name = n, !.text = disk[n].text, !.base = disk[n].time,
                      !.time = disk[n].time, !.backup = FALSE]

Unused(e) == CHOOSE b \in 1..MaxBufs : b \notin ToSet(e.bufs)
HasBuffer(e) == Len(e.bufs) < MaxBufs
New(e, b, r) == [e EXCEPT !.buf[b] = r, !.bufs = <<b>> \o @]
Place(s, S) == CHOOSE i \in DOMAIN s : s[i] \in S /\ \A j \in 1..(i - 1) : s[j] \notin S
First(s, S) == s[Place(s, S)]
Loaded(e, n) == {b \in ToSet(e.bufs) : e.buf[b].name = n}
bcheck_loaded(e, n) == First(e.bufs, Loaded(e, n))
brm(e, b) ==
  IF count(e, b) > 0 THEN e ELSE [e EXCEPT !.bufs = RemoveAt(@, Place(@, {b})), !.buf[b] = Free]
Orphans(e) == {b \in ToSet(e.bufs) : count(e, b) = 0}
borphan(e) == First(e.bufs, Orphans(e))

(* doedit1: the buffer replaces the one in the window if that one has no   *)
(* name and no changes, or if b is loaded and the window's one is seen     *)
(* elsewhere too or is b; else it comes up in a window of its own.         *)
InPlace(e, b) == brm([e EXCEPT !.win[e.cur] = b], Here(e))
doedit1(e, b, reload) ==
  IF /\ reload \/ (b # Here(e) /\ count(e, Here(e)) = 1)
     /\ Buf(e).changed \/ Buf(e).name # NoName
  THEN [e EXCEPT !.win = InsertAt(@, e.cur + 1, b), !.cur = @ + 1]
  ELSE IF b = Here(e) THEN e ELSE InPlace(e, b)

(* unbuf: the next buffer of the list, which turns; orphaned is what no    *)
(* window shows.                                                           *)
Turned(e) == [e EXCEPT !.bufs = <<Last(@)>> \o Front(@)]
unbuf(e) ==
  LET e1 == Turned(e)
      e2 == IF Head(e1.bufs) = Here(e) THEN Turned(e1) ELSE e1
  IN [e2 EXCEPT !.win[e.cur] = Head(e2.bufs)]
upbuf(e) ==
  LET Back(x) == [x EXCEPT !.bufs = Append(Tail(@), Head(@))]
      e1 == Back(e)
      e2 == IF Last(e1.bufs) = Here(e) THEN Back(e1) ELSE e1
  IN [e2 EXCEPT !.win[e.cur] = Last(e2.bufs)]

(* abortit: the last window takes an orphan if there is one.               *)
Closed(e, b) ==
  IF Len(e.win) > 1
  THEN brm([e EXCEPT !.win = RemoveAt(@, e.cur), !.cur = IF @ = Len(e.win) THEN 1 ELSE @], b)
  ELSE IF Orphans(e) # {} THEN InPlace(e, borphan(e))
  ELSE [e EXCEPT !.over = "left"]
abortit(e) == Closed(Dropped(e), Here(e))

-----------------------------------------------------------------------------
(* The query: from one buffer of the list to the next until the one that   *)
(* the command began with comes round.                                     *)
Modified(e) == Buf(e).changed
genexmsgmulti(e, m) == [Dropped(e) EXCEPT !.msg = m]
Found(e, first) == Here(e) = first \/ Modified(e)
NextModified(e, first) ==
  LET seen[k \in 0..MaxBufs] ==
        IF k = 0 THEN unbuf(e)
        ELSE IF Found(seen[k - 1], first) THEN seen[k - 1] ELSE unbuf(seen[k - 1])
  IN seen[MaxBufs]
doquerysave(e) == Waits(e, "save")
Further(e, first, skipped) ==
  IF Here(e) = first THEN genexmsgmulti(e, IF skipped THEN "some" ELSE "all") ELSE doquerysave(e)
QueryOn(e) == Further(NextModified(e, e.job.first), e.job.first, e.job.not_saved)
query_next(e, ok) == IF ok THEN QueryOn(e) ELSE Dropped(e)
FirstModified(e, e1) == IF Here(e1) = Here(e) THEN genexmsgmulti(e1, "none") ELSE doquerysave(e1)
uquerysave(e) ==
  LET e0 == [e EXCEPT !.job.callback = "query", !.job.first = Here(e)]
  IN IF Modified(e) THEN doquerysave(e0) ELSE FirstModified(e0, NextModified(e0, Here(e0)))

(* Faulty variant of exdone: closes whether or not the write went well.    *)
exdone_Always(e, ok) == abortit(Put(e, [Buf(e) EXCEPT !.changed = FALSE]))
exdone(e, ok) == IF ok THEN abortit(Put(e, [Buf(e) EXCEPT !.changed = FALSE])) ELSE Dropped(e)
Callback(e, ok) ==
  CASE e.job.callback = "query" -> query_next(e, ok)
    [] e.job.callback = "exit" -> exdone(e, ok)
    [] e.job.callback = "none" -> Dropped(e)

(* dosave1: which question comes before the write, if any.                 *)
backup(e) == Buf(e).backup \/ e.nobackups \/ Buf(e).name = NoName
dosave(e) == [e EXCEPT !.ask = "none", !.job.pc = IF backup(e) THEN "open" ELSE "unlink"]
Exists(n) == disk[n] # Missing
Newer(e, n) == Exists(n) /\ disk[n].time > Buf(e).time
dosave1(e, n) ==
  LET e1 == [e EXCEPT !.job.name = n]
  IN IF Buf(e).name # n THEN IF Exists(n) THEN Waits(e1, "exists") ELSE dosave(e1)
     ELSE IF Newer(e, n) THEN Waits(e1, "newer") ELSE dosave(e1)
Request(e, callback, rename) == [e EXCEPT !.job.callback = callback, !.job.rename = rename]

(* saver, once the text is written: the buffer takes the name if it has    *)
(* none or is to be renamed, and counts as saved if it has that name.      *)
Named(e, n) == IF e.job.rename \/ Buf(e).name = NoName THEN Put(e, [Buf(e) EXCEPT !.name = n]) ELSE e
(* Faulty variant of Unchanged: whatever the name it was saved to.         *)
Unchanged_Any(e, n) == Put(e, [Buf(e) EXCEPT !.changed = FALSE, !.cut = FALSE])
Unchanged(e, n) ==
  IF Buf(e).name = n THEN Put(e, [Buf(e) EXCEPT !.changed = FALSE, !.cut = FALSE]) ELSE e
(* Faulty variant of Noted: for another file too.                          *)
Noted_Any(e, n) == Put(e, [Buf(e) EXCEPT !.time = disk[n].time])
Noted(e, n) ==
  IF Buf(e).name \in {NoName, n} THEN Put(e, [Buf(e) EXCEPT !.time = disk[n].time]) ELSE e
saver(e, n) == Unchanged(Named(Noted(e, n), n), n)

-----------------------------------------------------------------------------
(* Steps.  A command is taken when nothing is under way.                   *)
Ready == ed.over = "no" /\ ed.ask = "none" /\ ed.job.pc = "idle"
May(c) == c \in plan.commands /\ Ready
Does(e) == ed' = e /\ UNCHANGED <<disk, bak, dead, now, faults, plan>>
Silent == [ed EXCEPT !.msg = "none yet"]
CanFail == faults < plan.failures

Modify ==
  /\ May("modify") /\ now < plan.seconds
  /\ now' = now + 1
  /\ ed' = Put(Silent, [Buf(ed) EXCEPT !.text = now', !.changed = TRUE])
  /\ UNCHANGED <<disk, bak, dead, faults, plan>>
Fits(e) == Len(e.win) <= plan.windows   \* bound
Open(n, reload, er) ==
  IF ~reload /\ Loaded(ed, n) # {}
  THEN LET e == doedit1(Dropped(Silent), bcheck_loaded(ed, n), FALSE) IN Fits(e) /\ Does(e)
  ELSE /\ HasBuffer(ed)   \* bound
       /\ er # "none" => CanFail /\ Exists(n)
       /\ ed' = doedit1(New(Dropped(Silent), Unused(ed), bload(n, er)), Unused(ed), reload)
       /\ Fits(ed')
       /\ faults' = IF er = "none" THEN faults ELSE faults + 1
       /\ UNCHANGED <<disk, bak, dead, now, plan>>
Errors == {"none", "open", "read"}
Edit ==
  /\ May("edit")
  /\ \E n \in Names, er \in Errors :
       IF Loaded(ed, n) # {} /\ ed.buf[bcheck_loaded(ed, n)].changed
       THEN Does(Waits([Silent EXCEPT !.job.name = n], "reload"))
       ELSE Open(n, Loaded(ed, n) = {}, er)
Switch == May("switch") /\ \E n \in Names, er \in Errors : Open(n, FALSE, er)
NextBuffer == May("nbuf") /\ Does(unbuf(Silent))
PrevBuffer == May("pbuf") /\ Does(upbuf(Silent))
NextWindow == May("nextw") /\ Does([Silent EXCEPT !.cur = (@ % Len(ed.win)) + 1])
Abort ==
  /\ May("abort")
  /\ Does(IF Modified(ed) /\ count(ed, Here(ed)) = 1 THEN Waits(Silent, "lose") ELSE abortit(Silent))
Save == May("save") /\ \E n \in Names : Does(dosave1(Request(Silent, "none", FALSE), n))
uexsve(e) ==
  \/ ~Modified(e) /\ Does(abortit(e))
  \/ Modified(e) /\ Buf(e).name # NoName /\ Does(dosave1(Request(e, "exit", FALSE), Buf(e).name))
  \/ Modified(e) /\ \E n \in Names : Does(dosave1(Request(e, "exit", TRUE), n))
ExitSave == May("exsave") /\ uexsve(Silent)
AskExitSave ==   \* ask,query,exsve
  /\ May("ask")
  /\ IF Modified(ed) /\ count(ed, Here(ed)) = 1 THEN Does(Waits(Silent, "keep")) ELSE uexsve(Silent)
QuerySave == May("querysave") /\ Does(uquerysave(Silent))

(* The answers.  At ^C the question and what it was for are forgotten.     *)
Asked(q) == ed.over = "no" /\ ed.job.pc = "asked" /\ ed.ask = q
Agreed == [ed EXCEPT !.job.agreed = TRUE]
Overwrite == (Asked("exists") \/ Asked("newer")) /\ Does(dosave(Agreed))
SaveAnyway == Asked("nobackup") /\ Does([Agreed EXCEPT !.ask = "none", !.job.pc = "open"])
NotWithoutBackup == Asked("nobackup") /\ Does(Callback(ed, FALSE))
SaveThis ==
  /\ Asked("save")
  /\ \E n \in IF Buf(ed).name = NoName THEN Names ELSE {Buf(ed).name} :
       Does(dosave1([ed EXCEPT !.ask = "none"], n))
NotThis == Asked("save") /\ Does(QueryOn([ed EXCEPT !.job.not_saved = @ \/ Modified(ed)]))
KeepChanges == Asked("keep") /\ uexsve(Dropped(ed))
DropChanges == Asked("keep") /\ Does(abortit(ed))
Lose == Asked("lose") /\ Does(abortit(ed))
Reload == Asked("reload") /\ \E er \in Errors : Open(ed.job.name, TRUE, er)
NotReload == Asked("reload") /\ Open(ed.job.name, FALSE, "none")
Cancel == ed.over = "no" /\ ed.ask # "none" /\ Does(Dropped(ed))

(* The calls of a save.                                                    *)
At(pc) == ed.over = "no" /\ ed.job.pc = pc
Then(pc) == [ed EXCEPT !.job.pc = pc]
Unlink ==
  /\ At("unlink")
  /\ bak' = [bak EXCEPT ![Buf(ed).name] = Missing]
  /\ ed' = Then("copy")
  /\ UNCHANGED <<disk, dead, now, faults, plan>>
Copy ==
  /\ At("copy") /\ Exists(Buf(ed).name)
  /\ bak' = [bak EXCEPT ![Buf(ed).name] = disk[Buf(ed).name]]
  /\ ed' = Put(Then("open"), [Buf(ed) EXCEPT !.backup = TRUE])
  /\ UNCHANGED <<disk, dead, now, faults, plan>>
Fails(e) == CanFail /\ faults' = faults + 1 /\ ed' = e /\ UNCHANGED <<disk, bak, dead, now, plan>>
NoTemp == At("unlink") /\ Fails(Waits(ed, "nobackup"))
NoCopy ==
  /\ At("copy")
  /\ IF Exists(Buf(ed).name) THEN Fails(Waits(ed, "nobackup")) ELSE Does(Waits(ed, "nobackup"))
OpenToWrite ==
  /\ At("open") /\ now < plan.seconds
  /\ disk' = [disk EXCEPT ![ed.job.name] = Written(Torn)]
  /\ now' = now + 1
  /\ ed' = Put(Then("write"), [Buf(ed) EXCEPT !.own = @ \cup {now'}])
  /\ UNCHANGED <<bak, dead, faults, plan>>
NoOpen == At("open") /\ Fails(Callback(ed, FALSE))
Write ==
  /\ At("write")
  /\ disk' = [disk EXCEPT ![ed.job.name].text = Buf(ed).text]
  /\ ed' = Then("stat")
  /\ UNCHANGED <<bak, dead, now, faults, plan>>
(* The user is told that the file could not be written.                    *)
CutShort(e) ==
  IF Buf(e).name = e.job.name THEN Put(e, [Buf(e) EXCEPT !.cut = TRUE]) ELSE e
NoWrite == At("write") /\ Fails(Callback(CutShort(ed), FALSE))
Saved == At("stat") /\ Does(Callback(saver(ed, ed.job.name), TRUE))

(* ttsig: DEADJOE takes the text of each changed buffer.                   *)
Signal ==
  /\ "signal" \in plan.commands /\ ed.over = "no"
  /\ dead' = dead \cup {ed.buf[b].text : b \in {x \in ToSet(ed.bufs) : ed.buf[x].changed}}
  /\ ed' = [ed EXCEPT !.over = "killed"]
  /\ UNCHANGED <<disk, bak, now, faults, plan>>

(* Another program writes or removes a file, while the user reads.         *)
Outside == ed.over = "no" /\ ed.job.pc \in {"idle", "asked"}
External(n) ==
  /\ "external" \in plan.commands /\ Outside /\ now < plan.seconds
  /\ disk' = [disk EXCEPT ![n] = Written(now + 1)]
  /\ now' = now + 1
  /\ UNCHANGED <<bak, dead, ed, faults, plan>>
Removed(n) ==
  /\ "remove" \in plan.commands /\ Outside /\ Exists(n)
  /\ disk' = [disk EXCEPT ![n] = Missing]
  /\ UNCHANGED <<bak, dead, ed, now, faults, plan>>

Command ==
  \/ Modify \/ Edit \/ Switch \/ NextBuffer \/ PrevBuffer \/ NextWindow
  \/ Abort \/ Save \/ ExitSave \/ AskExitSave \/ QuerySave
Answer ==
  \/ Overwrite \/ SaveAnyway \/ NotWithoutBackup \/ SaveThis \/ NotThis
  \/ KeepChanges \/ DropChanges \/ Lose \/ Reload \/ NotReload \/ Cancel
Call ==
  \/ Unlink \/ Copy \/ NoTemp \/ NoCopy \/ OpenToWrite \/ NoOpen \/ Write \/ NoWrite \/ Saved
Others == \E n \in Names : External(n) \/ Removed(n)
Next == Command \/ Answer \/ Call \/ Signal \/ Others

(* The editor starts with a window for each file that was named, or with   *)
(* one for a new buffer; each new buffer comes first in the list.          *)
Begun(names) == IF names = <<>> THEN <<NoName>> ELSE names
Init ==
  /\ plan \in Scenarios
  /\ disk = [n \in Names |-> IF n \in plan.existing THEN [text |-> 1, time |-> 1] ELSE Missing]
  /\ bak = [n \in Names |-> Missing] /\ dead = {} /\ now = 1 /\ faults = 0
  /\ LET names == Begun(plan.line)
         first == [b \in 1..Len(names) |-> b]
     IN \E off \in {FALSE, "nobackups" \in plan.commands} :
          ed = [buf |-> [b \in 1..MaxBufs |-> IF b \in DOMAIN names THEN bload(names[b], "none") ELSE Free],
                bufs |-> Reverse(first), win |-> first, cur |-> 1, ask |-> "none", job |-> Idle,
                msg |-> "none yet", over |-> "no", nobackups |-> off]
Spec == Init /\ [][Next]_vars

-----------------------------------------------------------------------------
(* No step leaves more than one thing under way, or a window on a buffer   *)
(* that is gone.                                                           *)
Live == ToSet(ed.bufs)
TypeOK ==
  /\ disk \in [Names -> [text : Int, time : 0..now]] /\ bak \in [Names -> [text : Int, time : 0..now]]
  /\ \A b \in Live : ed.buf[b].name \in Names \cup {NoName} /\ ed.buf[b].time <= now
  /\ ToSet(ed.win) \subseteq Live /\ (ed.over = "no" => ed.cur \in DOMAIN ed.win)
  /\ ed.ask # "none" <=> ed.job.pc = "asked"

(* Whatever a write is about to destroy is this buffer's own earlier       *)
(* save, or is safe in the backup, or the user has agreed (or has turned   *)
(* backups off, or was told that the file could not be read).              *)
MayGo(b, n) ==
  \/ ~Exists(n) \/ disk[n].time \in b.own \/ bak[n] = disk[n] \/ ed.job.agreed
  \/ (ed.nobackups \/ b.er = "read") /\ disk[n].time = b.base
NothingOverwritten ==
  [][ed.job.pc = "open" /\ disk' # disk => MayGo(Buf(ed), ed.job.name)]_vars

(* A text is where the user will find it: in a file of the buffer's name   *)
(* or the one being saved to, unless somebody else has written that file   *)
(* since, or a write of it failed and the user has been told.              *)
Stored(b) ==
  LET r == ed.buf[b]
  IN \/ \E n \in {r.name, ed.job.name} \cap Names : disk[n].text = r.text
     \/ r.text \in {Blank, Torn} \/ r.cut
     \/ r.name # NoName /\ disk[r.name].time \notin r.own \cup {r.base}

(* After a signal each text is stored or in DEADJOE: at whatever call of a *)
(* save the signal comes, no buffer counts as unchanged too early.  There  *)
(* is one exception, a loss: a buffer that is not modified is being saved  *)
(* to its own file, which fopen has cut short and the write has not filled *)
(* again (b.c:2373-2386).  DEADJOE has only modified buffers (b.c:2558).   *)
Gap(b) == ed.job.pc = "write" /\ b = Here(ed) /\ ed.buf[b].name = ed.job.name
SignalKeeps ==
  ed.over = "killed" =>
    \A b \in Live : ed.buf[b].text \in dead \/ Stored(b) \/ (~ed.buf[b].changed /\ Gap(b))

(* No buffer goes without its text being stored, but for the user's yes to *)
(* the question whether to lose it.                                        *)
Goes(b) == b \in Live /\ (b \notin Live' \/ ed'.over = "left")
ClosedSaved == [][\A b \in Live : Goes(b) => Stored(b) \/ ed.ask \in {"lose", "keep"}]_vars

(* jupp's messages at the end of querysave: "All modified files have been  *)
(* saved." and "No modified files, so no updates needed."                  *)
AllSaved == ed.msg \in {"all", "none"} => \A b \in Live : ~ed.buf[b].changed
=============================================================================
