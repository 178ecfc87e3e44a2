-------------------------------- MODULE Mpx --------------------------------
(***************************************************************************)
(* The input multiplexer (tty.c) and the programs run in windows           *)
(* (ushell.c).                                                             *)
(*                                                                         *)
(* Without a program the editor reads its keys from the terminal.  From    *)
(* the start of the first program to the end of the last one it reads      *)
(* packets from one pipe.  A keyboard task, and for each program a copier, *)
(* write them: each sends one packet and waits for its acknowledgement     *)
(* before the next.  The editor acknowledges a packet not when it takes it *)
(* but the next time it flushes its output (ttflsh), and then looks        *)
(* whether there is a next packet already (`have').                        *)
(***************************************************************************)
EXTENDS Integers, Sequences, FiniteSets

CONSTANTS
  Bufs,       (* the buffers that programs are run in                      *)
  NPROC,      (* number of slots for programs                              *)
  Chunk,      (* most items of output in one packet (1024 bytes)           *)
  Bells,      (* the items, by number, that ring the bell                  *)
  obufsiz,    (* size of the output buffer of the terminal                 *)
  MaxSteps,   (* most steps of one command; more than one in a macro only  *)
  MaxKeys,    (* bound on the keys typed                                   *)
  MaxOut      (* bound on the items written in one buffer                  *)

ASSUME SlotAssumption == NPROC \in Nat \ {0} /\ Chunk \in Nat \ {0}
ASSUME OutputAssumption == obufsiz \in Nat \ {0} /\ Bells \subseteq Nat
ASSUME MpxBoundAssumption == MaxSteps \in Nat /\ MaxKeys \in Nat /\ MaxOut \in Nat

Slots == 1 .. NPROC     \* asyncs
Kbd == 0                \* pack.who of a packet of the keyboard task
Tasks == {Kbd} \cup Slots
NO_MORE_DATA == -1
CONSTANT NULL
ASSUME NullAssumption == NULL \notin Bufs

VARIABLES
  typed,      (* number of keys typed so far; a key is its number          *)
  tty,        (* the keys waiting in the terminal                          *)
  kbd,        (* the keyboard task: "off", "read", "write" or "wait"       *)
  key,        (* the key the keyboard task has read                        *)
  prog,       (* prog[b]: the program of b: "none", "runs" or "exited"     *)
  written,    (* written[b]: number of items the programs of b have written*)
  copied,     (* copied[b]: of these, the number a copier has read         *)
  copier,     (* copier[m]: "none", "read" or "wait"                       *)
  acks,       (* acks[t]: acknowledgements in the pipe to task t           *)
  pipe,       (* mpxsfd to mpxfd: the packets on their way to the editor   *)
  exiting,    (* copiers that have sent their last packet, still running   *)
  zombies     (* children of the editor that have ended, not waited for    *)

VARIABLES
  at,         (* where the editor is                                       *)
  then,       (* where it goes after a flush                               *)
  have,       (* the last flush has found a packet or key                  *)
  havec,      (* that key, when there is no multiplexer                    *)
  pack,       (* header of the last packet read                            *)
  data,       (* the array pack.data                                       *)
  tty_accept, (* pack.ch of a packet to be acknowledged, or NO_MORE_DATA   *)
  ackkbd,     (* is the multiplexer on?  (ackkbd # -1)                     *)
  nmpx,       (* number of programs                                        *)
  func,       (* func[m]: the buffer that slot m serves, or NULL           *)
  obj,        (* the buffer the current call is for                        *)
  x, siz,     (* position in data and number of items, in cdata            *)
  obufp,      (* bells in the output buffer                                *)
  steps,      (* steps taken by the current command                        *)
  used,       (* the last key that has been executed                       *)
  out         (* out[b]: the output appended to b                          *)

termVars == <<typed, tty>>
kbdVars  == <<kbd, key>>
progVars == <<prog, written>>
copyVars == <<copier, copied>>
packVars == <<have, havec, pack, data, tty_accept>>
modeVars == <<ackkbd, nmpx, func>>
callVars == <<at, then, obj, x, siz, steps>>
kidVars  == <<exiting, zombies>>
edVars   == <<packVars, modeVars, callVars, obufp, used, out>>
sideVars == <<termVars, kbdVars, progVars, copyVars>>
vars == <<sideVars, acks, pipe, kidVars, edVars>>

Item   == [buf: Bufs, n: Nat]
Packet == [who: Tasks, ch: Nat \cup {NO_MORE_DATA}, data: Seq(Item)]
Header == [who: Tasks, ch: Nat \cup {NO_MORE_DATA}, size: Nat]

(* The items i + 1 .. j that the programs of b write.                      *)
Output(b, i, j) == [k \in 1 .. j - i |-> [buf |-> b, n |-> i + k]]

Init ==
  /\ typed = 0 /\ tty = <<>> /\ kbd = "off" /\ key = 0
  /\ prog = [b \in Bufs |-> "none"] /\ written = [b \in Bufs |-> 0]
  /\ copied = [b \in Bufs |-> 0] /\ copier = [m \in Slots |-> "none"]
  /\ acks = [t \in Tasks |-> 0] /\ pipe = <<>> /\ exiting = 0 /\ zombies = 0
  /\ at = "ack" /\ then = "get" /\ have = FALSE /\ havec = 0
  /\ pack = [who |-> Kbd, ch |-> 0, size |-> 0] /\ data = <<>>
  /\ tty_accept = NO_MORE_DATA /\ ackkbd = FALSE /\ nmpx = 0
  /\ func = [m \in Slots |-> NULL] /\ obj = NULL /\ x = 0 /\ siz = 0
  /\ obufp = 0 /\ steps = 0 /\ used = 0 /\ out = [b \in Bufs |-> <<>>]

-----------------------------------------------------------------------------
(* The user, the keyboard task, the programs and their copiers.            *)

Type ==
  /\ typed < MaxKeys
  /\ typed' = typed + 1 /\ tty' = Append(tty, typed')
  /\ UNCHANGED <<kbdVars, progVars, copyVars, acks, pipe, kidVars, edVars>>

Send(who, ch, items) ==
  pipe' = Append(pipe, [who |-> who, ch |-> ch, data |-> items])

KbdRead ==
  /\ kbd = "read" /\ tty # <<>>
  /\ key' = Head(tty) /\ tty' = Tail(tty) /\ kbd' = "write"
  /\ UNCHANGED <<typed, progVars, copyVars, acks, pipe, kidVars, edVars>>

KbdWrite ==
  /\ kbd = "write"
  /\ Send(Kbd, key, <<>>) /\ kbd' = "wait"
  /\ UNCHANGED <<termVars, key, progVars, copyVars, acks, kidVars, edVars>>

KbdAck ==
  /\ kbd = "wait" /\ acks[Kbd] > 0
  /\ acks' = [acks EXCEPT ![Kbd] = @ - 1] /\ kbd' = "read"
  /\ UNCHANGED <<termVars, key, progVars, copyVars, pipe, kidVars, edVars>>

ProgWrite(b) ==
  /\ prog[b] = "runs" /\ written[b] < MaxOut
  /\ written' = [written EXCEPT ![b] = @ + 1]
  /\ UNCHANGED <<termVars, kbdVars, prog, copyVars, acks, pipe, kidVars, edVars>>

ProgExit(b) ==
  /\ prog[b] = "runs"
  /\ prog' = [prog EXCEPT ![b] = "exited"]
  /\ UNCHANGED <<termVars, kbdVars, written, copyVars, acks, pipe, kidVars, edVars>>

(* The copier of slot m reads what there is, up to the size of a packet.   *)
CopierRead(m) ==
  /\ copier[m] = "read"
  /\ LET b == func[m] IN
       \E n \in copied[b] + 1 .. written[b] :
         /\ n - copied[b] <= Chunk
         /\ Send(m, 0, Output(b, copied[b], n))
         /\ copied' = [copied EXCEPT ![b] = n]
  /\ copier' = [copier EXCEPT ![m] = "wait"]
  /\ UNCHANGED <<termVars, kbdVars, progVars, acks, kidVars, edVars>>

CopierAck(m) ==
  /\ copier[m] = "wait" /\ acks[m] > 0
  /\ acks' = [acks EXCEPT ![m] = @ - 1]
  /\ copier' = [copier EXCEPT ![m] = "read"]
  /\ UNCHANGED <<termVars, kbdVars, progVars, copied, pipe, kidVars, edVars>>

\* Faulty variant: the end of the program is reported without its last output.
CopierEof_Early(m) ==
  /\ copier[m] = "read" /\ prog[func[m]] = "exited"
  /\ Send(m, NO_MORE_DATA, <<>>)
  /\ copier' = [copier EXCEPT ![m] = "none"] /\ exiting' = exiting + 1
  /\ UNCHANGED <<termVars, kbdVars, progVars, copied, acks, zombies, edVars>>

\* Faulty variant: the copier goes on after its last packet.
CopierEof_Stay(m) ==
  /\ copier[m] = "read"
  /\ prog[func[m]] = "exited" /\ copied[func[m]] = written[func[m]]
  /\ Send(m, NO_MORE_DATA, <<>>)
  /\ copier' = [copier EXCEPT ![m] = "wait"]
  /\ UNCHANGED <<termVars, kbdVars, progVars, copied, acks, kidVars, edVars>>

(* When the program has ended and its output is read.                      *)
CopierEof(m) ==
  /\ copier[m] = "read"
  /\ prog[func[m]] = "exited" /\ copied[func[m]] = written[func[m]]
  /\ Send(m, NO_MORE_DATA, <<>>)
  /\ copier' = [copier EXCEPT ![m] = "none"] /\ exiting' = exiting + 1
  /\ UNCHANGED <<termVars, kbdVars, progVars, copied, acks, zombies, edVars>>

CopierExit ==
  /\ exiting > 0
  /\ exiting' = exiting - 1 /\ zombies' = zombies + 1
  /\ UNCHANGED <<sideVars, acks, pipe, edVars>>

-----------------------------------------------------------------------------
(* The editor.                                                             *)

Flush(next) == at' = "ack" /\ then' = next

(* The first half of ttflsh: the output is written and the last packet     *)
(* acknowledged, unless it has been prefetched only.                       *)
AckDue == ackkbd /\ tty_accept # NO_MORE_DATA /\ ~have

\* Faulty variant: every acknowledgement goes to the keyboard task.
AckTo_Kbd == Kbd

AckTo == IF pack.who # Kbd /\ func[pack.who] # NULL THEN pack.who ELSE Kbd

Ack ==
  /\ at = "ack"
  /\ acks' = IF AckDue THEN [acks EXCEPT ![AckTo] = @ + 1] ELSE acks
  /\ tty_accept' = IF AckDue THEN NO_MORE_DATA ELSE tty_accept
  /\ obufp' = 0 /\ at' = "poll"
  /\ UNCHANGED <<sideVars, pipe, kidVars, have, havec, pack, data, modeVars,
                 then, obj, x, siz, steps, used, out>>

(* A packet is read into the one packet of the editor; what lies behind    *)
(* its data in the array stays.                                            *)
Read(p) ==
  /\ pipe # <<>> /\ pipe' = Tail(pipe)
  /\ pack' = [who |-> p.who, ch |-> p.ch, size |-> Len(p.data)]
  /\ data' = p.data \o SubSeq(data, Len(p.data) + 1, Len(data))
  /\ tty_accept' = p.ch

(* The second half: is there a next packet, or key?                        *)
Poll ==
  /\ at = "poll" /\ at' = then
  /\ \/ have /\ UNCHANGED <<pipe, tty, packVars>>
     \/ /\ ~have /\ ackkbd
        /\ IF pipe = <<>> THEN UNCHANGED <<pipe, packVars>>
           ELSE Read(Head(pipe)) /\ have' = TRUE /\ UNCHANGED havec
        /\ UNCHANGED tty
     \/ /\ ~have /\ ~ackkbd
        /\ IF tty = <<>> THEN UNCHANGED <<tty, have, havec>>
           ELSE havec' = Head(tty) /\ tty' = Tail(tty) /\ have' = TRUE
        /\ UNCHANGED <<pipe, pack, data, tty_accept>>
  /\ UNCHANGED <<typed, kbdVars, progVars, copyVars, acks, kidVars, modeVars,
                 then, obj, x, siz, steps, obufp, used, out>>

Execute(k) == at' = "cmd" /\ used' = k /\ steps' = 0

(* ttgetc without the multiplexer.                                         *)
GetKey ==
  /\ at = "get" /\ ~ackkbd
  /\ \/ have /\ Execute(havec) /\ UNCHANGED <<tty, havec>>
     \/ /\ ~have /\ tty # <<>>
        /\ havec' = Head(tty) /\ tty' = Tail(tty) /\ Execute(havec')
  /\ have' = FALSE
  /\ UNCHANGED <<typed, kbdVars, progVars, copyVars, acks, pipe, kidVars, pack,
                 data, tty_accept, modeVars, then, obj, x, siz, obufp, out>>

(* ttgetc with it: the packet is handed on to whom it is for.              *)
Dispatch ==
  \/ /\ pack'.who = Kbd /\ pack'.ch # NO_MORE_DATA
     /\ Execute(tty_accept') /\ UNCHANGED <<obj, x, siz>>
  \/ /\ pack'.who # Kbd /\ pack'.ch # NO_MORE_DATA
     /\ IF func[pack'.who] = NULL THEN at' = "ack" /\ UNCHANGED <<obj, x, siz>>
        ELSE at' = "data" /\ obj' = func[pack'.who] /\ x' = 0 /\ siz' = pack'.size
     /\ UNCHANGED <<used, steps>>
  \/ /\ pack'.who # Kbd /\ pack'.ch = NO_MORE_DATA
     /\ at' = "died" /\ UNCHANGED <<obj, x, siz, used, steps>>

\* Faulty variant: the packet that was prefetched is handed on again.
GetPacket_Keep ==
  /\ at = "get" /\ ackkbd
  /\ IF have THEN UNCHANGED <<pipe, pack, data, tty_accept>> ELSE Read(Head(pipe))
  /\ have' = have /\ Dispatch
  /\ UNCHANGED <<sideVars, acks, kidVars, havec, modeVars, then, obufp, out>>

GetPacket ==
  /\ at = "get" /\ ackkbd
  /\ IF have THEN UNCHANGED <<pipe, pack, data, tty_accept>> ELSE Read(Head(pipe))
  /\ have' = FALSE /\ Dispatch
  /\ UNCHANGED <<sideVars, acks, kidVars, havec, modeVars, then, obufp, out>>

(* cdata, one item after the other; then edupd, and ttgetc goes on.  The   *)
(* bell goes to the output buffer, which is flushed when it is full.       *)
Data ==
  /\ at = "data" /\ x < siz
  /\ x' = x + 1
  /\ out' = [out EXCEPT ![obj] = Append(@, data[x + 1])]
  /\ obufp' = IF data[x + 1].n \in Bells THEN obufp + 1 ELSE obufp
  /\ IF obufp' = obufsiz THEN Flush("data") ELSE UNCHANGED <<at, then>>
  /\ UNCHANGED <<sideVars, acks, pipe, kidVars, packVars, modeVars, obj, siz,
                 steps, used>>

DataEnd ==
  /\ at = "data" /\ x = siz
  /\ Flush("get")
  /\ UNCHANGED <<sideVars, acks, pipe, kidVars, packVars, modeVars, obj, x, siz,
                 steps, obufp, used, out>>

(* mpxend: the keyboard task is killed and waited for, and what is in the  *)
(* pipe is lost.                                                           *)
mpxend ==
  /\ kbd' = "off" /\ ackkbd' = FALSE /\ pipe' = <<>>
  /\ havec' = IF have THEN pack.ch ELSE havec

(* mpxdied up to its wait.                                                 *)
Died ==
  /\ at = "died" /\ at' = "reap"
  /\ nmpx' = nmpx - 1
  /\ IF nmpx' = 0 THEN mpxend ELSE UNCHANGED <<ackkbd, kbd, pipe, havec>>
  /\ UNCHANGED <<termVars, key, progVars, copyVars, acks, kidVars, have, pack,
                 data, tty_accept, func, then, obj, x, siz, steps, obufp, used, out>>

(* The editor waits for any child; cdone; the slot is free again.          *)
Reap ==
  /\ at = "reap" /\ zombies > 0
  /\ zombies' = zombies - 1
  /\ prog' = [prog EXCEPT ![func[pack.who]] = "none"]
  /\ func' = [func EXCEPT ![pack.who] = NULL]
  /\ Flush("get")
  /\ UNCHANGED <<termVars, kbdVars, written, copyVars, acks, pipe, exiting, packVars,
                 ackkbd, nmpx, obj, x, siz, steps, obufp, used, out>>

-----------------------------------------------------------------------------
(* The commands that concern the multiplexer.                              *)

More == at = "cmd" /\ steps < MaxSteps

\* Faulty variant: a slot is not looked at before it is taken.
FreeSlots_Any == Slots

FreeSlots == {m \in Slots : func[m] = NULL}

(* doushell and mpxmk up to the flush.                                     *)
Run(b) ==
  /\ More
  /\ IF prog[b] = "none" /\ FreeSlots # {}
     THEN Flush("fork") /\ obj' = b /\ UNCHANGED steps
     ELSE steps' = MaxSteps /\ UNCHANGED <<at, then, obj>>
  /\ UNCHANGED <<sideVars, acks, pipe, kidVars, packVars, modeVars, x, siz,
                 obufp, used, out>>

(* mpxresume: a new keyboard task with a new pipe for its acknowledgements.*)
mpxresume ==
  /\ tty_accept' = NO_MORE_DATA /\ have' = FALSE
  /\ kbd' = "read" /\ key' = 0

(* mpxmk from there on.                                                    *)
Fork ==
  /\ at = "fork" /\ at' = "cmd" /\ steps' = steps + 1
  /\ nmpx' = nmpx + 1 /\ ackkbd' = TRUE
  /\ \E m \in FreeSlots :
       /\ \A n \in FreeSlots : m <= n
       /\ func' = [func EXCEPT ![m] = obj]
       /\ copier' = [copier EXCEPT ![m] = "read"]
       /\ acks' = [t \in Tasks |-> IF t = m \/ (t = Kbd /\ ~ackkbd) THEN 0 ELSE acks[t]]
  /\ IF ackkbd THEN UNCHANGED <<tty_accept, have, kbdVars>> ELSE mpxresume
  /\ prog' = [prog EXCEPT ![obj] = "runs"]
  /\ UNCHANGED <<termVars, written, copied, pipe, kidVars, havec, pack, data,
                 then, obj, x, siz, obufp, used, out>>

(* ttsusp: the keyboard task is killed and waited for; the flush           *)
(* acknowledges but does not look for input (leave), and what it sends to  *)
(* the keyboard task goes to a closed pipe; a new task is started.         *)
Suspend ==
  /\ More /\ steps' = steps + 1
  /\ IF ackkbd
     THEN /\ mpxresume
          /\ acks' = [t \in Tasks |-> CASE t = Kbd -> 0
                                        [] t # Kbd /\ AckDue /\ t = AckTo -> acks[t] + 1
                                        [] OTHER -> acks[t]]
     ELSE UNCHANGED <<acks, tty_accept, have, kbdVars>>
  /\ UNCHANGED <<termVars, progVars, copyVars, pipe, kidVars, havec, pack, data,
                 modeVars, at, then, obj, x, siz, obufp, used, out>>

(* The command is over and edloop updates the screen.                      *)
CmdEnd ==
  /\ at = "cmd" /\ Flush("get")
  /\ UNCHANGED <<sideVars, acks, pipe, kidVars, packVars, modeVars, obj, x, siz,
                 steps, obufp, used, out>>

-----------------------------------------------------------------------------
KbdTask == KbdRead \/ KbdWrite \/ KbdAck
Copier(m) == CopierRead(m) \/ CopierAck(m) \/ CopierEof(m)
Program(b) == ProgWrite(b) \/ ProgExit(b)
Command == (\E b \in Bufs : Run(b)) \/ Fork \/ Suspend \/ CmdEnd
Editor ==
  \/ Ack \/ Poll \/ GetKey \/ GetPacket \/ Data \/ DataEnd \/ Died \/ Reap
  \/ Command

Next ==
  \/ Type \/ KbdTask \/ Editor
  \/ \E b \in Bufs : Program(b)
  \/ CopierExit
  \/ \E m \in Slots : Copier(m)

Spec == Init /\ [][Next]_vars

(* The operating system runs every process that can run.                   *)
FairSpec ==
  Spec /\ WF_vars(Editor) /\ WF_vars(KbdTask) /\ WF_vars(CopierExit)
       /\ \A m \in Slots : WF_vars(Copier(m))

-----------------------------------------------------------------------------
(* The variables have their types.                                         *)
TypeOK ==
  /\ typed \in Nat /\ tty \in Seq(Nat) /\ key \in Nat
  /\ kbd \in {"off", "read", "write", "wait"}
  /\ prog \in [Bufs -> {"none", "runs", "exited"}]
  /\ written \in [Bufs -> Nat] /\ copied \in [Bufs -> Nat]
  /\ copier \in [Slots -> {"none", "read", "wait"}]
  /\ acks \in [Tasks -> Nat] /\ pipe \in Seq(Packet)
  /\ exiting \in Nat /\ zombies \in Nat
  /\ at \in {"ack", "poll", "get", "data", "died", "reap", "cmd", "fork"}
  /\ then \in {"get", "data", "fork"}
  /\ have \in BOOLEAN /\ havec \in Nat /\ pack \in Header /\ data \in Seq(Item)
  /\ tty_accept \in Nat \cup {NO_MORE_DATA}
  /\ ackkbd \in BOOLEAN /\ nmpx \in Nat
  /\ func \in [Slots -> Bufs \cup {NULL}] /\ obj \in Bufs \cup {NULL}
  /\ x \in 0 .. siz /\ siz \in 0 .. Len(data) /\ obufp \in Nat
  /\ steps \in Nat /\ used \in Nat /\ out \in [Bufs -> Seq(Item)]

(* Where the packet a task waits for can be: in the pipe, with the editor, *)
(* or acknowledged.                                                        *)
From(p, t) == \E i \in 1 .. Len(p) : p[i].who = t
Single(p, t) == \A i, j \in 1 .. Len(p) : p[i].who = t /\ p[j].who = t => i = j
Held(t)   == tty_accept # NO_MORE_DATA /\ pack.who = t
Token(t, waits) ==
  /\ acks[t] = IF waits /\ ~From(pipe, t) /\ ~Held(t) THEN 1 ELSE 0
  /\ Held(t) => waits /\ ~From(pipe, t)

(* "After each packet it sends to joe it waits for an acknowledgement from *)
(* joe" (tty.c:1105): a copier that waits has exactly one packet or        *)
(* acknowledgement under way, and one that reads has none.  One packet     *)
(* lost, and its window is dead for ever; one too many, and the copier     *)
(* gets ahead.                                                             *)
CopierCredit ==
  \A m \in Slots : copier[m] \in {"read", "wait"} =>
    /\ Token(m, copier[m] = "wait") /\ Single(pipe, m)
    /\ From(pipe, m) => copier[m] = "wait"

(* The same for the keyboard task, which comes and goes with the           *)
(* multiplexer and is replaced when the editor is suspended.               *)
KbdCredit ==
  IF kbd = "off" THEN ~From(pipe, Kbd) /\ ~(Held(Kbd) /\ ackkbd)
  ELSE Token(Kbd, kbd = "wait") /\ Single(pipe, Kbd) /\ (From(pipe, Kbd) => kbd = "wait")

(* A packet under way belongs to the program that now has the slot, and    *)
(* the buffer it is for is the one the program was started in (a slot is   *)
(* reused as soon as the editor has seen the end of its program).          *)
PacketsOwned ==
  \A i \in 1 .. Len(pipe) : pipe[i].who # Kbd =>
    /\ func[pipe[i].who] # NULL
    /\ \A j \in 1 .. Len(pipe[i].data) : pipe[i].data[j].buf = func[pipe[i].who]

(* The multiplexer is on exactly while programs are counted, the keyboard  *)
(* task runs exactly while it is on, and programs are counted by the slots *)
(* in use; no two slots serve one buffer.                                  *)
Occupied == {m \in Slots : func[m] # NULL}
ModeConsistent ==
  /\ (ackkbd <=> nmpx > 0) /\ (ackkbd <=> kbd # "off")
  /\ nmpx = Cardinality(Occupied) - (IF at = "reap" THEN 1 ELSE 0)
  /\ \A m, n \in Occupied : func[m] = func[n] => m = n

(* mpxdied waits for any child, not for the one that died: there is always *)
(* one that has ended or is about to, so that the editor does not hang.    *)
WaitReturns == at = "reap" => exiting + zombies > 0

(* Keys are executed in the order they were typed and none is executed     *)
(* twice, however the source of the keys changes.                          *)
KeysInOrder == [][at = "get" /\ at' = "cmd" => used' > used]_vars

(* What a window with a program in it shows, seen from outside.            *)
Window == INSTANCE ShellWindow WITH
  Items <- [buf: Bufs, n: 1 .. MaxOut],
  sent  <- [b \in Bufs |-> Output(b, 0, written[b])],
  shown <- out,
  open  <- [b \in Bufs |-> prog[b] # "none"]

(* "Any output from the shell or from commands executed in the shell is    *)
(* appended to the shell window" (joe.1.in:924): in order, nothing twice,  *)
(* and all of it before the program is taken for ended.                    *)
ShowsOutput == Window!Safe

(* Whatever the programs and the user do, the editor comes back to its     *)
(* input.                                                                  *)
EditorReturns == (at # "get") ~> (at = "get")

(* When a program has ended, its buffer and its slot become free again.    *)
WindowsClose == \A b \in Bufs : (prog[b] = "exited") ~> (prog[b] = "none")

(* Both, and what a program has written appears in the end.                *)
EverythingEnds == EditorReturns /\ WindowsClose /\ Window!Fairness

-----------------------------------------------------------------------------
(* The inductive invariant of an editor whose commands start a program or  *)
(* suspend the editor, but not both (MaxSteps <= 1).                       *)

(* A flush on the way to mpxmk has found a free slot for the buffer.       *)
Inside(there) == at = there \/ (at \in {"ack", "poll"} /\ then = there)

(* A prefetched or dispatched packet that is the last one of its program.  *)
LastTaken ==
  at \in {"died", "reap"} \/ (have /\ ackkbd /\ pack.ch = NO_MORE_DATA)

Control ==
  /\ pack.size <= Len(data)
  /\ ~ackkbd => tty_accept = NO_MORE_DATA /\ pipe = <<>>
  /\ have /\ ackkbd => tty_accept = pack.ch
  /\ at \in {"poll", "get"} /\ ~have => tty_accept = NO_MORE_DATA
  /\ at \in {"died", "reap"} => ~have /\ tty_accept = NO_MORE_DATA
  /\ at = "cmd" /\ steps = 0 => ~have /\ (ackkbd => Held(Kbd))
  /\ Inside("data") => obj \in Bufs
  /\ Inside("fork") => obj \in Bufs /\ prog[obj] = "none" /\ FreeSlots # {}

SlotsInv ==
  \A m \in Slots :
    /\ copier[m] # "none" => func[m] # NULL
    /\ func[m] # NULL => prog[func[m]] # "none"
    /\ Held(m) => copier[m] = "wait"
    /\ Single(pipe, m)

LastPacket ==
  /\ \A i \in 1 .. Len(pipe) :
       IF pipe[i].who = Kbd THEN pipe[i].ch # NO_MORE_DATA
       ELSE (pipe[i].ch = NO_MORE_DATA <=> copier[pipe[i].who] = "none")
  /\ LastTaken =>
       /\ pack.who # Kbd /\ pack.ch = NO_MORE_DATA /\ ~From(pipe, pack.who)
       /\ func[pack.who] # NULL /\ copier[pack.who] = "none"

(* The copiers that have ended, or are about to, and not been waited for.  *)
Ended == {m \in Occupied : copier[m] = "none"}
Children == exiting + zombies = Cardinality(Ended)

MpxInv ==
  /\ CopierCredit /\ KbdCredit /\ PacketsOwned /\ ModeConsistent
  /\ Control /\ SlotsInv /\ LastPacket /\ Children

(* The keys on their way to the editor are in the order they were typed:   *)
(* one that the keyboard task or the editor has is behind those executed   *)
(* and before those that wait in the terminal.                             *)
Ahead(k) == used < k /\ k <= typed /\ \A i \in 1 .. Len(tty) : k < tty[i]
KeyOrder ==
  /\ used <= typed
  /\ \A i \in 1 .. Len(tty) : used < tty[i] /\ tty[i] <= typed
  /\ \A i, j \in 1 .. Len(tty) : i < j => tty[i] < tty[j]
  /\ kbd = "write" => Ahead(key)
  /\ \A i \in 1 .. Len(pipe) : pipe[i].who = Kbd => Ahead(pipe[i].ch)
  /\ have /\ ackkbd /\ pack.who = Kbd => Ahead(pack.ch)
  /\ have /\ ~ackkbd => Ahead(havec)

(* Nothing flushes while cdata runs: the bells of one packet do not fill   *)
(* the output buffer (Chunk < obufsiz).                                    *)
Unflushed ==
  /\ then # "data"
  /\ at # "ack" => obufp <= IF at = "data" THEN x ELSE 0
  /\ at = "data" => /\ ~have /\ Held(pack.who) /\ pack.who # Kbd
                    /\ obj = func[pack.who] /\ siz = pack.size /\ siz <= Chunk

(* What a copier has read and its buffer does not show yet is what its one *)
(* packet holds, in the pipe or with the editor.                           *)
Unshown(b) == copied[b] - Len(out[b])
Prefetched(m) == have /\ ackkbd /\ pack.who = m
Unpacked(m)   == at = "data" /\ pack.who = m
Holds(b, skip, size) ==
  /\ size - skip = Unshown(b)
  /\ \A k \in 1 .. Unshown(b) : data[skip + k] = [buf |-> b, n |-> Len(out[b]) + k]
InBuffer(b) ==
  /\ out[b] = Output(b, 0, Len(out[b]))
  /\ Len(out[b]) <= copied[b] /\ copied[b] <= written[b] /\ written[b] <= MaxOut
  /\ prog[b] = "none" => Len(out[b]) = written[b]
UnderWay(m, b) ==
  /\ copier[m] = "none" => prog[b] = "exited" /\ copied[b] = written[b] /\ Unshown(b) = 0
  /\ \A i \in 1 .. Len(pipe) : pipe[i].who = m =>
       pipe[i].data = Output(b, Len(out[b]), copied[b]) /\ Unshown(b) <= Chunk
  /\ Prefetched(m) => Holds(b, 0, pack.size) /\ Unshown(b) <= Chunk
  /\ Unpacked(m) => Holds(b, x, siz)
  /\ From(pipe, m) \/ Prefetched(m) \/ Unpacked(m) \/ Unshown(b) = 0
Delivery ==
  /\ \A b \in Bufs : InBuffer(b)
  /\ \A m \in Slots : func[m] # NULL => UnderWay(m, func[m])

(* Whatever is interleaved, the editor holds for each task that waits for  *)
(* it exactly one packet or acknowledgement, knows whose the packets are,  *)
(* runs the multiplexer exactly while programs run, and never waits for a  *)
(* child that is not there; keys and output are on their way in order.     *)
MpxSafety ==
  /\ TypeOK /\ WaitReturns /\ MpxInv /\ KeyOrder
  /\ Chunk < obufsiz => Unflushed /\ Delivery
=============================================================================
