-------------------------------- MODULE VFile --------------------------------
(***************************************************************************)
(* Virtual memory (src/vfile.c): the segments of all buffers are pages of  *)
(* one temporary file, of which a limited number is in memory.  A page is  *)
(* there as long as somebody has it locked; an unlocked one may have to    *)
(* make room for another, after its changes were written to the file.      *)
(***************************************************************************)
EXTENDS Integers, FiniteSets

CONSTANTS
  MaxPages,   \* bound on the pages that are allocated
  Frames,     \* pages that memory holds (maxvalloc)
  Data, Zero, \* what a page can hold; what a new page holds
  Torn,       \* a page of the file that was not written as it should have been
  MaxLocks    \* bound on the locks of one page

ASSUME DataAssumption == Zero \in Data /\ Torn \notin Data
ASSUME BoundsAssumption == MaxPages \in Nat /\ Frames \in Nat /\ MaxLocks \in Nat

VARIABLES
  status,       \* "open", "closed" (vclose) or "dead" (exit)
  alloc,        \* pages given out by my_valloc
  size, disk,   \* the temporary file: its length and its pages
  here,         \* the pages in memory (htab)
  data, count, dirty,
  held, memory, \* what the callers have locked and have written
  lost          \* pages that came back from the file with other contents:
                \* a history variable, for the properties

vars == <<status, alloc, size, disk, here, data, count, dirty, held, memory, lost>>

Addr == 0..MaxPages - 1
Stored(a) == IF a < size THEN disk[a] ELSE Zero

Init ==
  /\ status = "open" /\ alloc = 0 /\ size = 0 /\ here = {} /\ lost = {}
  /\ disk = [a \in Addr |-> Zero] /\ data = [a \in Addr |-> Zero] /\ memory = [a \in Addr |-> Zero]
  /\ count = [a \in Addr |-> 0] /\ held = [a \in Addr |-> 0]
  /\ dirty = [a \in Addr |-> FALSE]

my_valloc ==
  /\ status = "open" /\ alloc < MaxPages
  /\ alloc' = alloc + 1
  /\ UNCHANGED <<status, size, disk, here, data, count, dirty, held, memory, lost>>

(* vflsh: pages behind the end of the file are written even when they are  *)
(* locked or clean, the others when they are changed and not locked; in    *)
(* the order of their addresses, until open or lseek fails (before page    *)
(* stop).  The result of a write is not looked at: the pages of bad are    *)
(* torn, and are taken for written all the same; so is a hole in the file  *)
(* that no write behind it has filled.                                     *)
ToWrite == {a \in here : a >= size \/ (dirty[a] /\ count[a] = 0)}
Flushed(stop) == {a \in ToWrite : a < stop}
Hole(a, W, bad, n) == a \in size .. n - 1 /\ a \notin W /\ \A b \in W : b > a => b \in bad
vflsh(W) ==
  \E n \in size..MaxPages, bad \in SUBSET Addr :
    /\ \A a \in W : a < n
    /\ n = size \/ n - 1 \in W
    /\ \A a \in bad : a \in W \/ Hole(a, W, bad, n)
    /\ size' = n
    /\ disk' = [a \in Addr |-> CASE a \in bad -> Torn
                               [] a \in W \ bad -> data[a]
                               [] OTHER -> Stored(a)]

(* Faulty variant of Evictable: changed pages too.                         *)
Evictable_Any(W) == {a \in here : count[a] = 0}
Evictable(W) == {a \in here : count[a] = 0 /\ (a \in W \/ ~dirty[a])}

(* gotit: the page is read from the file, after any flush, or empty.  The  *)
(* result of the read is not looked at either: after a failure, or from a  *)
(* torn page, the contents can be anything.  A page that had to go leaves  *)
(* nothing behind.                                                         *)
Load(a, W, gone) ==
  /\ here' = (here \ gone) \cup {a}
  /\ \E d \in Data :
       /\ d = Stored(a)' \/ a < size'
       /\ data' = [p \in Addr |-> IF p = a THEN d ELSE IF p \in gone THEN Zero ELSE data[p]]
       /\ lost' = IF d = Stored(a)' THEN lost ELSE lost \cup {a}
  /\ count' = [count EXCEPT ![a] = 1]
  /\ dirty' = [p \in Addr |-> IF p = a \/ p \in W THEN FALSE ELSE dirty[p]]
  /\ held' = [held EXCEPT ![a] = @ + 1]
  /\ UNCHANGED <<status, alloc, memory>>

LockThere(a) ==
  /\ status = "open" /\ a \in here /\ held[a] < MaxLocks
  /\ count' = [count EXCEPT ![a] = @ + 1]
  /\ held' = [held EXCEPT ![a] = @ + 1]
  /\ UNCHANGED <<status, alloc, size, disk, here, data, dirty, memory, lost>>
LockFree(a) ==
  /\ status = "open" /\ a < alloc /\ a \notin here /\ Cardinality(here) < Frames
  /\ UNCHANGED <<size, disk>> /\ Load(a, {}, {})
(* No room, or no memory for what room there is.                           *)
LockClean(a) ==
  /\ status = "open" /\ a < alloc /\ a \notin here
  /\ UNCHANGED <<size, disk>>
  /\ \E e \in Evictable({}) : Load(a, {}, {e})
LockFlush(a) ==
  /\ status = "open" /\ a < alloc /\ a \notin here /\ Evictable({}) = {}
  /\ \E stop \in 0..MaxPages :
       /\ vflsh(Flushed(stop))
       /\ \E e \in Evictable(Flushed(stop)) : Load(a, Flushed(stop), {e})

(* The pages in memory are given back.                                     *)
Released(how) ==
  /\ status' = how /\ here' = {}
  /\ data' = [a \in Addr |-> Zero] /\ dirty' = [a \in Addr |-> FALSE]
  /\ count' = [a \in Addr |-> 0] /\ held' = [a \in Addr |-> 0]
  /\ UNCHANGED <<alloc, size, disk, memory, lost>>

(* exit: every page is locked, or cannot be written; or reading fails.     *)
Dies ==
  /\ status = "open"
  /\ \E a \in Addr, stop \in 0..MaxPages :
       a < alloc /\ a \notin here /\ (a < size \/ Evictable(Flushed(stop)) = {})
  /\ Released("dead")

(* A caller writes to a page it has locked, and says so (vchanged).        *)
vchanged(a, v) ==
  /\ status = "open" /\ held[a] > 0
  /\ data' = [data EXCEPT ![a] = v]
  /\ dirty' = [dirty EXCEPT ![a] = TRUE]
  /\ memory' = [memory EXCEPT ![a] = v]
  /\ UNCHANGED <<status, alloc, size, disk, here, count, held, lost>>
vunlock(a) ==
  /\ status = "open" /\ held[a] > 0
  /\ count' = [count EXCEPT ![a] = @ - 1]
  /\ held' = [held EXCEPT ![a] = @ - 1]
  /\ UNCHANGED <<status, alloc, size, disk, here, data, dirty, memory, lost>>
vclose == status = "open" /\ Released("closed")

Next ==
  \/ my_valloc \/ Dies \/ vclose
  \/ \E a \in Addr :
       \/ LockThere(a) \/ LockFree(a) \/ LockClean(a) \/ LockFlush(a) \/ vunlock(a)
       \/ \E v \in Data : vchanged(a, v)

Spec == Init /\ [][Next]_vars

-----------------------------------------------------------------------------
(* The callers see a plain memory: a page in memory holds what was written *)
(* to it last, one that is not holds it in the file, and a page that       *)
(* somebody has locked is in memory (vfile.c:22-331), whatever is evicted, *)
(* written early, or kept back because the file cannot be opened.  Lost is *)
(* a page only when it was torn and then evicted as it was, or when        *)
(* reading it failed: the results of read and write are not looked at      *)
(* (vfile.c:79, 82, 249, 252).                                             *)
Lost == lost \cup {a \in Addr \ here : Stored(a) = Torn}
Present == \A a \in Addr : held[a] > 0 => a \in here /\ count[a] = held[a]
Kept == \A a \in Addr \ Lost : memory[a] = IF a \in here THEN data[a] ELSE Stored(a)
PlainMemory == status = "open" => Present /\ Kept

(* What makes it so: a clean page is as the file has it, or torn there.    *)
TypeOK ==
  /\ status \in {"open", "closed", "dead"}
  /\ alloc \in 0..MaxPages /\ size \in 0..MaxPages /\ here \subseteq Addr /\ lost \subseteq Addr
  /\ disk \in [Addr -> Data \cup {Torn}]
  /\ data \in [Addr -> Data] /\ memory \in [Addr -> Data]
  /\ count \in [Addr -> Nat] /\ held \in [Addr -> Nat] /\ dirty \in [Addr -> BOOLEAN]
CleanIsStored == \A a \in here \ lost : ~dirty[a] => Stored(a) \in {data[a], Torn}
Counted == \A a \in here : count[a] = held[a]
IInv == TypeOK /\ (status = "open" => Present /\ Kept /\ CleanIsStored /\ Counted)
=============================================================================
