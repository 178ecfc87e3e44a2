----------------------------- MODULE VFileProofs -----------------------------
(***************************************************************************)
(* The virtual memory is a plain memory to its callers, for any number of  *)
(* pages, frames and locks.                                                *)
(***************************************************************************)
EXTENDS VFile, TLAPS

Sound == Present /\ Kept /\ CleanIsStored /\ Counted

LEMMA InitSafe == Init => IInv
  <1> SUFFICES ASSUME Init PROVE IInv
    OBVIOUS
  <1> USE DataAssumption, BoundsAssumption DEF Init
  <1>1. TypeOK
    BY DEF TypeOK, Addr
  <1>2. Sound
    BY DEF Sound, Present, Kept, CleanIsStored, Counted, Stored, Addr
  <1> QED
    BY <1>1, <1>2 DEF IInv, Sound

(* A flush, complete or not, successful or not, stores the pages it writes *)
(* or leaves them torn; what the file holds of the others it leaves alone, *)
(* or it is torn too.                                                      *)
LEMMA FlushStores ==
  ASSUME TypeOK, NEW W \in SUBSET Addr, vflsh(W), NEW a \in Addr
  PROVE  (Stored(a))' \in {IF a \in W THEN data[a] ELSE Stored(a), Torn}
  <1>1. PICK n \in size..MaxPages, bad \in SUBSET Addr :
          /\ \A p \in W : p < n
          /\ \A p \in bad : p \in W \/ Hole(p, W, bad, n)
          /\ size' = n
          /\ disk' = [p \in Addr |-> CASE p \in bad -> Torn
                                    [] p \in W \ bad -> data[p]
                                    [] OTHER -> Stored(p)]
    BY DEF vflsh
  <1>2. size \in Int /\ size' \in Int /\ size' >= size /\ a \in Int
    BY <1>1, BoundsAssumption DEF TypeOK, Addr
  <1>3. CASE a \in bad
    <2>1. a < size'
      BY <1>1, <1>2, <1>3 DEF Hole
    <2>2. disk'[a] = Torn
      BY <1>1, <1>3
    <2> QED
      BY <2>1, <2>2 DEF Stored
  <1>4. CASE a \in W /\ a \notin bad
    <2>1. a < size'
      BY <1>1, <1>4
    <2>2. disk'[a] = data[a]
      BY <1>1, <1>4
    <2> QED
      BY <2>1, <2>2, <1>4 DEF Stored
  <1>5. CASE a \notin W /\ a \notin bad
    <2>1. disk'[a] = Stored(a)
      BY <1>1, <1>5
    <2>2. CASE a < size'
      BY <2>1, <2>2, <1>5 DEF Stored
    <2>3. CASE ~(a < size')
      <3>1. ~(a < size)
        BY <2>3, <1>2
      <3> QED
        BY <2>3, <3>1, <1>5 DEF Stored
    <2> QED
      BY <2>2, <2>3
  <1> QED
    BY <1>3, <1>4, <1>5

LEMMA FlushType ==
  ASSUME TypeOK, NEW W \in SUBSET Addr, vflsh(W)
  PROVE  size' \in 0..MaxPages /\ disk' \in [Addr -> Data \cup {Torn}]
  <1>1. PICK n \in size..MaxPages, bad \in SUBSET Addr :
          /\ size' = n
          /\ disk' = [p \in Addr |-> CASE p \in bad -> Torn
                                    [] p \in W \ bad -> data[p]
                                    [] OTHER -> Stored(p)]
    BY DEF vflsh
  <1>2. size' \in 0..MaxPages
    BY <1>1, BoundsAssumption DEF TypeOK
  <1>3. \A p \in Addr : Stored(p) \in Data \cup {Torn} /\ data[p] \in Data
    BY DataAssumption DEF TypeOK, Stored
  <1>4. \A p \in Addr : (CASE p \in bad -> Torn
                           [] p \in W \ bad -> data[p]
                           [] OTHER -> Stored(p)) \in Data \cup {Torn}
    BY <1>3
  <1> QED
    BY <1>1, <1>2, <1>4

(* A page comes in, when the file holds what FlushStores says.             *)
LEMMA LoadSafe ==
  ASSUME IInv, status = "open",
         NEW a \in Addr, a \notin here,
         NEW W \in SUBSET here, NEW gone \in SUBSET here,
         \A e \in gone : count[e] = 0 /\ (e \in W \/ ~dirty[e]),
         \A p \in Addr : (Stored(p))' \in {IF p \in W THEN data[p] ELSE Stored(p), Torn},
         size' \in 0..MaxPages, disk' \in [Addr -> Data \cup {Torn}],
         Load(a, W, gone)
  PROVE  IInv'
  <1> USE DEF Load
  <1>1. TypeOK /\ Sound
    BY DEF IInv, Sound
  <1>2. here \subseteq Addr /\ a \notin gone /\ a \notin W
    BY <1>1 DEF TypeOK
  <1>d. PICK d \in Data :
          /\ data' = [p \in Addr |-> IF p = a THEN d ELSE IF p \in gone THEN Zero ELSE data[p]]
          /\ lost' = IF d = (Stored(a))' THEN lost ELSE lost \cup {a}
    OBVIOUS
  <1>l. lost \subseteq lost' /\ lost' \subseteq lost \cup {a}
    BY <1>d
  <1>3. TypeOK'
    <2>1. count' \in [Addr -> Nat] /\ data' \in [Addr -> Data]
      BY <1>1, <1>d, DataAssumption DEF TypeOK
    <2>2. held' \in [Addr -> Nat]
      BY <1>1 DEF TypeOK
    <2>3. dirty' \in [Addr -> BOOLEAN]
      BY <1>1 DEF TypeOK
    <2>4. lost' \subseteq Addr /\ here' \subseteq Addr
      BY <1>1, <1>2, <1>l DEF TypeOK
    <2> QED
      BY <1>1, <2>1, <2>2, <2>3, <2>4 DEF TypeOK
  <1>4. held[a] = 0
    BY <1>1, <1>2 DEF Sound, Present, TypeOK
  <1>5. ASSUME NEW p \in Addr, p # a
        PROVE  /\ count'[p] = count[p] /\ held'[p] = held[p]
               /\ (p \notin gone => data'[p] = data[p]) /\ memory'[p] = memory[p]
               /\ p \in lost' <=> p \in lost
    BY <1>1, <1>5, <1>d, <1>l DEF TypeOK
  <1>6. count'[a] = 1 /\ held'[a] = 1 /\ data'[a] = d /\ a \in here'
    BY <1>1, <1>4, <1>d DEF TypeOK
  <1>7. Present'
    <2> SUFFICES ASSUME NEW p \in Addr, held'[p] > 0
                 PROVE  p \in here' /\ count'[p] = held'[p]
      BY DEF Present
    <2>1. CASE p = a
      BY <2>1, <1>6
    <2>2. CASE p # a
      <3>1. p \in here /\ count[p] = held[p] /\ held[p] > 0
        BY <2>2, <1>5, <1>1 DEF Sound, Present
      <3>2. p \notin gone
        BY <3>1
      <3> QED
        BY <2>2, <1>5, <3>1, <3>2
    <2> QED
      BY <2>1, <2>2
  <1>8. Counted'
    <2> SUFFICES ASSUME NEW p \in here' PROVE count'[p] = held'[p]
      BY DEF Counted
    <2>1. CASE p = a
      BY <2>1, <1>6
    <2>2. CASE p # a
      <3>1. p \in here /\ p \in Addr
        BY <2>2, <1>2
      <3> QED
        BY <3>1, <2>2, <1>5, <1>1 DEF Sound, Counted
    <2> QED
      BY <2>1, <2>2
  <1>9. CleanIsStored'
    <2> SUFFICES ASSUME NEW p \in here', p \notin lost', ~dirty'[p]
                 PROVE  (Stored(p))' \in {data'[p], Torn}
      BY DEF CleanIsStored
    <2>0. p \in Addr
      BY <1>2
    <2>1. CASE p = a
      <3>1. d = (Stored(a))'
        BY <2>1, <1>d
      <3> QED
        BY <3>1, <2>1, <1>6
    <2>2. CASE p # a
      <3>1. p \in here /\ p \notin lost /\ p \notin gone
        BY <2>0, <2>2, <1>5
      <3>2. dirty'[p] = IF p \in W THEN FALSE ELSE dirty[p]
        BY <2>0, <2>2
      <3>3. CASE p \in W
        BY <3>1, <3>3, <2>0, <2>2, <1>5
      <3>4. CASE p \notin W
        <4>1. Stored(p) \in {data[p], Torn}
          BY <3>1, <3>2, <3>4, <1>1 DEF Sound, CleanIsStored
        <4>2. (Stored(p))' \in {Stored(p), Torn}
          BY <3>4, <2>0
        <4> QED
          BY <3>1, <4>1, <4>2, <2>0, <2>2, <1>5
      <3> QED
        BY <3>3, <3>4
    <2> QED
      BY <2>1, <2>2
  <1>10. Kept'
    <2> SUFFICES ASSUME NEW p \in Addr, p \notin Lost'
                 PROVE  memory'[p] = IF p \in here' THEN data'[p] ELSE (Stored(p))'
      BY DEF Kept
    <2>s. p \in here' \/ (Stored(p))' # Torn
      BY DEF Lost
    <2>l. p \notin lost' /\ p \notin lost
      BY <1>l DEF Lost
    <2>0. p \notin Lost => memory[p] = IF p \in here THEN data[p] ELSE Stored(p)
      BY <1>1 DEF Sound, Kept
    <2>1. CASE p = a
      <3>1. d = (Stored(a))' /\ d # Torn
        BY <2>1, <2>l, <1>d, DataAssumption
      <3>2. (Stored(a))' = Stored(a)
        BY <3>1, <1>2
      <3>3. p \notin Lost
        BY <3>1, <3>2, <2>1, <2>l DEF Lost
      <3>4. memory'[p] = Stored(a)
        BY <3>3, <2>0, <2>1
      <3> QED
        BY <3>4, <3>1, <3>2, <2>1, <1>6
    <2>2. CASE p # a /\ p \in gone
      <3>1. p \in here /\ p \notin here' /\ p \notin Lost
        BY <2>2, <2>l DEF Lost
      <3>2. memory'[p] = data[p]
        BY <3>1, <2>0, <2>2, <1>5
      <3>3. CASE p \in W
        BY <3>1, <3>2, <3>3, <2>s
      <3>4. CASE p \notin W
        <4>1. Stored(p) \in {data[p], Torn}
          BY <3>1, <3>4, <2>2, <2>l, <1>1 DEF Sound, CleanIsStored
        <4>2. (Stored(p))' = Stored(p)
          BY <3>1, <3>4, <2>s
        <4> QED
          BY <4>1, <4>2, <3>1, <3>2, <2>s
      <3> QED
        BY <3>3, <3>4
    <2>3. CASE p # a /\ p \notin gone /\ p \in here
      <3>1. p \in here' /\ p \notin Lost
        BY <2>3, <2>l DEF Lost
      <3> QED
        BY <3>1, <2>3, <2>0, <1>5
    <2>4. CASE p # a /\ p \notin here
      <3>1. p \notin here' /\ p \notin W
        BY <2>4
      <3>2. (Stored(p))' = Stored(p)
        BY <3>1, <2>s
      <3>3. p \notin Lost
        BY <3>1, <3>2, <2>l, <2>s DEF Lost
      <3> QED
        BY <3>1, <3>2, <3>3, <2>4, <2>0, <1>5
    <2> QED
      BY <2>1, <2>2, <2>3, <2>4
  <1> QED
    BY <1>3, <1>7, <1>8, <1>9, <1>10 DEF IInv

LEMMA StepSafe == IInv /\ [Next]_vars => IInv'
  <1> SUFFICES ASSUME IInv, [Next]_vars PROVE IInv'
    OBVIOUS
  <1> USE DataAssumption, BoundsAssumption
  <1>t. TypeOK
    BY DEF IInv
  <1>1. CASE my_valloc
    BY <1>1 DEF my_valloc, IInv, TypeOK, Present, Kept, CleanIsStored, Counted, Stored, Lost, Addr
  <1>2. CASE Dies
    BY <1>2, <1>t DEF Dies, Released, IInv, TypeOK, Addr
  <1>3. CASE vclose
    BY <1>3, <1>t DEF vclose, Released, IInv, TypeOK, Addr
  <1>4. ASSUME NEW a \in Addr, LockThere(a) PROVE IInv'
    <2>1. status = "open" /\ Sound /\ a \in here
      BY <1>4 DEF LockThere, IInv, Sound
    <2>2. count' \in [Addr -> Nat] /\ held' \in [Addr -> Nat]
      BY <1>4, <1>t DEF LockThere, TypeOK
    <2>3. TypeOK'
      BY <1>4, <1>t, <2>2 DEF LockThere, TypeOK
    <2>4. Present' /\ Counted'
      BY <1>4, <1>t, <2>1 DEF LockThere, Sound, Present, Counted, TypeOK
    <2>5. Kept' /\ CleanIsStored'
      BY <1>4, <2>1 DEF LockThere, Sound, Kept, CleanIsStored, Stored, Lost
    <2> QED
      BY <2>3, <2>4, <2>5 DEF IInv
  <1>5. ASSUME NEW a \in Addr, LockFree(a) PROVE IInv'
    <2>1. \A p \in Addr : (Stored(p))' = Stored(p)
      BY <1>5 DEF LockFree, Stored
    <2> QED
      BY <1>5, <1>t, <2>1, LoadSafe DEF LockFree, TypeOK
  <1>6. ASSUME NEW a \in Addr, LockClean(a) PROVE IInv'
    <2>1. \A p \in Addr : (Stored(p))' = Stored(p)
      BY <1>6 DEF LockClean, Stored
    <2>2. PICK e \in Evictable({}) : Load(a, {}, {e})
      BY <1>6 DEF LockClean
    <2> QED
      BY <1>6, <1>t, <2>1, <2>2, LoadSafe DEF LockClean, TypeOK, Evictable
  <1>7. ASSUME NEW a \in Addr, LockFlush(a) PROVE IInv'
    <2>1. PICK stop \in 0..MaxPages :
            /\ vflsh(Flushed(stop))
            /\ \E e \in Evictable(Flushed(stop)) : Load(a, Flushed(stop), {e})
      BY <1>7 DEF LockFlush
    <2>2. PICK e \in Evictable(Flushed(stop)) : Load(a, Flushed(stop), {e})
      BY <2>1
    <2>3. Flushed(stop) \in SUBSET here /\ here \subseteq Addr
      BY <1>t DEF Flushed, ToWrite, TypeOK
    <2>4. \A p \in Addr : (Stored(p))' \in {IF p \in Flushed(stop) THEN data[p] ELSE Stored(p), Torn}
      BY <2>1, <2>3, <1>t, FlushStores
    <2>5. size' \in 0..MaxPages /\ disk' \in [Addr -> Data \cup {Torn}]
      BY <2>1, <2>3, <1>t, FlushType
    <2>6. e \in here /\ count[e] = 0 /\ (e \in Flushed(stop) \/ ~dirty[e])
      BY <2>2 DEF Evictable
    <2>7. status = "open" /\ a \notin here
      BY <1>7 DEF LockFlush
    <2> QED
      BY <2>2, <2>3, <2>4, <2>5, <2>6, <2>7, LoadSafe
  <1>8. ASSUME NEW a \in Addr, NEW v \in Data, vchanged(a, v) PROVE IInv'
    <2>1. status = "open" /\ Sound /\ a \in here
      BY <1>8 DEF vchanged, IInv, Sound, Present
    <2>2. TypeOK'
      BY <1>8, <1>t DEF vchanged, TypeOK
    <2>3. Present' /\ Counted'
      BY <1>8, <2>1 DEF vchanged, Sound, Present, Counted
    <2>4. Kept'
      BY <1>8, <1>t, <2>1 DEF vchanged, Sound, Kept, Stored, Lost, TypeOK
    <2>5. CleanIsStored'
      BY <1>8, <1>t, <2>1 DEF vchanged, Sound, CleanIsStored, Stored, TypeOK
    <2> QED
      BY <2>2, <2>3, <2>4, <2>5 DEF IInv
  <1>9. ASSUME NEW a \in Addr, vunlock(a) PROVE IInv'
    <2>1. status = "open" /\ Sound /\ a \in here /\ count[a] = held[a] /\ held[a] > 0
      BY <1>9 DEF vunlock, IInv, Sound, Present
    <2>2. count' \in [Addr -> Nat] /\ held' \in [Addr -> Nat]
      BY <1>9, <1>t, <2>1 DEF vunlock, TypeOK
    <2>3. TypeOK'
      BY <1>9, <1>t, <2>2 DEF vunlock, TypeOK
    <2>4. Present' /\ Counted'
      BY <1>9, <1>t, <2>1 DEF vunlock, Sound, Present, Counted, TypeOK
    <2>5. Kept' /\ CleanIsStored'
      BY <1>9, <2>1 DEF vunlock, Sound, Kept, CleanIsStored, Stored, Lost
    <2> QED
      BY <2>3, <2>4, <2>5 DEF IInv
  <1>10. CASE UNCHANGED vars
    BY <1>10 DEF vars, IInv, TypeOK, Present, Kept, CleanIsStored, Counted, Stored, Lost
  <1> QED
    BY <1>1, <1>2, <1>3, <1>4, <1>5, <1>6, <1>7, <1>8, <1>9, <1>10 DEF Next

(* The callers of vlock see a plain memory, whatever is evicted, written   *)
(* early or kept back by a flush that stopped (vfile.c:22-331): a page is  *)
(* lost only when writing or reading that page failed, which nobody looks  *)
(* at (vfile.c:79, 82, 249, 252).                                          *)
THEOREM MemorySafe == Spec => []PlainMemory
  <1>1. IInv => PlainMemory
    BY DEF IInv, PlainMemory
  <1> QED
    BY <1>1, InitSafe, StepSafe, PTL DEF Spec
=============================================================================
