-------------------------- MODULE TipDriverProofs --------------------------
(***************************************************************************)
(* Proofs about TipDriver, for any processes, any handles and any number   *)
(* of loads, whatever the processes ask for while the module comes and     *)
(* goes.                                                                   *)
(*                                                                         *)
(* The list of handles is q[1], ..., q[n] for some n and q; what the       *)
(* recursive Chain makes of it is worked out once (ListedIs), and the      *)
(* steps of the requests are followed on q.                                *)
(***************************************************************************)
EXTENDS TipDriver, FiniteSetTheorems, WellFoundedInduction, TLAPS

Mine(c) == {arg[c], user[c]} \cap Handles

\* The list is q[1], ..., q[n], each of them once.
Linked(n, q) ==
  /\ \A i, j \in 1..n : q[i] = q[j] => i = j
  /\ head = IF n = 0 THEN None ELSE q[1]
  /\ \A i \in 1..n : next[q[i]] = IF i = n THEN None ELSE q[i + 1]

\* What is listed has a buffer, but for the handle that is being removed; what a
\* process has is listed, if it is a handle; and a walk is on its way to its own.
Keeping(n, q) ==
  /\ \A i \in 1..n :
       q[i] \in magic /\ (q[i] \in buf \/ \E c \in Clients : pc[c] = "remove" /\ arg[c] = q[i])
  /\ \A c \in Clients : \A h \in Mine(c) \cap magic : \E i \in 1..n : q[i] = h
  /\ \A c \in Clients : pc[c] = "remove" =>
       \E k \in 1..n : \E m \in k..n :
         /\ search[c] = q[k] /\ arg[c] = q[m]
         /\ prev[c] = q[IF k = 1 THEN 1 ELSE k - 1]
  /\ loads = 1 /\ stage = "in" => \A h \in buf : \E i \in 1..n : q[i] = h

Lists == \E n \in Nat : \E q \in [1..n -> Handles] : Linked(n, q) /\ Keeping(n, q)

\* A handle that a process has is its own.
Owners ==
  \A c \in Clients :
    /\ Mine(c) \subseteq used
    /\ \A d \in Clients : c # d => Mine(c) \cap Mine(d) = {}
    /\ pc[c] = "buffer" => arg[c] \notin magic
    /\ pc[c] \in {"free", "remove"} => arg[c] \in magic
    /\ pc[c] = "remove" => arg[c] \notin buf

\* A handle is asked for, kept and given back through an open device, and nobody
\* has it open when the module is not in the kernel.
Sessions ==
  \A c \in Clients :
    /\ stage = "out" => c \notin opened /\ pc[c] \in {"idle", "oops"}
    /\ pc[c] \notin {"idle", "word", "oops"} => c \in opened
    /\ user[c] # None => c \in opened /\ pc[c] \in {"idle", "word", "oops"}
    /\ arg[c] # None => pc[c] \in {"alloc", "buffer", "answer", "free", "remove", "oops"}
    /\ pc[c] \in {"alloc", "oops"} => arg[c] \in {None, Junk}
    /\ pc[c] \in {"buffer", "free", "remove"} => arg[c] \in Handles

\* Until sema_init nobody gets further than to the semaphore.
Locked ==
  /\ stage = "in" => lock # NoInit
  /\ stage \notin {"in", "clean"} => lock = NoInit
  /\ \A c \in Clients : lock = c <=> pc[c] \in {"buffer", "remove"}
  /\ lock = NoInit => \A c \in Clients :
       user[c] = None /\ pc[c] \notin {"buffer", "answer", "free", "remove"}

\* The steps of the load, in order, and what each has set up.
Flags(s) ==
  {f \in Flagged :
     \/ f = "proc"   /\ s # "proc"
     \/ f = "chr"    /\ s \notin {"proc", "chr"}
     \/ f = "class"  /\ s \notin {"proc", "chr", "class"}
     \/ f = "dev"    /\ s \notin {"proc", "chr", "class", "dev"}
     \/ f = "enable" /\ s \in {"map0", "map1", "map2", "sema", "in"}
     \/ f = "map0"   /\ s \in {"map1", "map2", "sema", "in"}
     \/ f = "map1"   /\ s \in {"map2", "sema", "in"}
     \/ f = "map2"   /\ s \in {"sema", "in"}}

Steps ==
  /\ NothingLeftBehind
  /\ stage # "out" => held \subseteq flags \union {"pci", "reference"} /\ loads >= 1
  /\ stage \notin {"out", "clean"} =>
       flags = Flags(stage) /\ flags \ {"proc", "enable"} \subseteq held
  /\ stage = "in" => rval
  /\ loads = 0 \/ (loads = 1 /\ stage \notin {"in", "out", "clean"}) => buf = {}

Inv == Lists /\ Owners /\ Sessions /\ Locked /\ Steps

-----------------------------------------------------------------------------
(* The load *)

LEMMA Names ==
  /\ Regions = {0, 1, 2}
  /\ Map[0] = "map0" /\ Map[1] = "map1" /\ Map[2] = "map2"
  /\ After[0] = "map1" /\ After[1] = "map2" /\ After[2] = "sema"
  /\ Maps = {"map0", "map1", "map2"}
  /\ Flagged = {"proc", "chr", "class", "dev", "enable", "map0", "map1", "map2"}
  <1>1. Regions = {0, 1, 2}
    BY DEF Regions
  <1>2. Map[0] = "map0" /\ Map[1] = "map1" /\ Map[2] = "map2"
    BY <1>1 DEF Map
  <1>3. Maps = {"map0", "map1", "map2"}
    BY <1>1, <1>2 DEF Maps
  <1>4. After[0] = "map1" /\ After[1] = "map2" /\ After[2] = "sema"
    BY <1>1, <1>2 DEF After
  <1>5. QED
    BY <1>1, <1>2, <1>3, <1>4 DEF Flagged

\* What a step of the load or of the unload is to the requests: nothing, the
\* semaphore that comes up, or the end of the module.
LEMMA LoadIs ==
  ASSUME Load \/ Rmmod \/ Clean
  PROVE  \/ /\ UNCHANGED serving /\ stage' \notin {"in", "out"}
            /\ stage \notin {"in", "clean"} \/ stage' = "clean"
         \/ /\ stage = "sema" /\ stage' = "in" /\ lock' = Free /\ loads' = loads
            /\ UNCHANGED <<opened, region, memory, pc, request>>
         \/ Gone /\ stage # "in" /\ stage' = "out"
  <1> USE Names DEF Went, Acquire, Unmap
  <1>1. CASE Insmod
    BY <1>1 DEF Insmod
  <1>2. CASE RegisterProc
    BY <1>2 DEF RegisterProc
  <1>3. CASE RegisterChr
    BY <1>3 DEF RegisterChr
  <1>4. CASE CreateClass \/ CreateDevice \/ FindTIpcie
    BY <1>4 DEF CreateClass, CreateDevice, FindTIpcie
  <1>5. ASSUME NEW r \in Regions, MapIn(r)
        PROVE  UNCHANGED serving /\ stage' \notin {"in", "out"} /\ stage \notin {"in", "clean"}
    BY <1>5 DEF MapIn
  <1>6. CASE SemaInit
    BY <1>6 DEF SemaInit
  <1>7. CASE Rmmod
    BY <1>7 DEF Rmmod
  <1>8. CASE Clean
    BY <1>8 DEF Clean
  <1>9. QED
    BY <1>1, <1>2, <1>3, <1>4, <1>5, <1>6, <1>7, <1>8 DEF Load

LEMMA StepsStay ==
  ASSUME Steps, UNCHANGED loading, buf' \subseteq buf \/ stage \in {"in", "clean"}
  PROVE  Steps'
  BY DEF loading, Steps, NothingLeftBehind

\* clean_module takes the maps first, and then all that is flagged.
LEMMA UnmapSteps ==
  ASSUME Steps, NEW from, Unmap(from), stage # "out", UNCHANGED <<loads, buf>>
  PROVE  Steps'
  <1>1. stage' = "clean" /\ held' = held \ (flags \cap Maps) /\ flags' = flags \ Maps
    BY DEF Unmap, Went
  <1>2. held' \subseteq flags' \union {"pci", "reference"} /\ loads' >= 1
    BY <1>1 DEF Steps
  <1>3. loads' # 0
    BY <1>2
  <1>4. QED
    BY <1>1, <1>2, <1>3 DEF Steps, NothingLeftBehind

LEMMA LoadSteps ==
  ASSUME TypeOK, Steps, Load \/ Rmmod \/ Clean
  PROVE  Steps'
  <1> USE Names DEF Went, Acquire
  <1>1. buf' = buf
    BY LoadIs DEF serving, handleVars, memory, Gone
  <1>2. CASE Insmod
    <2>1. loads \in Nat /\ loads' = loads + 1
      BY <1>2, DriverAssumption DEF Insmod, TypeOK, DriverAssumption
    <2>2. /\ stage = "out" /\ stage' = "proc" /\ flags' = {}
          /\ held' \subseteq {"reference", "pci"}
      BY <1>2 DEF Insmod
    <2>3. loads' >= 1 /\ (loads' = 1 => buf' = {})
      BY <1>1, <2>1 DEF Steps
    <2>4. Flags("proc") = {}
      BY DEF Flags
    <2>5. QED
      BY <2>2, <2>3, <2>4 DEF Steps, NothingLeftBehind
  <1>3. CASE RegisterProc
    BY <1>1, <1>3 DEF RegisterProc, Steps, NothingLeftBehind, Flags, TypeOK
  <1>4. CASE RegisterChr
    BY <1>1, <1>4 DEF RegisterChr, Steps, NothingLeftBehind, Flags, TypeOK
  <1>5. CASE CreateClass
    <2>1. CASE Unmap("class")
      BY <1>1, <1>5, <2>1, UnmapSteps DEF CreateClass, Unmap
    <2>2. CASE Acquire("class", "dev", "class")
      BY <1>1, <1>5, <2>2 DEF CreateClass, Steps, NothingLeftBehind, Flags, TypeOK
    <2>3. QED
      BY <1>5, <2>1, <2>2 DEF CreateClass
  <1>6. CASE CreateDevice
    <2>1. CASE Unmap("dev")
      BY <1>1, <1>6, <2>1, UnmapSteps DEF CreateDevice, Unmap
    <2>2. CASE Acquire("dev", "find", "dev")
      BY <1>1, <1>6, <2>2 DEF CreateDevice, Steps, NothingLeftBehind, Flags, TypeOK
    <2>3. QED
      BY <1>6, <2>1, <2>2 DEF CreateDevice
  <1>7. CASE FindTIpcie
    <2>1. CASE Unmap("find")
      BY <1>1, <1>7, <2>1, UnmapSteps DEF FindTIpcie, Unmap
    <2>2. CASE ~Unmap("find")
      BY <1>1, <1>7, <2>2 DEF FindTIpcie, Steps, NothingLeftBehind, Flags, TypeOK
    <2>3. QED
      BY <2>1, <2>2
  <1>8. ASSUME NEW r \in Regions, MapIn(r)
        PROVE  Steps'
    <2>1. /\ stage = Map[r] /\ stage \notin {"in", "out", "clean"} /\ loads' = loads /\ rval' = rval
          /\ flags = Flags(stage) /\ held \subseteq flags \union {"pci", "reference"}
          /\ flags \ {"proc", "enable"} \subseteq held /\ loads >= 1
      BY <1>8 DEF MapIn, Unmap, Steps
    <2>2. CASE Unmap(Map[r])
      BY <1>1, <2>1, <2>2, UnmapSteps
    <2>3. CASE Acquire(Map[r], After[r], Map[r])
      <3>1. /\ stage' = After[r]
            /\ held' = held \union {Map[r]} /\ flags' = flags \union {Map[r]}
        BY <2>3
      <3>2. flags' = Flags(After[r])
        BY <2>1, <3>1 DEF Flags
      <3>3. QED
        BY <1>1, <2>1, <3>1, <3>2 DEF Steps, NothingLeftBehind
    <2>4. QED
      BY <1>8, <2>2, <2>3 DEF MapIn
  <1>9. CASE SemaInit
    BY <1>1, <1>9 DEF SemaInit, Steps, NothingLeftBehind, Flags, TypeOK
  <1>10. CASE Rmmod
    BY <1>1, <1>10, UnmapSteps DEF Rmmod, Unmap
  <1>11. CASE Clean
    <2>1. held' \subseteq {"reference"} /\ stage' = "out" /\ loads' = loads /\ loads >= 1
      BY <1>11 DEF Clean, Steps
    <2>2. QED
      BY <2>1 DEF Steps, NothingLeftBehind
  <1>12. QED
    BY <1>2, <1>3, <1>4, <1>5, <1>6, <1>7, <1>8, <1>9, <1>10, <1>11 DEF Load

-----------------------------------------------------------------------------
(* The requests *)

LEMMA TypeStays ==
  ASSUME TypeOK, Owners, Sessions, [Next]_vars
  PROVE  TypeOK'
  <1> USE DEF TypeOK
  <1>0. Map \in [Regions -> Flagged] /\ \A r \in Regions : After[r] \in Flagged \union {"sema"}
    BY Names DEF Map, Regions
  <1>1. ASSUME Load \/ Rmmod \/ Clean
        PROVE  /\ stage' \in {"out", "find", "sema", "in", "clean"} \union Flagged
               /\ flags' \subseteq Flagged /\ held' \subseteq Flagged \union {"pci", "reference"}
               /\ rval' \in BOOLEAN /\ loads' \in 0..MaxLoads
    <2> USE DEF Went, Acquire, Unmap
    <2>1. CASE Insmod
      <3>1. loads \in Nat /\ MaxLoads \in Nat /\ loads' = loads + 1 /\ loads < MaxLoads
        BY <2>1, DriverAssumption DEF DriverAssumption, Insmod
      <3>2. loads' \in 0..MaxLoads
        BY <3>1
      <3>3. QED
        BY <2>1, <3>2, Names DEF Insmod
    <2>2. CASE RegisterProc
      BY <2>2, Names DEF RegisterProc
    <2>3. CASE RegisterChr
      BY <2>3, Names DEF RegisterChr
    <2>4. CASE CreateClass
      BY <2>4, Names DEF CreateClass
    <2>5. CASE CreateDevice
      BY <2>5, Names DEF CreateDevice
    <2>6. CASE FindTIpcie
      BY <2>6, Names DEF FindTIpcie
    <2>7. ASSUME NEW r \in Regions, MapIn(r)
          PROVE  /\ stage' \in {"out", "find", "sema", "in", "clean"} \union Flagged
                 /\ flags' \subseteq Flagged /\ held' \subseteq Flagged \union {"pci", "reference"}
                 /\ rval' \in BOOLEAN /\ loads' \in 0..MaxLoads
      BY <1>0, <2>7 DEF MapIn
    <2>8. CASE SemaInit
      BY <2>8 DEF SemaInit
    <2>9. CASE Rmmod
      BY <2>9 DEF Rmmod
    <2>10. CASE Clean
      BY <2>10 DEF Clean
    <2>11. QED
      BY <1>1, <2>1, <2>2, <2>3, <2>4, <2>5, <2>6, <2>7, <2>8, <2>9, <2>10 DEF Load
  <1>2. ASSUME Load \/ Rmmod \/ Clean
        PROVE  TypeOK'
    <2>1. CASE UNCHANGED serving \/ (lock' = Free /\ UNCHANGED <<opened, region, memory, pc, request>>)
      BY <1>1, <1>2, <2>1 DEF serving, handleVars, memory, request
    <2>2. CASE Gone
      BY <1>1, <1>2, <2>2 DEF Gone
    <2>3. QED
      BY <1>2, <2>1, <2>2, LoadIs
  <1>4. ASSUME NEW c \in Clients, Request(c)
        PROVE  TypeOK'
    <2> USE DEF Goto, Reach, loading, handleVars, memory, request
    <2>1. CASE Open(c)
      BY <2>1 DEF Open
    <2>2. CASE Close(c)
      BY <2>2 DEF Close
    <2>3. CASE AllocRequest(c)
      BY <2>3 DEF AllocRequest, AllocCall
    <2>4. CASE FreeRequest(c)
      BY <2>4 DEF FreeRequest, FreeCall
    <2>5. CASE RegisterRequest(c)
      BY <2>5 DEF RegisterRequest
    <2>6. CASE ReadProc(c)
      BY <2>6, Names DEF ReadProc
    <2>7. QED
      BY <1>4, <2>1, <2>2, <2>3, <2>4, <2>5, <2>6 DEF Request
  <1>5. ASSUME NEW c \in Clients, Handle(c)
        PROVE  TypeOK'
    <2> USE DEF Goto, Return, loading, memory, request
    <2>0. UNCHANGED <<loading, opened, region>>
      BY <1>5 DEF Handle
    <2>1. CASE AllocLock(c)
      BY <2>0, <2>1 DEF AllocLock
    <2>2. CASE NoBuffer(c)
      BY <2>0, <2>2 DEF NoBuffer
    <2>3. CASE Buffer(c)
      <3>1. arg[c] \in Handles /\ arg[c] \in used
        BY <2>3 DEF Buffer, Sessions, Owners, Mine
      <3>2. QED
        BY <2>0, <2>3, <3>1 DEF Buffer, ListAdd
    <2>4. CASE Answer(c)
      BY <2>0, <2>4 DEF Answer
    <2>5. CASE FreeLock(c)
      BY <2>0, <2>5 DEF FreeLock
    <2>6. CASE ListWalk(c)
      BY <2>0, <2>6 DEF ListWalk
    <2>7. CASE ListRemove(c)
      <3>1. arg[c] \in Handles /\ arg[c] \notin buf
        BY <2>7 DEF ListRemove, Sessions, Owners
      <3>2. CASE search[c] = None
        BY <2>0, <2>7, <3>2 DEF ListRemove
      <3>3. CASE search[c] # None
        <4>1. head' \in Handles \union {None} /\ next' \in [Handles -> Handles \union {None}]
          BY <2>7, <3>1, <3>3 DEF ListRemove, Unlink
        <4>2. used' = used \ {arg[c]} /\ magic' = magic \ {arg[c]} /\ buf' = buf
          BY <2>7, <3>3 DEF ListRemove
        <4>3. QED
          BY <2>0, <2>7, <3>1, <4>1, <4>2 DEF ListRemove
      <3>4. QED
        BY <3>2, <3>3
    <2>8. CASE AllocFault(c)
      BY <2>0, <2>8 DEF AllocFault
    <2>9. QED
      BY <1>5, <2>1, <2>2, <2>3, <2>4, <2>5, <2>6, <2>7, <2>8 DEF Handle, Work
  <1>6. ASSUME NEW c \in Clients, Interrupt(c)
        PROVE  TypeOK'
    BY <1>6 DEF Interrupt, Signal, AllocSignal, FreeSignal, Goto, Return, loading, memory, request
  <1>7. ASSUME NEW c \in Clients, Word(c)
        PROVE  TypeOK'
    BY <1>7, Names DEF Word, Goto, loading, memory, request
  <1>8. CASE UNCHANGED vars
    BY <1>8 DEF vars, loading, serving, handleVars, memory, request
  <1>9. QED
    BY <1>2, <1>4, <1>5, <1>6, <1>7, <1>8 DEF Next

LEMMA SessionsStay ==
  ASSUME TypeOK, Sessions, Locked, [Next]_vars
  PROVE  Sessions'
  <1> USE DEF TypeOK, Sessions
  <1>1. CASE Load \/ Rmmod \/ Clean
    <2>1. CASE UNCHANGED serving /\ stage' # "out"
      BY <2>1 DEF serving, handleVars, request
    <2>2. CASE stage' # "out" /\ UNCHANGED <<opened, region, memory, pc, request>>
      BY <2>2 DEF request
    <2>3. CASE Gone
      BY <2>3 DEF Gone
    <2>4. QED
      BY <1>1, <2>1, <2>2, <2>3, LoadIs
  <1>3. ASSUME NEW c \in Clients, Request(c)
        PROVE  Sessions'
    <2> USE DEF Goto, Reach, loading, handleVars, memory, request
    <2>1. CASE Open(c)
      BY <2>1 DEF Open
    <2>2. CASE Close(c)
      BY <2>2 DEF Close
    <2>3. CASE AllocRequest(c)
      BY <2>3 DEF AllocRequest, AllocCall
    <2>4. CASE FreeRequest(c)
      BY <2>4 DEF FreeRequest, FreeCall
    <2>5. CASE RegisterRequest(c)
      BY <2>5 DEF RegisterRequest
    <2>6. CASE ReadProc(c)
      BY <2>6 DEF ReadProc
    <2>7. QED
      BY <1>3, <2>1, <2>2, <2>3, <2>4, <2>5, <2>6 DEF Request
  <1>4. ASSUME NEW c \in Clients, Handle(c)
        PROVE  Sessions'
    <2> USE DEF Goto, Return, loading, memory, request
    <2>0. UNCHANGED <<stage, opened, region>>
      BY <1>4 DEF Handle
    <2>1. CASE AllocLock(c)
      BY <2>0, <2>1 DEF AllocLock
    <2>2. CASE NoBuffer(c)
      BY <2>0, <2>2 DEF NoBuffer
    <2>3. CASE Buffer(c)
      BY <2>0, <2>3 DEF Buffer
    <2>4. CASE Answer(c)
      BY <2>0, <2>4 DEF Answer
    <2>5. CASE FreeLock(c)
      BY <2>0, <2>5 DEF FreeLock
    <2>6. CASE ListWalk(c)
      BY <2>0, <2>6 DEF ListWalk
    <2>7. CASE ListRemove(c)
      BY <2>0, <2>7 DEF ListRemove
    <2>8. CASE AllocFault(c)
      BY <2>0, <2>8 DEF AllocFault
    <2>9. QED
      BY <1>4, <2>1, <2>2, <2>3, <2>4, <2>5, <2>6, <2>7, <2>8 DEF Handle, Work
  <1>5. ASSUME NEW c \in Clients, Interrupt(c)
        PROVE  Sessions'
    BY <1>5 DEF Interrupt, Signal, AllocSignal, FreeSignal, Goto, Return, loading, memory, request
  <1>6. ASSUME NEW c \in Clients, Word(c)
        PROVE  Sessions'
    BY <1>6 DEF Word, Goto, loading, memory, request
  <1>7. CASE UNCHANGED vars
    BY <1>7 DEF vars, loading, serving, handleVars, memory, request
  <1>8. QED
    BY <1>1, <1>3, <1>4, <1>5, <1>6, <1>7 DEF Next

\* The semaphore is that of the process that is making or removing a handle.
LEMMA LockedStay ==
  ASSUME TypeOK, Sessions, Locked, [Next]_vars
  PROVE  Locked'
  <1> USE HandlesAssumption DEF TypeOK, Locked, HandlesAssumption
  <1>1. CASE Load \/ Rmmod \/ Clean
    <2>1. CASE /\ UNCHANGED serving /\ stage' \notin {"in", "out"}
               /\ stage \notin {"in", "clean"} \/ stage' = "clean"
      BY <2>1 DEF serving, handleVars, request
    <2>2. CASE /\ stage = "sema" /\ stage' = "in" /\ lock' = Free
               /\ UNCHANGED <<opened, region, memory, pc, request>>
      BY <2>2 DEF request
    <2>3. CASE Gone /\ stage' = "out"
      BY <2>3 DEF Gone
    <2>4. QED
      BY <1>1, <2>1, <2>2, <2>3, LoadIs
  <1>3. ASSUME NEW c \in Clients, Request(c)
        PROVE  Locked'
    BY <1>3 DEF Request, Open, Close, AllocRequest, AllocCall, FreeRequest, FreeCall,
       RegisterRequest, ReadProc, Goto, Reach, loading, handleVars, memory, request
  <1>4. ASSUME NEW c \in Clients, Handle(c)
        PROVE  Locked'
    <2> USE DEF Goto, Return, loading, memory, request
    <2>0. UNCHANGED stage
      BY <1>4 DEF Handle
    <2>1. CASE AllocLock(c)
      BY <2>0, <2>1 DEF AllocLock
    <2>2. CASE NoBuffer(c)
      BY <2>0, <2>2 DEF NoBuffer
    <2>3. CASE Buffer(c)
      BY <2>0, <2>3 DEF Buffer
    <2>4. CASE Answer(c)
      BY <2>0, <2>4 DEF Answer
    <2>5. CASE FreeLock(c)
      BY <2>0, <2>5 DEF FreeLock
    <2>6. CASE ListWalk(c)
      BY <2>0, <2>6 DEF ListWalk
    <2>7. CASE ListRemove(c)
      BY <2>0, <2>7 DEF ListRemove
    <2>8. CASE AllocFault(c)
      BY <2>0, <2>8 DEF AllocFault
    <2>9. QED
      BY <1>4, <2>1, <2>2, <2>3, <2>4, <2>5, <2>6, <2>7, <2>8 DEF Handle, Work
  <1>5. ASSUME NEW c \in Clients, Interrupt(c)
        PROVE  Locked'
    BY <1>5 DEF Interrupt, Signal, AllocSignal, FreeSignal, Goto, Return, loading, memory, request
  <1>6. ASSUME NEW c \in Clients, Word(c)
        PROVE  Locked'
    BY <1>6 DEF Word, Goto, loading, memory, request
  <1>7. CASE UNCHANGED vars
    BY <1>7 DEF vars, loading, serving, handleVars, request
  <1>8. QED
    BY <1>1, <1>3, <1>4, <1>5, <1>6, <1>7 DEF Next

LEMMA OwnersStay ==
  ASSUME TypeOK, Sessions, Locked, Owners, [Next]_vars
  PROVE  Owners'
  <1> USE HandlesAssumption DEF TypeOK, Mine, HandlesAssumption
  <1>1. CASE Load \/ Rmmod \/ Clean
    <2>1. CASE UNCHANGED <<memory, pc, request>>
      BY <2>1 DEF memory, request, Owners
    <2>2. CASE Gone
      BY <2>2 DEF Gone, Owners
    <2>3. QED
      BY <1>1, <2>1, <2>2, LoadIs DEF serving, handleVars
  <1>3. ASSUME NEW c \in Clients, Request(c)
        PROVE  Owners'
    <2> USE DEF Goto, Reach, loading, handleVars, memory, request, Owners
    <2>1. CASE Open(c)
      BY <2>1 DEF Open
    <2>2. CASE Close(c)
      BY <2>2 DEF Close
    <2>3. CASE AllocRequest(c)
      BY <2>3 DEF AllocRequest, AllocCall
    <2>4. CASE FreeRequest(c)
      BY <2>4 DEF FreeRequest, FreeCall
    <2>5. CASE RegisterRequest(c)
      BY <2>5 DEF RegisterRequest
    <2>6. CASE ReadProc(c)
      BY <2>6 DEF ReadProc
    <2>7. QED
      BY <1>3, <2>1, <2>2, <2>3, <2>4, <2>5, <2>6 DEF Request
  <1>4. ASSUME NEW c \in Clients, Handle(c)
        PROVE  Owners'
    <2> USE DEF Goto, Return, memory, request, Owners
    <2>1. CASE AllocLock(c)
      BY <2>1 DEF AllocLock, Sessions
    <2>2. CASE NoBuffer(c)
      BY <2>2 DEF NoBuffer
    <2>3. CASE Buffer(c)
      BY <2>3 DEF Buffer, Locked, Sessions
    <2>4. CASE Answer(c)
      BY <2>4 DEF Answer
    <2>5. CASE FreeLock(c)
      BY <2>5 DEF FreeLock
    <2>6. CASE ListWalk(c)
      BY <2>6 DEF ListWalk
    <2>7. CASE ListRemove(c)
      BY <2>7 DEF ListRemove, Locked, Sessions
    <2>8. CASE AllocFault(c)
      BY <2>8 DEF AllocFault
    <2>9. QED
      BY <1>4, <2>1, <2>2, <2>3, <2>4, <2>5, <2>6, <2>7, <2>8 DEF Handle, Work
  <1>5. ASSUME NEW c \in Clients, Interrupt(c)
        PROVE  Owners'
    BY <1>5 DEF Interrupt, Signal, AllocSignal, FreeSignal, Goto, Return, memory, request, Owners
  <1>6. ASSUME NEW c \in Clients, Word(c)
        PROVE  Owners'
    BY <1>6 DEF Word, Goto, memory, request, Owners
  <1>7. CASE UNCHANGED vars
    BY <1>7 DEF vars, serving, handleVars, memory, request, Owners
  <1>8. QED
    BY <1>1, <1>3, <1>4, <1>5, <1>6, <1>7 DEF Next

-----------------------------------------------------------------------------
(* What Chain makes of the list *)

LEMMA Smallest ==
  ASSUME NEW T, T \subseteq Nat, T # {}
  PROVE  \E x \in T : \A y \in T : x <= y
  <1> DEFINE R == OpToRel(<, Nat)
  <1>1. \E x \in T : \A y \in T : <<y, x>> \notin R
    <2>1. IsWellFoundedOn(R, Nat)
      BY NatLessThanWellFounded
    <2> HIDE DEF R
    <2>2. QED
      BY <2>1, WFMin
  <1>2. \A x, y \in Nat : <<y, x>> \notin R => x <= y
    BY DEF OpToRel
  <1>3. QED
    BY <1>1, <1>2

LEMMA ChainIs ==
  ASSUME NEW n \in Nat, NEW q \in [1..n -> Handles], Linked(n, q)
  PROVE  \A i \in Nat : Chain[i] = IF i < n THEN q[i + 1] ELSE None
  <1> DEFINE W == [i \in Nat |-> IF i < n THEN q[i + 1] ELSE None]
             Step(f) == [i \in Nat |-> IF i = 0 THEN head
                                       ELSE IF f[i - 1] = None THEN None ELSE next[f[i - 1]]]
  <1>1. \A i \in 1..n : q[i] \in Handles /\ q[i] # None
    BY HandlesAssumption DEF HandlesAssumption
  <1>2. \A i \in Nat : i # 0 => i - 1 \in Nat
    OBVIOUS
  <1>3. ASSUME NEW i \in Nat
        PROVE  W[i] = IF i = 0 THEN head
                      ELSE IF W[i - 1] = None THEN None ELSE next[W[i - 1]]
    <2>1. CASE i = 0
      <3>1. W[i] = IF n = 0 THEN None ELSE q[1]
        BY <2>1
      <3>2. QED
        BY <2>1, <3>1 DEF Linked
    <2>2. CASE i # 0 /\ i - 1 < n
      <3>1. i \in 1..n /\ W[i - 1] = q[i]
        <4>1. i - 1 \in Nat /\ i - 1 + 1 = i /\ i \in 1..n
          BY <2>2
        <4>2. QED
          BY <2>2, <4>1
      <3>2. next[q[i]] = IF i = n THEN None ELSE q[i + 1]
        BY <3>1 DEF Linked
      <3>3. W[i] = IF i = n THEN None ELSE q[i + 1]
        BY <3>1
      <3>4. QED
        BY <1>1, <2>2, <3>1, <3>2, <3>3
    <2>3. CASE i # 0 /\ ~(i - 1 < n)
      <3>1. i - 1 \in Nat /\ ~(i < n)
        BY <2>3
      <3>2. W[i] = None /\ W[i - 1] = None
        BY <2>3, <3>1
      <3>3. QED
        BY <2>3, <3>2
    <2>4. QED
      BY <2>1, <2>2, <2>3
  <1>4. W = Step(W)
    BY <1>3
  <1> HIDE DEF W
  <1>5. Chain = CHOOSE f : f = Step(f)
    BY DEF Chain
  <1>6. Chain = Step(Chain)
    BY <1>4, <1>5
  <1>7. \A i \in Nat : Chain[i] = W[i]
    <2> DEFINE T == {i \in Nat : Chain[i] # W[i]}
    <2> SUFFICES ASSUME T # {} PROVE FALSE
      OBVIOUS
    <2>1. PICK x \in T : \A y \in T : x <= y
      BY Smallest
    <2>2. x \in Nat /\ Chain[x] # W[x]
      OBVIOUS
    <2>3. \A y \in Nat : y < x => Chain[y] = W[y]
      BY <2>1, <2>2
    <2> HIDE DEF T
    <2>4. Chain[x] = IF x = 0 THEN head
                     ELSE IF Chain[x - 1] = None THEN None ELSE next[Chain[x - 1]]
      BY <1>6, <2>2
    <2>5. x # 0 => Chain[x - 1] = W[x - 1]
      BY <1>2, <2>2, <2>3
    <2>6. QED
      BY <1>3, <2>2, <2>4, <2>5
  <1>8. QED
    BY <1>7 DEF W

\* What is listed are the handles q[1] to q[n], and the chain ends after them.
LEMMA ListedIs ==
  \A n \in Nat : \A q : q \in [1..n -> Handles] /\ Linked(n, q) =>
    /\ Listed = {q[i] : i \in 1..n}
    /\ Chain[Cardinality(Handles)] = None
  <1> SUFFICES ASSUME NEW n \in Nat, NEW q, q \in [1..n -> Handles], Linked(n, q)
               PROVE  /\ Listed = {q[i] : i \in 1..n}
                      /\ Chain[Cardinality(Handles)] = None
    OBVIOUS
  <1> DEFINE C == Cardinality(Handles)
  <1>1. \A i \in Nat : Chain[i] = IF i < n THEN q[i + 1] ELSE None
    BY ChainIs
  <1>2. \A i \in 1..n : q[i] \in Handles /\ q[i] # None
    BY HandlesAssumption DEF HandlesAssumption
  <1>3. n <= C /\ C \in Nat
    <2>1. q \in Injection(1..n, Handles)
      BY DEF Linked, Injection, IsInjective
    <2>2. IsFiniteSet(Handles)
      BY HandlesAssumption DEF HandlesAssumption
    <2>3. Cardinality(1..n) <= C /\ C \in Nat
      BY <2>1, <2>2, FS_Injection, FS_CardinalityType
    <2>4. Cardinality(1..n) = n
      <3>1. Cardinality(1..n) = IF 1 > n THEN 0 ELSE n - 1 + 1
        BY FS_Interval
      <3>2. QED
        BY <3>1
    <2>5. QED
      BY <2>3, <2>4
  <1> HIDE DEF C
  <1>4. Chain[C] = None
    BY <1>1, <1>3
  <1>5. ASSUME NEW h
        PROVE  h \in Listed <=> \E i \in 1..n : h = q[i]
    <2>1. h \in Listed <=> h # None /\ \E i \in 0..C : h = Chain[i]
      BY DEF Listed, C
    <2>2. ASSUME NEW i \in 1..n, h = q[i]
          PROVE  h # None /\ \E j \in 0..C : h = Chain[j]
      <3>1. i - 1 \in 0..C /\ i - 1 \in Nat /\ i - 1 < n /\ i - 1 + 1 = i
        BY <1>3
      <3>2. Chain[i - 1] = q[i]
        BY <1>1, <3>1
      <3>3. QED
        BY <1>2, <2>2, <3>1, <3>2
    <2>3. ASSUME h # None, NEW i \in 0..C, h = Chain[i]
          PROVE  \E j \in 1..n : h = q[j]
      <3>1. i \in Nat /\ i < n
        BY <1>1, <1>3, <2>3
      <3>2. i + 1 \in 1..n /\ h = q[i + 1]
        BY <1>1, <2>3, <3>1
      <3>3. QED
        BY <3>2
    <2>4. QED
      BY <2>1, <2>2, <2>3
  <1>6. QED
    BY <1>4, <1>5 DEF C

LEMMA ListedNext ==
  \A n \in Nat : \A q : q \in [1..n -> Handles] /\ Linked(n, q)' =>
    Listed' = {q[i] : i \in 1..n}
  <1>1. (\A n \in Nat : \A q : q \in [1..n -> Handles] /\ Linked(n, q) =>
           /\ Listed = {q[i] : i \in 1..n}
           /\ Chain[Cardinality(Handles)] = None)'
    BY ListedIs, PTL
  <1>2. QED
    BY <1>1

-----------------------------------------------------------------------------
(* The list *)

\* A step that leaves the list alone, and the walks along it.
LEMMA ListStays ==
  ASSUME NEW n \in Nat, NEW q \in [1..n -> Handles], Linked(n, q), Keeping(n, q),
         UNCHANGED <<head, next, magic, buf>>,
         \A d \in Clients : Mine(d)' \cap magic \subseteq Mine(d),
         \A d \in Clients : pc[d] = "remove" \/ pc'[d] = "remove" =>
           pc'[d] = pc[d] /\ arg'[d] = arg[d] /\ search'[d] = search[d] /\ prev'[d] = prev[d],
         loads' = 1 /\ stage' = "in" => buf = {} \/ (loads = 1 /\ stage = "in")
  PROVE  Lists'
  <1>1. Linked(n, q)'
    BY DEF Linked
  <1>2. \A i \in 1..n :
          q[i] \in magic' /\ (q[i] \in buf' \/ \E c \in Clients : pc'[c] = "remove" /\ arg'[c] = q[i])
    BY DEF Keeping
  <1>3. \A c \in Clients : \A h \in Mine(c)' \cap magic' : \E i \in 1..n : q[i] = h
    BY DEF Keeping
  <1>4. \A c \in Clients : pc'[c] = "remove" =>
          \E k \in 1..n : \E m \in k..n :
            /\ search'[c] = q[k] /\ arg'[c] = q[m]
            /\ prev'[c] = q[IF k = 1 THEN 1 ELSE k - 1]
    BY DEF Keeping
  <1>5. loads' = 1 /\ stage' = "in" => \A h \in buf' : \E i \in 1..n : q[i] = h
    BY DEF Keeping
  <1>6. Keeping(n, q)'
    BY <1>2, <1>3, <1>4, <1>5 DEF Keeping
  <1>7. QED
    BY <1>1, <1>6 DEF Lists

\* The list is forgotten with the module's statics, and nobody has a handle.
LEMMA UnloadLists ==
  ASSUME TypeOK, Gone, stage' = "out"
  PROVE  Lists' /\ Listed' = {}
  <1>1. PICK q : q = [i \in 1..0 |-> None]
    OBVIOUS
  <1>2. /\ head' = None
        /\ \A c \in Clients : pc'[c] # "remove" /\ arg'[c] = None /\ user'[c] = None
    BY DEF Gone
  <1>3. q \in [1..0 -> Handles]
    BY <1>1
  <1>4. Linked(0, q)'
    BY <1>2 DEF Linked
  <1>5. \A c \in Clients : pc'[c] # "remove" /\ Mine(c)' = {}
    BY <1>2, HandlesAssumption DEF Mine, HandlesAssumption
  <1>6. Keeping(0, q)'
    BY <1>2, <1>5 DEF Keeping
  <1>7. Listed' = {}
    <2>1. 0 \in Nat /\ {q[i] : i \in 1..0} = {}
      OBVIOUS
    <2>2. Listed' = {q[i] : i \in 1..0}
      BY <1>3, <1>4, <2>1, ListedNext
    <2>3. QED
      BY <2>1, <2>2
  <1>8. QED
    BY <1>3, <1>4, <1>6, <1>7 DEF Lists

\* dmaHandleListAdd: the new handle comes first.
LEMMA BufferLists ==
  ASSUME TypeOK, Sessions, Locked, Owners, Lists, NEW c \in Clients, Buffer(c),
         UNCHANGED loading
  PROVE  Lists' /\ Listed' = Listed \union {arg[c]}
  <1>1. PICK n \in Nat : \E q \in [1..n -> Handles] : Linked(n, q) /\ Keeping(n, q)
    BY DEF Lists
  <1>2. PICK q \in [1..n -> Handles] : Linked(n, q) /\ Keeping(n, q)
    BY <1>1
  <1>3. PICK h : h = arg[c]
    OBVIOUS
  <1>4. PICK p : p = [i \in 1..n + 1 |-> IF i = 1 THEN h ELSE q[i - 1]]
    OBVIOUS
  <1>5. /\ pc[c] = "buffer" /\ buf' = buf \union {h} /\ magic' = magic \union {h}
        /\ next' = [next EXCEPT ![h] = head] /\ head' = h
        /\ pc' = [pc EXCEPT ![c] = "answer"]
        /\ UNCHANGED <<used, arg, search, prev, user, loads, stage>>
    BY <1>3 DEF Buffer, ListAdd, Goto, request, loading
  <1>6. h \in Handles /\ h \notin magic
    BY <1>3, <1>5 DEF Sessions, Owners
  <1>7. \A i \in 1..n : q[i] # h /\ q[i] \in Handles
    BY <1>2, <1>6 DEF Keeping
  <1>8. p \in [1..n + 1 -> Handles]
    <2>1. \A i \in 1..n + 1 : i # 1 => i - 1 \in 1..n
      OBVIOUS
    <2>2. QED
      BY <1>4, <1>6, <1>7, <2>1
  <1>9. /\ p[1] = h
        /\ \A i \in 1..n : p[i + 1] = q[i]
        /\ \A i \in 2..n + 1 : p[i] = q[i - 1] /\ i - 1 \in 1..n
        /\ n + 1 \in Nat
    BY <1>4
  <1>10. \A d \in Clients : pc[d] # "remove" /\ pc'[d] # "remove"
    BY <1>5 DEF Locked, TypeOK
  <1>11. Linked(n + 1, p)'
    <2>1. ASSUME NEW i \in 1..n + 1, NEW j \in 1..n + 1, p[i] = p[j]
          PROVE  i = j
      <3>1. CASE i = 1 \/ j = 1
        <4>1. \A k \in 2..n + 1 : p[k] # h
          BY <1>7, <1>9
        <4>2. QED
          BY <1>9, <2>1, <3>1, <4>1
      <3>2. CASE i # 1 /\ j # 1
        <4>1. i \in 2..n + 1 /\ j \in 2..n + 1
          BY <3>2
        <4>2. q[i - 1] = q[j - 1] /\ i - 1 \in 1..n /\ j - 1 \in 1..n
          BY <1>9, <2>1, <4>1
        <4>3. i - 1 = j - 1
          BY <1>2, <4>2 DEF Linked
        <4>4. QED
          BY <4>3
      <3>3. QED
        BY <3>1, <3>2
    <2>2. head' = p[1] /\ n + 1 # 0
      BY <1>5, <1>9
    <2>3. next'[p[1]] = IF 1 = n + 1 THEN None ELSE p[2]
      <3>1. next'[h] = head
        BY <1>5, <1>6 DEF TypeOK
      <3>2. head = IF n = 0 THEN None ELSE q[1]
        BY <1>2 DEF Linked
      <3>3. n # 0 => p[2] = q[1]
        BY <1>9
      <3>4. QED
        BY <1>9, <3>1, <3>2, <3>3
    <2>4. ASSUME NEW i \in 2..n + 1
          PROVE  next'[p[i]] = IF i = n + 1 THEN None ELSE p[i + 1]
      <3>1. p[i] = q[i - 1] /\ i - 1 \in 1..n /\ q[i - 1] \in Handles /\ q[i - 1] # h
        BY <1>7, <1>9
      <3>2. next'[q[i - 1]] = next[q[i - 1]]
        BY <1>5, <3>1 DEF TypeOK
      <3>3. next[q[i - 1]] = IF i - 1 = n THEN None ELSE q[i]
        <4>1. next[q[i - 1]] = IF i - 1 = n THEN None ELSE q[i - 1 + 1]
          BY <1>2, <3>1 DEF Linked
        <4>2. i - 1 + 1 = i
          OBVIOUS
        <4>3. QED
          BY <4>1, <4>2
      <3>4. i # n + 1 => p[i + 1] = q[i]
        BY <1>9
      <3>5. QED
        BY <3>1, <3>2, <3>3, <3>4
    <2>5. \A i \in 1..n + 1 : next'[p[i]] = IF i = n + 1 THEN None ELSE p[i + 1]
      BY <2>3, <2>4
    <2>6. QED
      BY <2>1, <2>2, <2>5 DEF Linked
  <1>12. Keeping(n + 1, p)'
    <2>1. ASSUME NEW i \in 1..n + 1
          PROVE  p[i] \in magic' /\ p[i] \in buf'
      <3>1. CASE i = 1
        BY <1>5, <1>9, <3>1
      <3>2. CASE i # 1
        <4>1. p[i] = q[i - 1] /\ i - 1 \in 1..n
          BY <1>9, <3>2
        <4>2. q[i - 1] \in magic /\ q[i - 1] \in buf
          BY <1>2, <1>10, <4>1 DEF Keeping
        <4>3. QED
          BY <1>5, <4>1, <4>2
      <3>3. QED
        BY <3>1, <3>2
    <2>2. ASSUME NEW g, \E i \in 1..n : q[i] = g
          PROVE  \E i \in 1..n + 1 : p[i] = g
      <3>1. PICK i \in 1..n : q[i] = g
        BY <2>2
      <3>2. i + 1 \in 1..n + 1 /\ p[i + 1] = g
        BY <1>9, <3>1
      <3>3. QED
        BY <3>2
    <2>3. 1 \in 1..n + 1 /\ p[1] = h
      BY <1>9
    <2>4. \A d \in Clients : Mine(d)' = Mine(d)
      BY <1>5 DEF Mine
    <2>5. ASSUME NEW d \in Clients, NEW g \in Mine(d)' \cap magic'
          PROVE  \E i \in 1..n + 1 : p[i] = g
      <3>1. g = h \/ g \in Mine(d) \cap magic
        BY <1>5, <2>4
      <3>2. QED
        BY <1>2, <2>2, <2>3, <3>1 DEF Keeping
    <2>6. loads' = 1 /\ stage' = "in" => \A g \in buf' : \E i \in 1..n + 1 : p[i] = g
      BY <1>2, <1>5, <2>2, <2>3 DEF Keeping
    <2>7. QED
      BY <1>10, <2>1, <2>5, <2>6 DEF Keeping
  <1>13. Listed' = Listed \union {h}
    <2>1. Listed = {q[i] : i \in 1..n}
      BY <1>2, ListedIs
    <2>2. Listed' = {p[i] : i \in 1..n + 1}
      BY <1>8, <1>9, <1>11, ListedNext
    <2>3. \A g \in {p[i] : i \in 1..n + 1} : g = h \/ \E i \in 1..n : q[i] = g
      BY <1>9
    <2>4. 1 \in 1..n + 1 /\ \A i \in 1..n : i + 1 \in 1..n + 1
      BY <1>9
    <2>5. h \in {p[i] : i \in 1..n + 1} /\ \A i \in 1..n : q[i] \in {p[j] : j \in 1..n + 1}
      BY <1>9, <2>4
    <2>6. QED
      BY <2>1, <2>2, <2>3, <2>5
  <1>14. QED
    BY <1>3, <1>8, <1>9, <1>11, <1>12, <1>13 DEF Lists

\* pci_free_consistent, and the walk begins at the first handle.
LEMMA FreeLists ==
  ASSUME TypeOK, Sessions, Locked, Owners, Lists, NEW c \in Clients, FreeLock(c),
         UNCHANGED loading
  PROVE  Lists'
  <1>0. PICK n \in Nat : \E q \in [1..n -> Handles] : Linked(n, q) /\ Keeping(n, q)
    BY DEF Lists
  <1>1. PICK q \in [1..n -> Handles] : Linked(n, q) /\ Keeping(n, q)
    BY <1>0
  <1> DEFINE h == arg[c]
  <1>2. /\ pc[c] = "free" /\ lock = Free /\ buf' = buf \ {h}
        /\ search' = [search EXCEPT ![c] = head] /\ prev' = [prev EXCEPT ![c] = head]
        /\ pc' = [pc EXCEPT ![c] = "remove"]
        /\ UNCHANGED <<head, next, used, magic, arg, user, loads, stage>>
    BY DEF FreeLock, Goto, loading
  <1>3. h \in Handles /\ h \in magic
    BY <1>2 DEF Sessions, Owners
  <1>4. PICK m \in 1..n : q[m] = h
    BY <1>1, <1>3 DEF Keeping, Mine
  <1>5. \A d \in Clients : pc[d] # "remove"
    BY <1>2, HandlesAssumption DEF Locked, HandlesAssumption
  <1>6. Linked(n, q)'
    BY <1>1, <1>2 DEF Linked
  <1>7. head = q[1] /\ 1 \in 1..n /\ m \in 1..n
    BY <1>1, <1>4 DEF Linked
  <1>8. /\ pc'[c] = "remove" /\ search'[c] = q[1] /\ prev'[c] = q[1]
        /\ \A d \in Clients \ {c} : pc'[d] # "remove"
    BY <1>2, <1>5, <1>7 DEF TypeOK
  <1>9. \A d \in Clients : Mine(d)' = Mine(d)
    BY <1>2 DEF Mine
  <1>10. \A i \in 1..n :
           q[i] \in magic' /\ (q[i] \in buf' \/ \E d \in Clients : pc'[d] = "remove" /\ arg'[d] = q[i])
    BY <1>1, <1>2, <1>5, <1>8 DEF Keeping
  <1>11. \A d \in Clients : pc'[d] = "remove" =>
          \E k \in 1..n : \E j \in k..n :
            /\ search'[d] = q[k] /\ arg'[d] = q[j]
            /\ prev'[d] = q[IF k = 1 THEN 1 ELSE k - 1]
    <2> SUFFICES \E k \in 1..n : \E j \in k..n :
                   /\ search'[c] = q[k] /\ arg'[c] = q[j]
                   /\ prev'[c] = q[IF k = 1 THEN 1 ELSE k - 1]
      BY <1>8
    <2>1. arg'[c] = q[m]
      BY <1>2, <1>4
    <2> WITNESS 1 \in 1..n
    <2> WITNESS m \in 1..n
    <2>2. QED
      BY <1>8, <2>1
  <1>12. Keeping(n, q)'
    BY <1>1, <1>2, <1>9, <1>10, <1>11 DEF Keeping
  <1>13. QED
    BY <1>6, <1>12 DEF Lists

LEMMA WalkLists ==
  ASSUME TypeOK, Sessions, Locked, Lists, NEW c \in Clients, ListWalk(c),
         UNCHANGED loading
  PROVE  Lists'
  <1>1. PICK n \in Nat : \E q \in [1..n -> Handles] : Linked(n, q) /\ Keeping(n, q)
    BY DEF Lists
  <1>2. PICK q \in [1..n -> Handles] : Linked(n, q) /\ Keeping(n, q)
    BY <1>1
  <1>3. /\ pc[c] = "remove" /\ search[c] \notin {None, arg[c]}
        /\ prev' = [prev EXCEPT ![c] = search[c]]
        /\ search' = [search EXCEPT ![c] = next[search[c]]]
        /\ UNCHANGED <<head, next, used, magic, buf, pc, arg, user, loads, stage>>
    BY DEF ListWalk, memory, loading
  <1>4. PICK k \in 1..n : \E m \in k..n : search[c] = q[k] /\ arg[c] = q[m]
    BY <1>2, <1>3 DEF Keeping
  <1>5. PICK m \in k..n : search[c] = q[k] /\ arg[c] = q[m]
    BY <1>4
  <1>6. k + 1 \in 1..n /\ m \in k + 1..n /\ k \in Int /\ k + 1 # 1 /\ k + 1 - 1 = k
    <2>1. k # m
      BY <1>3, <1>5
    <2>2. QED
      BY <2>1
  <1>7. next[q[k]] = q[k + 1]
    BY <1>2, <1>6 DEF Linked
  <1>8. search'[c] = q[k + 1] /\ prev'[c] = q[k] /\ arg'[c] = q[m]
    BY <1>3, <1>5, <1>7 DEF TypeOK
  <1>9. \A d \in Clients : pc'[d] = "remove" => d = c
    BY <1>3 DEF Locked
  <1>10. \E j \in 1..n : \E i \in j..n :
          /\ search'[c] = q[j] /\ arg'[c] = q[i]
          /\ prev'[c] = q[IF j = 1 THEN 1 ELSE j - 1]
    <2>1. PICK j \in 1..n : j = k + 1
      BY <1>6
    <2>2. PICK i \in j..n : i = m
      BY <1>6, <2>1
    <2>3. search'[c] = q[j] /\ arg'[c] = q[i] /\ prev'[c] = q[IF j = 1 THEN 1 ELSE j - 1]
      BY <1>6, <1>8, <2>1, <2>2
    <2>4. QED
      BY <2>3
  <1>11. \A d \in Clients : pc'[d] = "remove" =>
          \E j \in 1..n : \E i \in j..n :
            /\ search'[d] = q[j] /\ arg'[d] = q[i]
            /\ prev'[d] = q[IF j = 1 THEN 1 ELSE j - 1]
    BY <1>9, <1>10
  <1>12. Linked(n, q)'
    BY <1>2, <1>3 DEF Linked
  <1>13. \A d \in Clients : Mine(d)' = Mine(d)
    BY <1>3 DEF Mine
  <1>14. Keeping(n, q)'
    BY <1>2, <1>3, <1>11, <1>13 DEF Keeping
  <1>15. QED
    BY <1>12, <1>14 DEF Lists

\* dmaHandleListRemove at the handle it looks for: the one before it, or the head,
\* leads on to the one after it, and the handle is freed.
LEMMA RemoveLists ==
  ASSUME TypeOK, Sessions, Locked, Owners, Lists, NEW c \in Clients, ListRemove(c),
         UNCHANGED loading
  PROVE  Lists' /\ Listed' = Listed \ {arg[c]}
  <1>1. PICK n \in Nat : \E q \in [1..n -> Handles] : Linked(n, q) /\ Keeping(n, q)
    BY DEF Lists
  <1>2. PICK q \in [1..n -> Handles] : Linked(n, q) /\ Keeping(n, q)
    BY <1>1
  <1>3. /\ pc[c] = "remove" /\ search[c] \in {None, arg[c]}
        /\ UNCHANGED <<buf, user, loads, stage>>
        /\ pc' = [pc EXCEPT ![c] = "idle"] /\ arg' = [arg EXCEPT ![c] = None]
    BY DEF ListRemove, Goto, Return, loading
  <1>4. PICK k \in 1..n : \E m \in k..n :
          search[c] = q[k] /\ arg[c] = q[m] /\ prev[c] = q[IF k = 1 THEN 1 ELSE k - 1]
    BY <1>2, <1>3 DEF Keeping
  <1>5. q[k] \in Handles /\ q[k] # None
    BY HandlesAssumption DEF HandlesAssumption
  <1>6. search[c] = q[k] /\ arg[c] = q[k] /\ prev[c] = q[IF k = 1 THEN 1 ELSE k - 1]
    BY <1>3, <1>4, <1>5
  <1>7. PICK h \in Handles : h = q[k]
    BY <1>5
  <1>8. Unlink(c) /\ magic' = magic \ {h} /\ used' = used \ {h}
    BY <1>5, <1>6, <1>7 DEF ListRemove
  <1>9. PICK p : p = [i \in 1..n - 1 |-> IF i < k THEN q[i] ELSE q[i + 1]]
    OBVIOUS
  <1>10. /\ n - 1 \in Nat /\ k \in Nat /\ k >= 1 /\ k <= n
         /\ \A i \in 1..n - 1 : i < k => p[i] = q[i] /\ i \in 1..n
         /\ \A i \in 1..n - 1 : i >= k => p[i] = q[i + 1] /\ i + 1 \in 1..n
    BY <1>9
  <1>11. p \in [1..n - 1 -> Handles]
    <2>1. \A i \in 1..n - 1 : (IF i < k THEN q[i] ELSE q[i + 1]) \in Handles
      OBVIOUS
    <2>2. QED
      BY <1>9, <2>1
  <1>12. \A i, j \in 1..n : q[i] = q[j] => i = j
    BY <1>2 DEF Linked
  <1>13. \A d \in Clients : pc'[d] # "remove" /\ (d # c => pc[d] # "remove")
    BY <1>3 DEF Locked, TypeOK
  <1>14. \A i \in 1..n : i # k => \E j \in 1..n - 1 : p[j] = q[i]
    <2> TAKE i \in 1..n
    <2>1. CASE i < k
      <3>1. i \in 1..n - 1
        BY <1>10, <2>1
      <3>2. QED
        BY <1>10, <2>1, <3>1
    <2>2. CASE i > k
      <3>1. i - 1 \in 1..n - 1 /\ i - 1 >= k /\ i - 1 + 1 = i
        BY <1>10, <2>2
      <3>2. QED
        BY <1>10, <3>1
    <2>3. QED
      BY <1>10, <2>1, <2>2
  <1>15. \A i \in 1..n - 1 : p[i] # h /\ \E j \in 1..n : j # k /\ p[i] = q[j]
    <2> TAKE i \in 1..n - 1
    <2>1. CASE i < k
      BY <1>7, <1>10, <1>12, <2>1
    <2>2. CASE i >= k
      <3>1. p[i] = q[i + 1] /\ i + 1 \in 1..n /\ i + 1 # k
        BY <1>10, <2>2
      <3>2. QED
        BY <1>7, <1>12, <3>1
    <2>3. QED
      BY <1>10, <2>1, <2>2
  <1>16. \A i, j \in 1..n - 1 : p[i] = p[j] => i = j
    <2> SUFFICES ASSUME NEW i \in 1..n - 1, NEW j \in 1..n - 1, p[i] = p[j] PROVE i = j
      OBVIOUS
    <2>1. i \in Int /\ j \in Int
      BY <1>10
    <2>2. CASE i < k /\ j < k
      BY <1>10, <1>12, <2>2
    <2>3. CASE i >= k /\ j >= k
      <3>1. i + 1 = j + 1
        BY <1>10, <1>12, <2>3
      <3>2. QED
        BY <2>1, <3>1
    <2>4. CASE i < k /\ j >= k
      <3>1. i = j + 1
        BY <1>10, <1>12, <2>4
      <3>2. QED
        BY <1>10, <2>1, <2>4, <3>1
    <2>5. CASE i >= k /\ j < k
      <3>1. i + 1 = j
        BY <1>10, <1>12, <2>5
      <3>2. QED
        BY <1>10, <2>1, <2>5, <3>1
    <2>6. QED
      BY <1>10, <2>1, <2>2, <2>3, <2>4, <2>5
  <1>17. \A i \in 1..n : next[q[i]] = IF i = n THEN None ELSE q[i + 1]
    BY <1>2 DEF Linked
  <1>18. head' = (IF n - 1 = 0 THEN None ELSE p[1])
           /\ \A i \in 1..n - 1 : next'[p[i]] = IF i = n - 1 THEN None ELSE p[i + 1]
    <2>1. CASE k = 1
      <3>1. prev[c] = search[c]
        BY <1>6, <2>1
      <3>2. head' = next[h] /\ next' = [next EXCEPT ![h] = None]
        BY <1>6, <1>7, <1>8, <3>1 DEF Unlink
      <3>3. head' = IF n - 1 = 0 THEN None ELSE p[1]
        <4>1. next[h] = IF 1 = n THEN None ELSE q[2]
          BY <1>7, <1>10, <1>17, <2>1
        <4>2. n - 1 # 0 => p[1] = q[2]
          BY <1>10, <2>1
        <4>3. QED
          BY <1>10, <3>2, <4>1, <4>2
      <3>4. ASSUME NEW i \in 1..n - 1
            PROVE  next'[p[i]] = IF i = n - 1 THEN None ELSE p[i + 1]
        <4>1. p[i] = q[i + 1] /\ i + 1 \in 1..n /\ p[i] # h /\ p[i] \in Handles
          BY <1>10, <1>11, <1>15, <2>1
        <4>2. next'[p[i]] = next[q[i + 1]]
          BY <3>2, <4>1 DEF TypeOK
        <4>3. next[q[i + 1]] = IF i + 1 = n THEN None ELSE q[i + 1 + 1]
          BY <1>17, <4>1
        <4>4. i # n - 1 => i + 1 \in 1..n - 1 /\ p[i + 1] = q[i + 1 + 1]
          BY <1>10, <2>1
        <4>5. i + 1 = n <=> i = n - 1
          BY <1>10
        <4>6. QED
          BY <4>2, <4>3, <4>4, <4>5
      <3>5. QED
        BY <3>3, <3>4
    <2>2. CASE k # 1
      <3>1. PICK j \in 1..n : j = k - 1
        BY <1>10, <2>2
      <3>2. prev[c] = q[j] /\ j + 1 = k /\ j # k /\ j \in 1..n - 1 /\ j < k
        BY <1>6, <1>10, <2>2, <3>1
      <3>3. prev[c] # search[c] /\ q[j] # h
        BY <1>6, <1>7, <1>12, <3>2
      <3>4. head' = head /\ next' = [next EXCEPT ![q[j]] = next[h], ![h] = None]
        BY <1>6, <1>7, <1>8, <3>2, <3>3 DEF Unlink
      <3>5. head' = IF n - 1 = 0 THEN None ELSE p[1]
        <4>1. head = q[1] /\ n - 1 # 0 /\ 1 \in 1..n - 1 /\ 1 < k
          BY <1>2, <1>10, <2>2 DEF Linked
        <4>2. QED
          BY <1>10, <3>4, <4>1
      <3>6. \A g \in Handles : g # h => next'[g] = IF g = q[j] THEN next[h] ELSE next[g]
        BY <3>3, <3>4 DEF TypeOK
      <3>7. ASSUME NEW i \in 1..n - 1
            PROVE  next'[p[i]] = IF i = n - 1 THEN None ELSE p[i + 1]
        <4>0. p[i] # h /\ p[i] \in Handles /\ i \in Int
          BY <1>10, <1>11, <1>15
        <4>1. CASE i = j
          <5>1. p[i] = q[j]
            BY <1>10, <3>2, <4>1
          <5>2. next'[p[i]] = next[h]
            BY <3>6, <4>0, <5>1
          <5>3. next[h] = IF k = n THEN None ELSE q[k + 1]
            BY <1>7, <1>17
          <5>4. i # n - 1 => i + 1 \in 1..n - 1 /\ i + 1 >= k /\ i + 1 = k
            BY <1>10, <3>2, <4>1
          <5>5. i # n - 1 => p[i + 1] = q[k + 1]
            BY <1>10, <5>4
          <5>6. k = n <=> i = n - 1
            BY <1>10, <3>2, <4>1
          <5>7. QED
            BY <5>2, <5>3, <5>5, <5>6
        <4>2. CASE i < j
          <5>1. p[i] = q[i] /\ i \in 1..n /\ i # j /\ i # n - 1 /\ i # n
            BY <1>10, <3>2, <4>2
          <5>2. next'[p[i]] = next[q[i]]
            BY <1>12, <3>6, <4>0, <5>1
          <5>3. next[q[i]] = q[i + 1]
            BY <1>17, <5>1
          <5>4. i + 1 \in 1..n - 1 /\ i + 1 < k
            BY <1>10, <3>2, <4>2
          <5>5. p[i + 1] = q[i + 1]
            BY <1>10, <5>4
          <5>6. QED
            BY <5>1, <5>2, <5>3, <5>5
        <4>3. CASE i > j
          <5>1. p[i] = q[i + 1] /\ i + 1 \in 1..n /\ i + 1 # j
            BY <1>10, <3>2, <4>3
          <5>2. next'[p[i]] = next[q[i + 1]]
            BY <1>12, <3>6, <4>0, <5>1
          <5>3. next[q[i + 1]] = IF i + 1 = n THEN None ELSE q[i + 1 + 1]
            BY <1>17, <5>1
          <5>4. i # n - 1 => i + 1 \in 1..n - 1 /\ i + 1 >= k
            BY <1>10, <3>2, <4>3
          <5>5. i # n - 1 => p[i + 1] = q[i + 1 + 1]
            BY <1>10, <5>4
          <5>6. i + 1 = n <=> i = n - 1
            BY <1>10
          <5>7. QED
            BY <5>2, <5>3, <5>5, <5>6
        <4>4. QED
          BY <3>1, <4>0, <4>1, <4>2, <4>3
      <3>8. QED
        BY <3>5, <3>7
    <2>3. QED
      BY <2>1, <2>2
  <1>19. Linked(n - 1, p)'
    BY <1>16, <1>18 DEF Linked
  <1>20. ASSUME NEW i \in 1..n - 1
         PROVE  p[i] \in magic' /\ p[i] \in buf'
    <2>1. PICK j \in 1..n : j # k /\ p[i] = q[j] /\ p[i] # h
      BY <1>15
    <2>2. q[j] \in magic /\ (q[j] \in buf \/ \E d \in Clients : pc[d] = "remove" /\ arg[d] = q[j])
      BY <1>2 DEF Keeping
    <2>3. arg[c] # q[j]
      BY <1>6, <1>7, <2>1
    <2>4. QED
      BY <1>3, <1>8, <1>13, <2>1, <2>2, <2>3
  <1>21. ASSUME NEW g, g # h, \E i \in 1..n : q[i] = g
         PROVE  \E i \in 1..n - 1 : p[i] = g
    BY <1>7, <1>14, <1>21
  <1>22. \A d \in Clients : Mine(d)' \subseteq Mine(d)
    BY <1>3, HandlesAssumption DEF Mine, TypeOK, HandlesAssumption
  <1>23. ASSUME NEW d \in Clients, NEW g \in Mine(d)' \cap magic'
         PROVE  \E i \in 1..n - 1 : p[i] = g
    <2>1. g # h /\ g \in Mine(d) \cap magic
      BY <1>8, <1>22
    <2>2. QED
      BY <1>2, <1>21, <2>1 DEF Keeping
  <1>24. loads' = 1 /\ stage' = "in" => \A g \in buf' : \E i \in 1..n - 1 : p[i] = g
    <2>1. h \notin buf
      BY <1>3, <1>6, <1>7 DEF Owners
    <2>2. QED
      BY <1>2, <1>3, <1>21, <2>1 DEF Keeping
  <1>25. Keeping(n - 1, p)'
    BY <1>13, <1>20, <1>23, <1>24 DEF Keeping
  <1>26. Listed' = Listed \ {h}
    <2>1. Listed = {q[i] : i \in 1..n}
      BY <1>2, ListedIs
    <2>2. Listed' = {p[i] : i \in 1..n - 1}
      BY <1>10, <1>11, <1>19, ListedNext
    <2>3. \A i \in 1..n - 1 : p[i] # h /\ p[i] \in {q[j] : j \in 1..n}
      BY <1>15
    <2>4. \A i \in 1..n : q[i] # h => q[i] \in {p[j] : j \in 1..n - 1}
      BY <1>7, <1>14
    <2>5. QED
      BY <2>1, <2>2, <2>3, <2>4
  <1>27. QED
    BY <1>6, <1>7, <1>10, <1>11, <1>19, <1>25, <1>26 DEF Lists

LEMMA ListsStay ==
  ASSUME TypeOK, Inv, [Next]_vars
  PROVE  Lists'
  <1> USE DEF Inv
  <1>0. PICK n \in Nat : \E q \in [1..n -> Handles] : Linked(n, q) /\ Keeping(n, q)
    BY DEF Lists
  <1>1. PICK q \in [1..n -> Handles] : Linked(n, q) /\ Keeping(n, q)
    BY <1>0
  <1>2. ASSUME UNCHANGED <<head, next, magic, buf>>,
               \A d \in Clients : Mine(d)' \cap magic \subseteq Mine(d),
               \A d \in Clients : pc[d] = "remove" \/ pc'[d] = "remove" =>
                 pc'[d] = pc[d] /\ arg'[d] = arg[d] /\ search'[d] = search[d] /\ prev'[d] = prev[d],
               loads' = 1 /\ stage' = "in" => buf = {} \/ (loads = 1 /\ stage = "in")
        PROVE  Lists'
    BY <1>1, <1>2, ListStays
  <1>3. CASE Load \/ Rmmod \/ Clean
    <2>1. CASE UNCHANGED serving /\ stage' # "in"
      BY <1>2, <2>1 DEF serving, handleVars, memory, request, Mine
    <2>2. CASE /\ stage = "sema" /\ loads' = loads
               /\ UNCHANGED <<opened, region, memory, pc, request>>
      BY <1>2, <2>2 DEF memory, request, Mine, Steps
    <2>3. CASE Gone /\ stage' = "out"
      BY <2>3, UnloadLists
    <2>4. QED
      BY <1>3, <2>1, <2>2, <2>3, LoadIs
  <1>5. ASSUME NEW c \in Clients, Request(c)
        PROVE  Lists'
    <2> USE DEF Goto, Reach, loading, handleVars, memory, request, TypeOK
    <2>0. UNCHANGED <<head, next, magic, buf, loads, stage>>
      BY <1>5 DEF Request, Open, Close, AllocRequest, AllocCall, FreeRequest, FreeCall,
         RegisterRequest, ReadProc
    <2>1. \A d \in Clients : pc[d] = "remove" \/ pc'[d] = "remove" =>
             pc'[d] = pc[d] /\ arg'[d] = arg[d] /\ search'[d] = search[d] /\ prev'[d] = prev[d]
      BY <1>5 DEF Request, Open, Close, AllocRequest, AllocCall, FreeRequest, FreeCall,
         RegisterRequest, ReadProc
    <2>2. \A d \in Clients : Mine(d)' \subseteq Mine(d)
      BY <1>5, HandlesAssumption DEF Request, Open, Close, AllocRequest, AllocCall, FreeRequest,
         FreeCall, RegisterRequest, ReadProc, Mine, HandlesAssumption
    <2>3. QED
      BY <1>2, <2>0, <2>1, <2>2
  <1>6. ASSUME NEW c \in Clients, Handle(c)
        PROVE  Lists'
    <2>0. UNCHANGED loading /\ loads' = loads /\ stage' = stage
      BY <1>6 DEF Handle, loading
    <2>1. CASE AllocLock(c)
      <3>1. \A d \in Clients : Mine(d)' \cap magic \subseteq Mine(d)
        BY <2>1 DEF AllocLock, Mine, TypeOK
      <3>2. QED
        BY <1>2, <2>0, <2>1, <3>1 DEF AllocLock, Goto, TypeOK
    <2>2. CASE NoBuffer(c)
      BY <1>2, <2>0, <2>2 DEF NoBuffer, Goto, memory, request, TypeOK, Mine
    <2>3. CASE Buffer(c)
      BY <2>0, <2>3, BufferLists
    <2>4. CASE Answer(c)
      <3>1. \A d \in Clients : Mine(d)' \subseteq Mine(d)
        BY <2>4, HandlesAssumption DEF Answer, Return, Mine, TypeOK, HandlesAssumption
      <3>2. QED
        BY <1>2, <2>0, <2>4, <3>1 DEF Answer, Return, Goto, memory, TypeOK
    <2>5. CASE FreeLock(c)
      BY <2>0, <2>5, FreeLists
    <2>6. CASE ListWalk(c)
      BY <2>0, <2>6, WalkLists
    <2>7. CASE ListRemove(c)
      BY <2>0, <2>7, RemoveLists
    <2>8. CASE AllocFault(c)
      BY <1>2, <2>0, <2>8 DEF AllocFault, Goto, memory, request, TypeOK, Mine
    <2>9. QED
      BY <1>6, <2>1, <2>2, <2>3, <2>4, <2>5, <2>6, <2>7, <2>8 DEF Handle, Work
  <1>7. ASSUME NEW c \in Clients, Interrupt(c)
        PROVE  Lists'
    <2> USE DEF Interrupt, Signal, AllocSignal, FreeSignal, Goto, Return, loading, memory,
            request, TypeOK
    <2>1. \A d \in Clients : Mine(d)' \subseteq Mine(d)
      BY <1>7, HandlesAssumption DEF Mine, HandlesAssumption
    <2>2. QED
      BY <1>2, <1>7, <2>1
  <1>8. ASSUME NEW c \in Clients, Word(c)
        PROVE  Lists'
    BY <1>2, <1>8 DEF Word, Goto, loading, memory, request, TypeOK, Mine
  <1>9. CASE UNCHANGED vars
    BY <1>2, <1>9 DEF vars, loading, serving, handleVars, memory, request, Mine
  <1>10. QED
    BY <1>3, <1>5, <1>6, <1>7, <1>8, <1>9 DEF Next

LEMMA Inductive == TypeOK /\ Inv /\ [Next]_vars => (TypeOK /\ Inv)'
  <1> SUFFICES ASSUME TypeOK, Inv, [Next]_vars PROVE TypeOK' /\ Inv'
    OBVIOUS
  <1>1. TypeOK' /\ Lists' /\ Owners' /\ Sessions' /\ Locked'
    BY TypeStays, ListsStay, OwnersStay, SessionsStay, LockedStay DEF Inv
  <1>2. Steps'
    <2>1. CASE Load \/ Rmmod \/ Clean
      BY <2>1, LoadSteps DEF Inv
    <2>2. CASE \E c \in Clients : Request(c) \/ Handle(c) \/ Interrupt(c) \/ Word(c)
      <3>1. UNCHANGED loading
        BY <2>2 DEF Request, Open, Close, AllocRequest, FreeRequest, RegisterRequest, ReadProc,
           Handle, Interrupt, Word
      <3>2. buf' \subseteq buf \/ stage \in {"in", "clean"}
        BY <2>2 DEF Request, Open, Close, AllocRequest, AllocCall, FreeRequest, FreeCall,
           RegisterRequest, ReadProc, Handle, Work, AllocFault, AllocLock, NoBuffer, Buffer,
           Answer, FreeLock, ListWalk, ListRemove, Interrupt, Signal, AllocSignal, FreeSignal,
           Word, memory, handleVars, Inv, Locked
      <3>3. QED
        BY <3>1, <3>2, StepsStay DEF Inv
    <2>3. CASE UNCHANGED vars
      BY <2>3, StepsStay DEF Inv, vars, serving, handleVars, memory
    <2>4. QED
      BY <2>1, <2>2, <2>3 DEF Next
  <1>3. QED
    BY <1>1, <1>2 DEF Inv

LEMMA Start == Init => TypeOK /\ Inv
  <1> SUFFICES ASSUME Init PROVE TypeOK /\ Inv
    OBVIOUS
  <1> USE HandlesAssumption, DriverAssumption
      DEF Init, HandlesInit, HandlesAssumption, DriverAssumption
  <1>1. TypeOK
    BY Names DEF TypeOK
  <1>2. \A c \in Clients : Mine(c) = {}
    BY DEF Mine
  <1>3. Lists
    <2> DEFINE q == [i \in 1..0 |-> None]
    <2>1. q \in [1..0 -> Handles]
      OBVIOUS
    <2>2. Linked(0, q) /\ Keeping(0, q)
      BY <1>2 DEF Linked, Keeping
    <2>3. QED
      BY <2>1, <2>2 DEF Lists
  <1>4. Owners /\ Sessions /\ Locked
    BY <1>2 DEF Owners, Sessions, Locked
  <1>5. Steps
    BY DEF Steps, NothingLeftBehind
  <1>6. QED
    BY <1>1, <1>3, <1>4, <1>5 DEF Inv

-----------------------------------------------------------------------------
(* What the driver does *)

\* Every variable has its type and Inv holds: the list of handles is a chain of
\* distinct handles, each process has handles of its own, the semaphore is with
\* the process whose place in its request says so, and the flags of the load
\* are those of the steps that it has taken.
THEOREM DriverCorrect == Spec => [](TypeOK /\ Inv)
  <1>1. Init => TypeOK /\ Inv
    BY Start
  <1>2. TypeOK /\ Inv /\ [Next]_vars => (TypeOK /\ Inv)'
    BY Inductive
  <1>3. QED
    BY <1>1, <1>2, PTL DEF Spec

\* TIpcie_init, whichever of its steps fails, and TIpcie_exit leave nothing in
\* the kernel but the reference of pci_get_device - except after
\* register_chrdev or pci_register_driver has failed, as NothingLeftBehind says.
THEOREM UnloadsClean == Spec => []NothingLeftBehind
  <1>1. Inv => NothingLeftBehind
    BY DEF Inv, Steps
  <1>2. QED
    BY <1>1, DriverCorrect, PTL

\* Once TIpcie_init is through, and until TIpcie_exit begins, no process is lost in
\* the driver but one that frees what never was a handle: the registers are mapped
\* and the semaphore is set up, for a request that came before the load was through,
\* too.
THEOREM ServesMapped == Spec => ServedWhileIn
  <1>1. TypeOK /\ Inv /\ [Next]_vars =>
          [\A c \in Clients :
             (stage = "in" /\ pc'[c] = "oops" /\ pc[c] # "oops") => user[c] = Junk]_vars
    <2> SUFFICES ASSUME TypeOK, Inv, [Next]_vars, NEW c \in Clients,
                        stage = "in", pc'[c] = "oops", pc[c] # "oops"
                 PROVE  user[c] = Junk
      OBVIOUS
    <2> USE DEF TypeOK
    <2>1. pc' # pc
      OBVIOUS
    <2>2. CASE Load \/ Rmmod \/ Clean
      BY <2>1, <2>2, LoadIs DEF serving, handleVars
    <2>3. ASSUME NEW d \in Clients, Request(d)
          PROVE  user[c] = Junk
      BY <2>3 DEF Request, Open, Close, AllocRequest, AllocCall, FreeRequest, FreeCall,
         RegisterRequest, ReadProc, Reach, Goto, handleVars
    <2>4. ASSUME NEW d \in Clients, Handle(d)
          PROVE  user[c] = Junk
      BY <2>4 DEF Handle, Work, AllocFault, AllocLock, NoBuffer, Buffer, Answer, FreeLock,
         ListWalk, ListRemove, Goto, Return, Inv, Locked
    <2>5. ASSUME NEW d \in Clients, Interrupt(d)
          PROVE  user[c] = Junk
      BY <2>5 DEF Interrupt, Signal, AllocSignal, FreeSignal, Goto, Return
    <2>6. ASSUME NEW d \in Clients, Word(d)
          PROVE  user[c] = Junk
      <3>1. Map[region[d]] \in held
        <4>1. {"map0", "map1", "map2"} \subseteq held
          BY Names DEF Inv, Steps, Flags
        <4>2. region[d] \in {0, 1, 2}
          BY Names
        <4>3. QED
          BY <4>1, <4>2, Names
      <3>2. QED
        BY <2>6, <3>1 DEF Word, Goto
    <2>7. QED
      BY <2>1, <2>2, <2>3, <2>4, <2>5, <2>6 DEF Next, vars, serving, handleVars
  <1>2. QED
    BY <1>1, DriverCorrect, PTL DEF Spec, ServedWhileIn

\* Between two requests dma_handle_list ends, and leads to handles with a
\* buffer only - to each such handle, if the module was loaded once.
THEOREM ListKept == Spec => []ListIsWhole
  <1>1. ASSUME TypeOK, Inv, stage = "in", lock = Free
        PROVE  /\ Chain[Cardinality(Handles)] = None
               /\ Listed \subseteq buf
               /\ loads = 1 => Listed = buf
    <2>1. PICK n \in Nat : \E q \in [1..n -> Handles] : Linked(n, q) /\ Keeping(n, q)
      BY <1>1 DEF Inv, Lists
    <2>2. PICK q \in [1..n -> Handles] : Linked(n, q) /\ Keeping(n, q)
      BY <2>1
    <2>3. Listed = {q[i] : i \in 1..n} /\ Chain[Cardinality(Handles)] = None
      BY <2>2, ListedIs
    <2>4. \A c \in Clients : pc[c] # "remove"
      BY <1>1, HandlesAssumption DEF Inv, Locked, HandlesAssumption
    <2>5. \A i \in 1..n : q[i] \in buf
      BY <2>2, <2>4 DEF Keeping
    <2>6. loads = 1 => \A h \in buf : h \in Listed
      BY <1>1, <2>2, <2>3 DEF Keeping
    <2>7. QED
      BY <2>3, <2>5, <2>6
  <1>2. TypeOK /\ Inv => ListIsWhole
    BY <1>1 DEF ListIsWhole
  <1>3. QED
    BY <1>2, DriverCorrect, PTL

-----------------------------------------------------------------------------
(* The promises of TipDmaPool *)

\* The handle that a process is busy with, or has.
Carried(c) == IF pc[c] \in {"answer", "free", "remove"} THEN arg[c] ELSE user[c]

\* What a process carries is listed when it is a handle that was finished.
LEMMA HoldingIs ==
  TypeOK /\ Inv =>
    /\ Listed \subseteq magic
    /\ \A c \in Clients :
         /\ Holding(c) = IF Carried(c) \in magic THEN Carried(c) ELSE None
         /\ Carried(c) \in magic => Carried(c) \in Listed /\ Carried(c) \in Mine(c)
  <1> SUFFICES ASSUME TypeOK, Inv
               PROVE  /\ Listed \subseteq magic
                      /\ \A c \in Clients :
                           /\ Holding(c) = IF Carried(c) \in magic THEN Carried(c) ELSE None
                           /\ Carried(c) \in magic => Carried(c) \in Listed /\ Carried(c) \in Mine(c)
    OBVIOUS
  <1>1. PICK n \in Nat : \E q \in [1..n -> Handles] : Linked(n, q) /\ Keeping(n, q)
    BY DEF Inv, Lists
  <1>2. PICK q \in [1..n -> Handles] : Linked(n, q) /\ Keeping(n, q)
    BY <1>1
  <1>3. Listed = {q[i] : i \in 1..n}
    BY <1>2, ListedIs
  <1>4. Listed \subseteq magic
    BY <1>2, <1>3 DEF Keeping
  <1>5. ASSUME NEW c \in Clients, Carried(c) \in magic
        PROVE  Carried(c) \in Listed /\ Carried(c) \in Mine(c)
    <2>1. Carried(c) \in Mine(c) \cap magic
      BY <1>5 DEF Carried, Mine, TypeOK
    <2>2. QED
      BY <1>2, <1>3, <2>1 DEF Keeping
  <1>6. \A c \in Clients : Holding(c) = IF Carried(c) \in Listed THEN Carried(c) ELSE None
    BY DEF Holding, Carried
  <1>7. QED
    BY <1>4, <1>5, <1>6

LEMMA ListedStays ==
  ASSUME Inv, UNCHANGED <<head, next>>
  PROVE  Listed' = Listed
  <1>1. PICK n \in Nat : \E q \in [1..n -> Handles] : Linked(n, q)
    BY DEF Inv, Lists
  <1>2. PICK q \in [1..n -> Handles] : Linked(n, q)
    BY <1>1
  <1>3. Linked(n, q)'
    BY <1>2 DEF Linked
  <1>4. QED
    BY <1>2, <1>3, ListedIs, ListedNext

LEMMA HoldingNext ==
  (TypeOK /\ Inv)' =>
    /\ Listed' \subseteq magic'
    /\ \A c \in Clients :
         /\ Holding(c)' = IF Carried(c)' \in magic' THEN Carried(c)' ELSE None
         /\ Carried(c)' \in magic' => Carried(c)' \in Listed'
  <1>1. (TypeOK /\ Inv =>
           /\ Listed \subseteq magic
           /\ \A c \in Clients :
                /\ Holding(c) = IF Carried(c) \in magic THEN Carried(c) ELSE None
                /\ Carried(c) \in magic => Carried(c) \in Listed /\ Carried(c) \in Mine(c))'
    BY HoldingIs, PTL
  <1>2. QED
    BY <1>1

\* Most steps change nothing that a process carries.
LEMMA Stutters ==
  ASSUME TypeOK /\ Inv, (TypeOK /\ Inv)', UNCHANGED <<head, next, magic>>,
         \A c \in Clients : \/ Carried(c)' = Carried(c)
                            \/ Carried(c) \notin magic /\ Carried(c)' \notin magic
  PROVE  UNCHANGED Pool!vars
  <1>1. \A c \in Clients : Holding(c)' = Holding(c)
    BY HoldingIs, HoldingNext
  <1>2. QED
    BY <1>1, ListedStays DEF Pool!vars

\* One process gives its handle up, or the driver takes it back.
LEMMA GivesUp ==
  ASSUME NEW c \in Clients, Holding(c) # None, Holding(c)' = None,
         \A d \in Clients : d # c => Holding(d)' = Holding(d),
         Listed' = Listed \/ Listed' = Listed \ {Holding(c)}
  PROVE  Pool!Next
  <1>1. [d \in Clients |-> Holding(d)]' = [[d \in Clients |-> Holding(d)] EXCEPT ![c] = None]
    OBVIOUS
  <1>2. Pool!Drop(c) \/ Pool!TakeBack(c)
    BY <1>1 DEF Pool!Drop, Pool!TakeBack
  <1>3. QED
    BY <1>2 DEF Pool!Next

\* The driver gives a process a buffer that nobody has and takes back the one
\* that the process has, whatever the requests do to the list between them: a
\* step of the driver is a step of TipDmaPool, or changes nothing there.
THEOREM GivesAndTakes == Spec => PoolSpec
  <1>1. Init => Pool!Init
    <2> SUFFICES ASSUME Init PROVE Pool!Init
      OBVIOUS
    <2>1. TypeOK /\ Inv
      BY Start
    <2>2. magic = {} /\ \A c \in Clients : Holding(c) = None
      BY <2>1, HoldingIs DEF Init, HandlesInit
    <2>3. Listed = {}
      BY <2>1, <2>2, HoldingIs
    <2>4. QED
      BY <2>2, <2>3 DEF Pool!Init
  <1>2. TypeOK /\ Inv /\ [Next]_vars /\ (TypeOK /\ Inv)' => [Pool!Next]_Pool!vars
    <2> SUFFICES ASSUME TypeOK /\ Inv, [Next]_vars, (TypeOK /\ Inv)'
                 PROVE  [Pool!Next]_Pool!vars
      OBVIOUS
    <2> USE DEF TypeOK
    <2>1. CASE Load \/ Rmmod \/ Clean
      <3>1. CASE UNCHANGED <<memory, pc, request>>
        BY <3>1, Stutters DEF memory, request, Carried
      <3>2. CASE Gone /\ stage' = "out"
        <4>1. \A c \in Clients : Carried(c)' = None
          BY <3>2 DEF Gone, Carried
        <4>2. None \notin magic /\ magic' = magic
          BY <3>2, HandlesAssumption DEF HandlesAssumption, Gone
        <4>3. \A c \in Clients : Holding(c)' = None
          BY <4>1, <4>2, HoldingNext
        <4>4. Listed' = {}
          BY <3>2, UnloadLists
        <4>5. Pool!Shutdown
          BY <4>3, <4>4 DEF Pool!Shutdown
        <4>6. QED
          BY <4>5 DEF Pool!Next
      <3>3. QED
        BY <2>1, <3>1, <3>2, LoadIs DEF serving, handleVars
    <2>3. ASSUME NEW c \in Clients, UNCHANGED <<head, next, magic>>, Carried(c)' = None,
                 \A d \in Clients : d # c => Carried(d)' = Carried(d)
          PROVE  [Pool!Next]_Pool!vars
      <3>1. None \notin magic
        BY HandlesAssumption DEF HandlesAssumption
      <3>2. CASE Carried(c) \in magic
        <4>1. Holding(c) # None /\ Holding(c)' = None
          BY <2>3, <3>1, <3>2, HoldingIs, HoldingNext
        <4>2. \A d \in Clients : d # c => Holding(d)' = Holding(d)
          BY <2>3, HoldingIs, HoldingNext
        <4>3. Listed' = Listed
          BY <2>3, ListedStays
        <4>4. QED
          BY <4>1, <4>2, <4>3, GivesUp
      <3>3. CASE Carried(c) \notin magic
        BY <2>3, <3>1, <3>3, Stutters
      <3>4. QED
        BY <3>2, <3>3
    <2>4. ASSUME NEW c \in Clients, Request(c)
          PROVE  [Pool!Next]_Pool!vars
      <3>1. UNCHANGED <<head, next, magic>>
        BY <2>4 DEF Request, Open, Close, AllocRequest, AllocCall, FreeRequest, FreeCall,
           RegisterRequest, ReadProc, memory, handleVars
      <3>2. CASE Close(c)
        BY <2>3, <3>1, <3>2 DEF Close, Carried
      <3>3. CASE ~Close(c)
        <4>1. \A d \in Clients : \/ Carried(d)' = Carried(d)
                                 \/ Carried(d) \notin magic /\ Carried(d)' \notin magic
          BY <2>4, <3>3, HandlesAssumption DEF Request, Open, AllocRequest, AllocCall, FreeRequest,
             FreeCall, RegisterRequest, ReadProc, Goto, Reach, handleVars, request, Carried,
             HandlesAssumption, Inv, Sessions
        <4>2. QED
          BY <3>1, <4>1, Stutters
      <3>4. QED
        BY <3>2, <3>3
    <2>5. ASSUME NEW c \in Clients, Handle(c)
          PROVE  [Pool!Next]_Pool!vars
      <3>0. UNCHANGED loading
        BY <2>5 DEF Handle
      <3>1. CASE Buffer(c)
        <4>1. PICK h \in Handles : h = arg[c]
          BY <3>1 DEF Buffer, Inv, Sessions
        <4>2. pc[c] = "buffer" /\ pc' = [pc EXCEPT ![c] = "answer"] /\ UNCHANGED <<arg, user>>
              /\ magic' = magic \union {h} /\ h \notin magic
          BY <3>1, <4>1 DEF Buffer, Goto, request, Inv, Owners
        <4>3. Holding(c) = None /\ Holding(c)' = h
          <5>1. user[c] = None /\ None \notin magic
            BY <4>2, HandlesAssumption DEF HandlesAssumption, Inv, Sessions
          <5>2. Carried(c) = None /\ Carried(c)' = h
            BY <4>1, <4>2, <5>1 DEF Carried
          <5>3. QED
            BY <4>2, <5>1, <5>2, HoldingIs, HoldingNext
        <4>4. ASSUME NEW d \in Clients, d # c
              PROVE  Holding(d)' = Holding(d)
          <5>1. Carried(d)' = Carried(d)
            BY <4>2, <4>4 DEF Carried
          <5>2. Carried(d) # h
            BY <4>1, <4>2, <4>4 DEF Carried, Mine, Inv, Owners
          <5>3. QED
            BY <4>2, <5>1, <5>2, HoldingIs, HoldingNext
        <4>5. h \notin Listed /\ Listed' = Listed \union {h}
          BY <3>0, <3>1, <4>1, <4>2, HoldingIs, BufferLists DEF Inv
        <4>6. [d \in Clients |-> Holding(d)]' = [[d \in Clients |-> Holding(d)] EXCEPT ![c] = h]
          BY <4>3, <4>4
        <4>7. Pool!Give(c, h)
          BY <4>3, <4>5, <4>6 DEF Pool!Give
        <4>8. QED
          BY <4>7 DEF Pool!Next
      <3>2. CASE ListRemove(c)
        <4>1. PICK h \in magic : h = arg[c]
          BY <3>2 DEF ListRemove, Inv, Owners
        <4>2. pc[c] = "remove" /\ pc' = [pc EXCEPT ![c] = "idle"]
              /\ arg' = [arg EXCEPT ![c] = None] /\ user' = user
          BY <3>2 DEF ListRemove, Goto, Return
        <4>3. magic' = magic \ {h} /\ None \notin magic
          <5>1. search[c] \in Handles
            BY <4>2 DEF Inv, Lists, Keeping
          <5>2. None \notin Handles
            BY HandlesAssumption DEF HandlesAssumption
          <5>3. QED
            BY <3>2, <4>1, <5>1, <5>2 DEF ListRemove
        <4>4. Holding(c) = h /\ Holding(c)' = None
          <5>1. user[c] = None
            BY <4>2 DEF Inv, Sessions
          <5>2. Carried(c) = h /\ Carried(c)' = None
            BY <4>1, <4>2, <5>1 DEF Carried
          <5>3. QED
            BY <4>1, <4>3, <5>2, HoldingIs, HoldingNext
        <4>5. ASSUME NEW d \in Clients, d # c
              PROVE  Holding(d)' = Holding(d)
          <5>1. Carried(d)' = Carried(d)
            BY <4>2, <4>5 DEF Carried
          <5>2. Carried(d) # h
            BY <4>1, <4>2, <4>5 DEF Carried, Mine, Inv, Owners
          <5>3. QED
            BY <4>3, <5>1, <5>2, HoldingIs, HoldingNext
        <4>6. Listed' = Listed \ {h}
          BY <3>0, <3>2, <4>1, RemoveLists DEF Inv
        <4>7. QED
          BY <4>1, <4>3, <4>4, <4>5, <4>6, GivesUp
      <3>3. CASE ~Buffer(c) /\ ~ListRemove(c)
        <4>1. UNCHANGED <<head, next, magic>>
          BY <2>5, <3>3 DEF Handle, Work, AllocFault, AllocLock, NoBuffer, Answer, FreeLock, ListWalk, memory
        <4>2. \A d \in Clients : \/ Carried(d)' = Carried(d)
                                 \/ Carried(d) \notin magic /\ Carried(d)' \notin magic
          BY <2>5, <3>3, HandlesAssumption DEF Handle, Work, AllocFault, AllocLock, NoBuffer, Answer, FreeLock,
             ListWalk, Goto, Return, request, Carried, HandlesAssumption, Inv, Sessions, Owners
        <4>3. QED
          BY <4>1, <4>2, Stutters
      <3>4. QED
        BY <3>1, <3>2, <3>3
    <2>6. ASSUME NEW c \in Clients, Interrupt(c)
          PROVE  [Pool!Next]_Pool!vars
      <3>1. CASE AllocSignal(c)
        BY <3>1, HandlesAssumption, Stutters DEF AllocSignal, Goto, memory, request, Carried,
           HandlesAssumption, Inv, Sessions
      <3>2. CASE FreeSignal(c)
        BY <2>3, <3>2 DEF FreeSignal, Return, Goto, memory, Carried, Inv, Sessions
      <3>3. QED
        BY <2>6, <3>1, <3>2 DEF Interrupt, Signal
    <2>7. ASSUME NEW c \in Clients, Word(c)
          PROVE  [Pool!Next]_Pool!vars
      BY <2>7, Stutters DEF Word, Goto, memory, request, Carried
    <2>8. CASE UNCHANGED vars
      BY <2>8, Stutters DEF vars, serving, handleVars, memory, request, Carried
    <2>9. QED
      BY <2>1, <2>4, <2>5, <2>6, <2>7, <2>8 DEF Next
  <1>3. QED
    BY <1>1, <1>2, DriverCorrect, PTL DEF Spec, PoolSpec, Pool!Spec

=============================================================================
