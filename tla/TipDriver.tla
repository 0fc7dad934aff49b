----------------------------- MODULE TipDriver -----------------------------
(***************************************************************************)
(* linux_driver/TIpcie.c: the module is loaded step by step, each of which *)
(* may fail, serves requests, and is unloaded; TipDmaHandles has the       *)
(* requests for DMA memory, this module the others.                        *)
(*                                                                         *)
(* held is what the kernel has set up for the module, flags what the       *)
(* module believes (TIpcie_init_flags).  The interrupt is left out: it is  *)
(* set up under TEST_INTERRUPTS only.  The probe of pci_driver is not set, *)
(* so that the kernel does not call its remove.                            *)
(*                                                                         *)
(* Nothing keeps requests to the time when the module is in: the device    *)
(* and /proc/TIpcie are there from an early step of the load to a late one *)
(* of the unload, and file_operations has no owner that would keep the     *)
(* module while the device is open.                                        *)
(***************************************************************************)
EXTENDS TipDmaHandles

CONSTANT MaxLoads  \* bound of the model: loads in a behaviour

ASSUME DriverAssumption == MaxLoads \in Nat

Regions == 0..2     \* BAR0, BAR1, BAR2
Map == [r \in Regions |-> <<"map0", "map1", "map2">>[r + 1]]
Maps == {Map[r] : r \in Regions}
Flagged == {"proc", "chr", "class", "dev", "enable"} \union Maps

VARIABLES
  stage,     \* where TIpcie_init is; "in": loaded, "clean": in clean_module,
             \* "out": not in the kernel
  flags,     \* TIpcie_init_flags
  held,      \* what the kernel has set up
  rval,      \* what pci_register_driver returned: it worked
  loads,     \* loads begun
  opened,    \* processes that have the device open
  region     \* the region that a process's request is about

loading == <<stage, flags, held, rval, loads>>
serving == <<opened, region, handleVars>>
vars == <<loading, serving>>

Init ==
  /\ HandlesInit /\ lock = NoInit
  /\ stage = "out" /\ flags = {} /\ held = {} /\ rval = TRUE /\ loads = 0
  /\ opened = {} /\ region = [c \in Clients |-> 0]

-----------------------------------------------------------------------------
(* TIpcie_init *)

Went(from, to) == stage = from /\ stage' = to

\* The module is out of the kernel, and its statics with it.  A process that is
\* in it, or has the device open, goes on in code that is no more.
Gone ==
  /\ head' = None /\ lock' = NoInit
  /\ pc' = [c \in Clients |-> IF c \in opened \/ pc[c] # "idle" THEN "oops" ELSE "idle"]
  /\ arg' = [c \in Clients |-> None] /\ user' = [c \in Clients |-> None]
  /\ search' = [c \in Clients |-> None] /\ prev' = [c \in Clients |-> None]
  /\ opened' = {}
  /\ UNCHANGED <<region, next, used, magic, buf>>

\* clean_module: release what is flagged, the maps first, ...
Unmap(from) ==
  /\ Went(from, "clean")
  /\ held' = held \ (flags \cap Maps)
  /\ flags' = flags \ Maps
  /\ UNCHANGED serving

\* one flag is not looked at
SlipClean ==
  /\ Went("clean", "out") /\ Gone
  /\ held' = (held \ (flags \ {"class"})) \ {"pci"}
  /\ flags' = {}
  /\ UNCHANGED <<rval, loads>>

\* ... then pci_unregister_driver.  The reference to the device that
\* pci_get_device took is not returned.
Clean ==
  /\ Went("clean", "out") /\ Gone
  /\ held' = (held \ flags) \ {"pci"}
  /\ flags' = {}
  /\ UNCHANGED <<rval, loads>>

\* the step sets up a resource and flags it
Acquire(from, to, r) ==
  /\ Went(from, to)
  /\ held' = held \union {r} /\ flags' = flags \union {r}
  /\ UNCHANGED serving

Insmod ==
  /\ Went("out", "proc") /\ loads < MaxLoads /\ held \subseteq {"reference"}
  /\ loads' = loads + 1
  /\ \/ rval' = TRUE /\ held' = held \union {"pci"}
     \/ rval' = FALSE /\ UNCHANGED held
  /\ flags' = {}
  /\ UNCHANGED serving

\* register_proc returns nothing
RegisterProc ==
  /\ Went("proc", "chr")
  /\ flags' = flags \union {"proc"}
  /\ held' \in {held, held \union {"proc"}}
  /\ UNCHANGED <<rval, loads, serving>>

\* register_chrdev; its failure returns at once
RegisterChr ==
  /\ \/ Acquire("chr", "class", "chr")
     \/ Went("chr", "out") /\ Gone /\ UNCHANGED <<flags, held>>
  /\ UNCHANGED <<rval, loads>>

CreateClass ==
  /\ Acquire("class", "dev", "class") \/ Unmap("class")
  /\ UNCHANGED <<rval, loads>>

CreateDevice ==
  /\ Acquire("dev", "find", "dev") \/ Unmap("dev")
  /\ UNCHANGED <<rval, loads>>

\* findTIpcie: the status of pci_enable_device is not looked at
FindTIpcie ==
  /\ \/ /\ Went("find", "map0")
        /\ flags' = flags \union {"enable"}
        /\ held' \in {held \union {"reference"}, held \union {"reference", "enable"}}
        /\ UNCHANGED serving
     \/ Unmap("find")
  /\ UNCHANGED <<rval, loads>>

After == [r \in Regions |-> IF r = 2 THEN "sema" ELSE Map[r + 1]]

\* a map that fails is not told to TIpcie_init
SlipMapIn(r) ==
  /\ \/ Acquire(Map[r], After[r], Map[r])
     \/ Went(Map[r], After[r]) /\ UNCHANGED <<held, flags, serving>>
  /\ UNCHANGED <<rval, loads>>

\* mapInTIpcie, region by region
MapIn(r) ==
  /\ Acquire(Map[r], After[r], Map[r]) \/ Unmap(Map[r])
  /\ UNCHANGED <<rval, loads>>

\* sema_init, and return rval: the kernel drops a module whose init failed
SemaInit ==
  /\ \/ /\ rval /\ Went("sema", "in") /\ lock' = Free
        /\ UNCHANGED <<opened, region, memory, pc, request>>
     \/ ~rval /\ Went("sema", "out") /\ Gone
  /\ UNCHANGED <<flags, held, rval, loads>>

Load ==
  \/ Insmod \/ RegisterProc \/ RegisterChr \/ CreateClass \/ CreateDevice \/ FindTIpcie
  \/ (\E r \in Regions : MapIn(r)) \/ SemaInit

\* TIpcie_exit
Rmmod == Unmap("in") /\ UNCHANGED <<rval, loads>>

-----------------------------------------------------------------------------
(* Requests *)

\* A device or an entry of /proc that was left there by a module that is no more
\* leads nowhere.
Reach(c, place) == Goto(c, IF stage = "out" THEN "oops" ELSE place)

Open(c) ==
  /\ "chr" \in held /\ c \notin opened /\ pc[c] = "idle"
  /\ opened' = IF stage = "out" THEN opened ELSE opened \union {c}
  /\ Reach(c, "idle")
  /\ UNCHANGED <<loading, region, memory, lock, request>>

\* close, or the end of the process: what it has is forgotten
Close(c) ==
  /\ c \in opened /\ pc[c] = "idle"
  /\ opened' = opened \ {c}
  /\ user' = [user EXCEPT ![c] = None]
  /\ UNCHANGED <<loading, region, memory, lock, pc, arg, search, prev>>

AllocRequest(c) == c \in opened /\ AllocCall(c) /\ UNCHANGED <<loading, opened, region>>
FreeRequest(c)  == c \in opened /\ FreeCall(c) /\ UNCHANGED <<loading, opened, region>>

\* TIPCIE_IOC_RW with TIPCIE_RW_READ or _WRITE of at least one word; a request
\* that is refused at once, and TIPCIE_RW_STAT, change nothing.
RegisterRequest(c) ==
  /\ c \in opened /\ pc[c] = "idle"
  /\ \E r \in Regions : region' = [region EXCEPT ![c] = r]
  /\ Goto(c, "word")
  /\ UNCHANGED <<loading, opened, memory, lock, request>>

\* One word read or written; the last one, or a bad offset after it, ends the
\* request.  Where no map is, the address is null or stale.
Word(c) ==
  /\ pc[c] = "word"
  /\ IF Map[region[c]] \in held
       THEN \/ UNCHANGED <<pc, region>>
            \/ Goto(c, "idle") /\ region' = [region EXCEPT ![c] = 0]
       ELSE Goto(c, "oops") /\ UNCHANGED region
  /\ UNCHANGED <<loading, opened, memory, lock, request>>

\* cat /proc/TIpcie: TIpcie_proc_show reads the registers of BAR0
ReadProc(c) ==
  /\ "proc" \in held /\ pc[c] = "idle"
  /\ region' = [region EXCEPT ![c] = 0]
  /\ Reach(c, "word")
  /\ UNCHANGED <<loading, opened, memory, lock, request>>

Handle(c) == Work(c) /\ UNCHANGED <<loading, opened, region>>

Interrupt(c) == Signal(c) /\ UNCHANGED <<loading, opened, region>>

Request(c) ==
  \/ Open(c) \/ Close(c) \/ AllocRequest(c) \/ FreeRequest(c)
  \/ RegisterRequest(c) \/ ReadProc(c)

-----------------------------------------------------------------------------

Next ==
  \/ Load \/ Rmmod \/ Clean
  \/ \E c \in Clients : Request(c) \/ Handle(c) \/ Interrupt(c) \/ Word(c)

Spec == Init /\ [][Next]_vars

\* A process in a request runs, and gets the semaphore if it is up again and
\* again (up wakes the first that waits); a request has finitely many words.
\* Nobody has to be interrupted by a signal.
Fairness ==
  \A c \in Clients : SF_vars(Handle(c)) /\ WF_vars(Word(c) /\ pc'[c] # "word")

FairSpec == Spec /\ Fairness

-----------------------------------------------------------------------------
(* Properties *)

\* Every variable has its type.
TypeOK ==
  /\ head \in Handles \union {None}
  /\ next \in [Handles -> Handles \union {None}]
  /\ used \subseteq Handles /\ magic \subseteq used /\ buf \subseteq magic
  /\ lock \in Clients \union {Free, NoInit}
  /\ pc \in [Clients -> {"idle", "alloc", "buffer", "answer", "free", "remove",
                         "word", "oops"}]
  /\ arg \in [Clients -> Handles \union {None, Junk}]
  /\ search \in [Clients -> Handles \union {None}]
  /\ prev \in [Clients -> Handles \union {None}]
  /\ user \in [Clients -> Handles \union {None, Junk}]
  /\ stage \in {"out", "find", "sema", "in", "clean"} \union Flagged
  /\ flags \subseteq Flagged
  /\ held \subseteq Flagged \union {"pci", "reference"}
  /\ rval \in BOOLEAN /\ loads \in 0..MaxLoads
  /\ opened \subseteq Clients /\ region \in [Clients -> Regions]

\* Whichever step of the load failed, a module that is not in the kernel has
\* left nothing there but its reference to the device - unless
\* register_chrdev failed, which leaves what came before it, or
\* pci_register_driver, whose failure is returned with all of it set up.
NothingLeftBehind ==
  stage = "out" =>
    \/ held \subseteq {"reference"}
    \/ held \subseteq {"reference", "pci", "proc"} /\ flags = {"proc"}
    \/ ~rval /\ flags = Flagged

\* Once the load is through, and until the unload begins, a request - of the
\* device or of /proc/TIpcie, and one that came before the load was through, too -
\* finds the registers mapped and the semaphore set up: no process is lost in the
\* driver then but one that frees a handle which never was one.
ServedWhileIn ==
  [][\A c \in Clients :
       (stage = "in" /\ pc'[c] = "oops" /\ pc[c] # "oops") => user[c] = Junk]_vars

\* Between two requests the list has each handle with a buffer once, in a chain
\* that ends, and only handles that are allocated; what is allocated and not
\* listed was lost by a buffer that could not be had, or with a module that went.
ListIsWhole ==
  (stage = "in" /\ lock = Free) =>
    /\ Chain[Cardinality(Handles)] = None
    /\ Listed \subseteq buf
    /\ loads = 1 => Listed = buf

\* The driver keeps the promises of TipDmaPool.
PoolSpec == Pool!Spec

\* Each request ends, or is lost in the driver - it came before the load was
\* through, was there when the module went, or freed a handle that was never one -
\* and those that are lost keep nobody else from ending.
RequestsEnd == \A c \in Clients : (pc[c] # "idle") ~> (pc[c] \in {"idle", "oops"})

=============================================================================
