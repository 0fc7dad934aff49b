--------------------------- MODULE TipDmaHandles ---------------------------
(***************************************************************************)
(* DMA buffers in linux_driver/TIpcie.c: the handles, which are kernel     *)
(* memory, the list that links them, and the semaphore dma_buffer_lock.    *)
(* Processes ask with ioctl(TIPCIE_IOC_MEM), as tipAllocDmaMemory and      *)
(* tipFreeDmaMemory of TIpcieLib.c do: one buffer each, the handle kept    *)
(* from one request to the other.                                          *)
(*                                                                         *)
(* The addresses that user programs pass are good, so that copy_from_user  *)
(* and copy_to_user succeed; TIpcie_compat_ioctl is TIpcie_ioctl again.    *)
(***************************************************************************)
EXTENDS FiniteSets, Naturals

CONSTANTS
  Clients,   \* processes
  Handles,   \* addresses kmalloc can return for a handle
  None,      \* NULL
  Junk,      \* the 0x123456789 that tipAllocDmaMemory starts from
  Free,      \* dma_buffer_lock is up
  NoInit     \* dma_buffer_lock before sema_init

ASSUME HandlesAssumption ==
  /\ IsFiniteSet(Handles)
  /\ None \notin Handles /\ Junk \notin Handles /\ None # Junk
  /\ Free \notin Clients /\ NoInit \notin Clients /\ Free # NoInit

VARIABLES
  head,      \* dma_handle_list
  next,      \* dmahandle->next
  used,      \* handles that are allocated
  magic,     \* those with dmahandle->magic = TIPCIE_DMA_MAGIC
  buf,       \* those whose buffer is allocated
  lock,      \* who has dma_buffer_lock
  pc,        \* where a process is in its request
  arg,       \* dma_info.dma_osspec_hdl of the request
  search,    \* search_hdl, prev_hdl
  prev,
  user       \* tipMapInfo.dmaHdl: the handle that a process has

memory  == <<head, next, used, magic, buf>>
request == <<arg, search, prev, user>>
handleVars == <<memory, lock, pc, request>>

HandlesInit ==
  /\ head = None /\ next = [h \in Handles |-> None]
  /\ used = {} /\ magic = {} /\ buf = {}
  /\ pc = [c \in Clients |-> "idle"]
  /\ arg = [c \in Clients |-> None]
  /\ search = [c \in Clients |-> None] /\ prev = [c \in Clients |-> None]
  /\ user = [c \in Clients |-> None]

Goto(c, place) == pc' = [pc EXCEPT ![c] = place]

\* the request is over, and its locals with it
Return(c) ==
  /\ Goto(c, "idle")
  /\ arg' = [arg EXCEPT ![c] = None]
  /\ search' = [search EXCEPT ![c] = None]
  /\ prev' = [prev EXCEPT ![c] = None]

-----------------------------------------------------------------------------
(* TIPCIE_MEM_ALLOC.  TIpcie_ioctl returns 0 whatever TIpcieAllocDmaBuf did.  *)

AllocCall(c) ==
  /\ pc[c] = "idle" /\ user[c] = None
  /\ arg' = [arg EXCEPT ![c] = Junk]
  /\ Goto(c, "alloc")
  /\ UNCHANGED <<memory, lock, search, prev, user>>

\* down_interruptible before sema_init: the list of those that wait is null
AllocFault(c) ==
  /\ pc[c] = "alloc" /\ lock = NoInit
  /\ Goto(c, "oops")
  /\ UNCHANGED <<memory, lock, request>>

\* a signal: down_interruptible fails
AllocSignal(c) ==
  /\ pc[c] = "alloc" /\ lock \in Clients
  /\ Goto(c, "answer")
  /\ UNCHANGED <<memory, lock, request>>

\* down, then kmalloc, which may fail
AllocLock(c) ==
  /\ pc[c] = "alloc" /\ lock = Free
  /\ \/ \E h \in Handles \ used :
          /\ used' = used \union {h}
          /\ arg' = [arg EXCEPT ![c] = h]
          /\ lock' = c
          /\ Goto(c, "buffer")
     \/ Goto(c, "answer") /\ UNCHANGED <<used, lock, arg>>
  /\ UNCHANGED <<head, next, magic, buf, search, prev, user>>

\* the `up' is forgotten
SlipNoBuffer(c) ==
  /\ pc[c] = "buffer"
  /\ Goto(c, "answer")
  /\ UNCHANGED <<memory, lock, request>>

\* pci_alloc_consistent fails: the handle stays allocated, off the list
NoBuffer(c) ==
  /\ pc[c] = "buffer"
  /\ lock' = Free
  /\ Goto(c, "answer")
  /\ UNCHANGED <<memory, request>>

\* the handle takes the place of the first one
SlipListAdd(h) ==
  /\ next' = [next EXCEPT ![h] = IF head = None THEN None ELSE next[head]]
  /\ head' = h

\* dmaHandleListAdd
ListAdd(h) == next' = [next EXCEPT ![h] = head] /\ head' = h

Buffer(c) ==
  /\ pc[c] = "buffer"
  /\ buf' = buf \union {arg[c]}
  /\ magic' = magic \union {arg[c]}
  /\ ListAdd(arg[c])
  /\ lock' = Free
  /\ Goto(c, "answer")
  /\ UNCHANGED <<used, request>>

\* copy_to_user: tipAllocDmaMemory keeps what it finds in dma_info
Answer(c) ==
  /\ pc[c] = "answer"
  /\ user' = [user EXCEPT ![c] = arg[c]]
  /\ Return(c)
  /\ UNCHANGED <<memory, lock>>

-----------------------------------------------------------------------------
(* TIPCIE_MEM_FREE.  The magic is read before the semaphore is taken; what    *)
(* was never a handle is read too.                                            *)

FreeCall(c) ==
  /\ pc[c] = "idle" /\ user[c] # None
  /\ user' = [user EXCEPT ![c] = None]
  /\ \/ user[c] = Junk /\ Goto(c, "oops") /\ UNCHANGED arg
     \/ user[c] \in magic /\ Goto(c, "free") /\ arg' = [arg EXCEPT ![c] = user[c]]
     \/ user[c] \in Handles \ magic /\ UNCHANGED <<pc, arg>>
  /\ UNCHANGED <<memory, lock, search, prev>>

FreeSignal(c) ==
  /\ pc[c] = "free" /\ lock # Free
  /\ Return(c)
  /\ UNCHANGED <<memory, lock, user>>

\* the handle goes and its buffer stays
SlipFreeLock(c) ==
  /\ pc[c] = "free" /\ lock = Free
  /\ search' = [search EXCEPT ![c] = head]
  /\ prev' = [prev EXCEPT ![c] = head]
  /\ lock' = c
  /\ Goto(c, "remove")
  /\ UNCHANGED <<memory, arg, user>>

\* pci_free_consistent, then dmaHandleListRemove begins
FreeLock(c) ==
  /\ pc[c] = "free" /\ lock = Free
  /\ buf' = buf \ {arg[c]}
  /\ search' = [search EXCEPT ![c] = head]
  /\ prev' = [prev EXCEPT ![c] = head]
  /\ lock' = c
  /\ Goto(c, "remove")
  /\ UNCHANGED <<head, next, used, magic, arg, user>>

ListWalk(c) ==
  /\ pc[c] = "remove" /\ search[c] \notin {None, arg[c]}
  /\ prev' = [prev EXCEPT ![c] = search[c]]
  /\ search' = [search EXCEPT ![c] = next[search[c]]]
  /\ UNCHANGED <<memory, lock, pc, arg, user>>

\* the handle before the one found is not looked for
SlipUnlink(c) == head' = next[arg[c]] /\ next' = [next EXCEPT ![arg[c]] = None]

Unlink(c) ==
  IF prev[c] = search[c]
    THEN head' = next[arg[c]] /\ next' = [next EXCEPT ![arg[c]] = None]
    ELSE /\ next' = [next EXCEPT ![prev[c]] = next[arg[c]], ![arg[c]] = None]
         /\ UNCHANGED head

\* the end of the list, or the handle found: memset and kfree
ListRemove(c) ==
  /\ pc[c] = "remove" /\ search[c] \in {None, arg[c]}
  /\ IF search[c] = None THEN UNCHANGED <<head, next, used, magic>>
     ELSE Unlink(c) /\ magic' = magic \ {arg[c]} /\ used' = used \ {arg[c]}
  /\ lock' = Free
  /\ Return(c)
  /\ UNCHANGED <<buf, user>>

-----------------------------------------------------------------------------

Signal(c) == AllocSignal(c) \/ FreeSignal(c)

Work(c) ==
  \/ AllocFault(c) \/ AllocLock(c) \/ NoBuffer(c) \/ Buffer(c) \/ Answer(c)
  \/ FreeLock(c) \/ ListWalk(c) \/ ListRemove(c)

\* the handles that dma_handle_list leads to, in order
Chain[i \in Nat] ==
  IF i = 0 THEN head
  ELSE IF Chain[i - 1] = None THEN None ELSE next[Chain[i - 1]]

Listed == {Chain[i] : i \in 0..Cardinality(Handles)} \ {None}

\* the handle that a process has, or is just getting or giving back
Holding(c) ==
  LET h == IF pc[c] \in {"answer", "free", "remove"} THEN arg[c] ELSE user[c]
  IN IF h \in Listed THEN h ELSE None

Pool == INSTANCE TipDmaPool
          WITH live <- Listed, held <- [c \in Clients |-> Holding(c)]

=============================================================================
