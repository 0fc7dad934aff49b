----------------------------- MODULE TipDmaPool -----------------------------
(***************************************************************************)
(* What the TIpcie driver promises about DMA memory (linux_driver/TIpcie.c,*)
(* TIpcieAllocDmaBuf, TIpcieFreeDmaBuf): a process is given a buffer that  *)
(* no other has, and gives back that one and no other.  No semaphore, no   *)
(* list and no request half done.                                          *)
(***************************************************************************)

CONSTANTS Clients,  \* processes
          Handles,  \* buffers there can be
          None      \* no buffer: not in Handles

VARIABLES live,     \* the buffers that the driver keeps
          held      \* the one that each process has

vars == <<live, held>>

Init == live = {} /\ held = [c \in Clients |-> None]

Give(c, h) ==
  /\ held[c] = None /\ h \notin live
  /\ live' = live \union {h} /\ held' = [held EXCEPT ![c] = h]

TakeBack(c) ==
  /\ held[c] # None
  /\ live' = live \ {held[c]} /\ held' = [held EXCEPT ![c] = None]

\* the process ends, or does not try again: the driver keeps the buffer
Drop(c) ==
  /\ held[c] # None
  /\ held' = [held EXCEPT ![c] = None] /\ UNCHANGED live

\* the driver is unloaded, and its promises with it
Shutdown == live' = {} /\ held' = [c \in Clients |-> None]

Next ==
  \/ \E c \in Clients, h \in Handles : Give(c, h)
  \/ \E c \in Clients : TakeBack(c) \/ Drop(c)
  \/ Shutdown

Spec == Init /\ [][Next]_vars

\* No two processes have one buffer, and nobody has one that the driver
\* does not keep.
Exclusive ==
  \A c \in Clients : held[c] # None =>
    /\ held[c] \in live
    /\ \A d \in Clients \ {c} : held[d] # held[c]

=============================================================================
