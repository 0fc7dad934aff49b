----------------------------- MODULE TipSession -----------------------------
(***************************************************************************)
(* Sessions with the board: tipOpen, tipInit and tipClose of TIpcieLib.c,  *)
(* in processes that share one board and nothing else (the library's       *)
(* mutex and globals are each process's own).  One process at a time sets  *)
(* the board up; others watch it (TIP_INIT_NO_INIT), as test/tipStatus.c.  *)
(*                                                                         *)
(* The driver answers as it promises in TipDmaPool, or fails.  The DMA     *)
(* memory is that of a build with ALLOCMEM.                                *)
(***************************************************************************)
EXTENDS FiniteSets, Naturals

CONSTANTS
  Procs,        \* processes, each of which runs once
  Buffers,      \* DMA buffers
  None,         \* no buffer, nobody
  Modes,        \* what tipInit may be asked for: a subset of AllModes
  MaxInits      \* bound of the model: calls of tipInit in a process

AllModes == {"watch", "master", "slave", "other"}

ASSUME SessionAssumption ==
  /\ None \notin Buffers /\ "zero" \notin Buffers /\ None \notin Procs
  /\ Modes \subseteq AllModes
  /\ MaxInits \in Nat

VARIABLES
  board,   \* the board's registers, as far as tipInit sets them
  gone,    \* the board is off the bus: writes are lost, all ones are read
  live,    \* the driver's buffers, and who has which: TipDmaPool
  held,
  pc,      \* where a process is
  mode,    \* what it asks tipInit for
  dma,     \* tipUseDma
  fd,      \* tipFD: "none" (0 or negative) or "open" (positive)
  fds,     \* descriptors it has open
  regs,    \* TIPp: "null", "mapped", "bad"
  jtag,    \* TIPpj
  source,  \* tipTriggerSource
  base,    \* tipDmaAddrBase: a buffer, or "zero"
  inits    \* calls of tipInit

pool    == <<live, held>>
library == <<pc, mode, dma, fd, fds, regs, jtag, source, base, inits>>
vars    == <<board, gone, pool, library>>

Pool == INSTANCE TipDmaPool WITH Clients <- Procs, Handles <- Buffers

\* What is in the registers before anybody sets the board up can be anything:
\* "?" and the levels 0 are no values that tipInit gives.
PowerUp ==
  [clock |-> "?", busy |-> "?", sync |-> "?", trig |-> "none",
   delay |-> "?", level |-> 0, buffer |-> 0, inputs |-> {"?"},
   dma |-> FALSE, addr |-> "zero"]

Init ==
  /\ board = PowerUp /\ gone = FALSE
  /\ Pool!Init
  /\ pc = [p \in Procs |-> "start"]
  /\ mode = [p \in Procs |-> "watch"] /\ dma = [p \in Procs |-> FALSE]
  /\ fd = [p \in Procs |-> "none"] /\ fds = [p \in Procs |-> 0]
  /\ regs = [p \in Procs |-> "null"] /\ jtag = [p \in Procs |-> "null"]
  /\ source = [p \in Procs |-> "none"]
  /\ base = [p \in Procs |-> "zero"] /\ inits = [p \in Procs |-> 0]

Goto(p, place) == pc' = [pc EXCEPT ![p] = place]
Set(new) == board' = IF gone THEN board ELSE new

Alive == {p \in Procs : pc[p] \notin {"start", "ended"}}

\* places between calls: "up" before a tipInit has returned OK, "ready" after,
\* "fifo" after tipEnableFifo, "running" with the triggers enabled
Ready == {"ready", "fifo"}
Idle  == {"up"} \union Ready

Start(p) ==
  /\ pc[p] = "start"
  /\ \E m \in Modes, d \in BOOLEAN :
       /\ m = "watch" => ~d
       /\ m # "watch" => \A q \in Alive : mode[q] = "watch"
       /\ mode' = [mode EXCEPT ![p] = m] /\ dma' = [dma EXCEPT ![p] = d]
  /\ Goto(p, "open")
  /\ UNCHANGED <<board, gone, pool, fd, fds, regs, jtag, source, base, inits>>

-----------------------------------------------------------------------------
(* tipOpen, called by the program (inits = 0) or by tipInit *)

OpenFailed(p) == Goto(p, "up")

SlipOpenDevice(p) ==
  /\ pc[p] = "open"
  /\ \/ /\ fd' = [fd EXCEPT ![p] = "open"]
        /\ fds' = [fds EXCEPT ![p] = @ + 1]
        /\ Goto(p, "memory")
     \/ OpenFailed(p) /\ UNCHANGED <<fd, fds>>
  /\ UNCHANGED <<board, gone, pool, mode, dma, regs, jtag, source, base, inits>>

OpenDevice(p) ==
  /\ pc[p] = "open"
  /\ \/ /\ fd[p] = "none"
        /\ fd' = [fd EXCEPT ![p] = "open"]
        /\ fds' = [fds EXCEPT ![p] = @ + 1]
        /\ Goto(p, "memory")
     \/ OpenFailed(p) /\ UNCHANGED <<fd, fds>>
  /\ UNCHANGED <<board, gone, pool, mode, dma, regs, jtag, source, base, inits>>

\* tipAllocDmaMemory: its failure is not told, and leaves the address 0
AllocDmaMemory(p) ==
  /\ pc[p] = "memory"
  /\ \/ \E b \in Buffers : Pool!Give(p, b) /\ base' = [base EXCEPT ![p] = b]
     \/ UNCHANGED <<pool, source, base>>
  /\ Goto(p, "bars")
  /\ UNCHANGED <<board, gone, mode, dma, fd, fds, regs, jtag, source, inits>>

\* TIPCIE_RW_STAT
GetPciBar(p) ==
  /\ pc[p] = "bars"
  /\ Goto(p, "map") \/ OpenFailed(p)
  /\ UNCHANGED <<board, gone, pool, mode, dma, fd, fds, regs, jtag, source, base, inits>>

\* the first mmap fails and MAP_FAILED is kept
SlipMapRegisters(p) ==
  /\ pc[p] = "map"
  /\ \E r \in {"mapped", "bad"} : regs' = [regs EXCEPT ![p] = r]
  /\ Goto(p, "mapjtag")
  /\ UNCHANGED <<board, gone, pool, mode, dma, fd, fds, jtag, source, base, inits>>

\* TIpcie_mmap of the driver
Mmap(pointer, p) == pointer' = [pointer EXCEPT ![p] = "mapped"]

MapRegisters(p) ==
  /\ pc[p] = "map"
  /\ \/ Mmap(regs, p) /\ Goto(p, "mapjtag")
     \/ OpenFailed(p) /\ UNCHANGED regs
  /\ UNCHANGED <<board, gone, pool, mode, dma, fd, fds, jtag, source, base, inits>>

\* back in the program, or in tipInit
MapJtag(p) ==
  /\ pc[p] = "mapjtag"
  /\ \/ /\ Mmap(jtag, p)
        /\ Goto(p, IF inits[p] = 0 THEN "up" ELSE "board")
     \/ OpenFailed(p) /\ UNCHANGED jtag
  /\ UNCHANGED <<board, gone, pool, mode, dma, fd, fds, regs, source, base, inits>>

-----------------------------------------------------------------------------
(* tipInit.  The programs go on to it whatever tipOpen returned, and may try   *)
(* again.                                                                      *)

CallInit(p) ==
  /\ pc[p] = "up" /\ inits[p] < MaxInits
  /\ inits' = [inits EXCEPT ![p] = @ + 1]
  /\ Goto(p, IF regs[p] = "null" THEN "open" ELSE "board")
  /\ UNCHANGED <<board, gone, pool, mode, dma, fd, fds, regs, jtag, source, base>>

Forget(p) == regs' = [regs EXCEPT ![p] = "null"]

\* the triggers are disabled for a program that watches, too
SlipCheckBoard(p) ==
  /\ pc[p] = "board"
  /\ \/ ~gone /\ Goto(p, "firmware") /\ Set([board EXCEPT !.trig = "none"]) /\ UNCHANGED regs
     \/ Goto(p, "up") /\ Forget(p) /\ UNCHANGED board
  /\ UNCHANGED <<gone, pool, mode, dma, fd, fds, jtag, source, base, inits>>

\* boardID is that of a TI, or TIPp is forgotten
CheckBoard(p) ==
  /\ pc[p] = "board"
  /\ \/ /\ ~gone
        /\ IF mode[p] = "watch" THEN UNCHANGED board
           ELSE Set([board EXCEPT !.trig = "none"])
        /\ Goto(p, "firmware") /\ UNCHANGED regs
     \/ Goto(p, "up") /\ Forget(p) /\ UNCHANGED board
  /\ UNCHANGED <<gone, pool, mode, dma, fd, fds, jtag, source, base, inits>>

\* tipGetFirmwareVersion, by JTAG: the process dies if that is not mapped.  A
\* version that is not supported forgets TIPp, one that is zero does not.
FirmwareVersions(p) ==
  IF jtag[p] = "mapped" THEN {"supported", "unsupported", "zero"} ELSE {}

CheckFirmware(p) ==
  /\ pc[p] = "firmware"
  /\ \/ /\ "supported" \in FirmwareVersions(p)
        /\ Goto(p, IF mode[p] = "watch" THEN "ready" ELSE "reset") /\ UNCHANGED regs
     \/ "unsupported" \in FirmwareVersions(p) /\ Goto(p, "up") /\ Forget(p)
     \/ "zero" \in FirmwareVersions(p) /\ Goto(p, "up") /\ UNCHANGED regs
     \/ FirmwareVersions(p) = {} /\ Goto(p, "crash") /\ UNCHANGED regs
  /\ UNCHANGED <<board, gone, pool, mode, dma, fd, fds, jtag, source, base, inits>>

\* TIP_RESET_SOFT: whether it clears DMA_DATA_ENABLE is not told in src
Reset(b) == {b, [b EXCEPT !.dma = FALSE]}

DmaConfig(b) == [b EXCEPT !.dma = TRUE]

\* only an address that was never set is set
SlipDmaSetAddr(b, a) == IF b.addr = "zero" THEN [b EXCEPT !.addr = a] ELSE b

DmaSetAddr(b, a) == [b EXCEPT !.addr = a]

\* tipEnableFifo clears bits 22 to 24 of vmeControl, and DMA_DATA_ENABLE is
\* bit 26.
Fifo(b) == b

ResetBoard(p) ==
  /\ pc[p] = "reset"
  /\ \E b \in Reset(board) :
       Set(IF dma[p] THEN DmaSetAddr(DmaConfig(b), base[p]) ELSE Fifo(b))
  /\ Goto(p, "mode")
  /\ UNCHANGED <<gone, pool, mode, dma, fd, fds, regs, jtag, source, base, inits>>

\* tipSetClockSource(1): the clock may stay what it was, which is an error
ClockSources(b) == {"hfbr1", b.clock}

MasterMode(b)   == [b EXCEPT !.busy = "loopback", !.clock = "internal", !.sync = "loopback"]
SlaveMode(b, c) == [b EXCEPT !.busy = "none", !.clock = c, !.sync = "hfbr1"]

\* tipSetTriggerSource, which only keeps the sources: a slave's is its fiber
\* whatever it asks for, a master's own are told apart from none only.
SetTriggerSource(p) ==
  source' = [source EXCEPT ![p] = IF mode[p] = "slave" THEN "hfbr1" ELSE "own"]

\* the results of these calls are not looked at
SetMode(p) ==
  /\ pc[p] = "mode"
  /\ \/ /\ mode[p] = "master" /\ Goto(p, "finish")
        /\ Set(MasterMode(board)) /\ UNCHANGED source
     \/ /\ mode[p] = "slave" /\ Goto(p, "fiber")
        /\ \E c \in ClockSources(board) : Set(SlaveMode(board, c))
        /\ SetTriggerSource(p)
     \/ mode[p] = "other" /\ Goto(p, "up") /\ UNCHANGED <<board, source>>
  /\ UNCHANGED <<gone, pool, mode, dma, fd, fds, regs, jtag, base, inits>>

\* the clock is not asked for
SlipFiberMeas(p) ==
  /\ pc[p] = "fiber"
  /\ \/ Set([board EXCEPT !.delay = "measured"]) /\ Goto(p, "finish")
     \/ Set([board EXCEPT !.delay = "bad"]) /\ Goto(p, "up")
  /\ UNCHANGED <<gone, pool, mode, dma, fd, fds, regs, jtag, source, base, inits>>

\* FiberMeas: with the right clock, two measurements that agree and are in
\* bounds, or an error
FiberMeas(p) ==
  /\ pc[p] = "fiber"
  /\ IF gone \/ board.clock # "hfbr1"
       THEN Set([board EXCEPT !.delay = "default"]) /\ Goto(p, "up")
       ELSE \/ Set([board EXCEPT !.delay = "measured"]) /\ Goto(p, "finish")
            \/ Set([board EXCEPT !.delay = "bad"]) /\ Goto(p, "up")
  /\ UNCHANGED <<gone, pool, mode, dma, fd, fds, regs, jtag, source, base, inits>>

\* sync delay, block level 1 (master), buffer level 1, no inputs of the TS
FinishInit(p) ==
  /\ pc[p] = "finish"
  /\ Set([board EXCEPT
            !.delay = IF mode[p] = "master" THEN "offset" ELSE @,
            !.level = IF mode[p] = "master" THEN 1 ELSE @,
            !.buffer = 1, !.inputs = {}])
  /\ Goto(p, "ready")
  /\ UNCHANGED <<gone, pool, mode, dma, fd, fds, regs, jtag, source, base, inits>>

-----------------------------------------------------------------------------
(* The rest of the session *)

\* called by the program
ChooseSource(p) ==
  /\ pc[p] \in Ready \union {"running"} /\ mode[p] # "watch"
  /\ SetTriggerSource(p)
  /\ UNCHANGED <<board, gone, pool, pc, mode, dma, fd, fds, regs, jtag, base, inits>>

EnableTriggers(p) ==
  /\ pc[p] \in Ready /\ mode[p] # "watch"
  /\ Set([board EXCEPT !.trig = source[p]])
  /\ Goto(p, "running")
  /\ UNCHANGED <<gone, pool, mode, dma, fd, fds, regs, jtag, source, base, inits>>

DisableTriggers(p) ==
  /\ pc[p] = "running"
  /\ Set([board EXCEPT !.trig = "none"])
  /\ Goto(p, "ready")
  /\ UNCHANGED <<gone, pool, mode, dma, fd, fds, regs, jtag, source, base, inits>>

\* called by the program
EnableFifo(p) ==
  /\ pc[p] = "ready" /\ mode[p] # "watch"
  /\ Set(Fifo(board))
  /\ Goto(p, "fifo")
  /\ UNCHANGED <<gone, pool, mode, dma, fd, fds, regs, jtag, source, base, inits>>

\* the process and its globals are no more
End(p) ==
  /\ Goto(p, "ended")
  /\ fd' = [fd EXCEPT ![p] = "none"] /\ fds' = [fds EXCEPT ![p] = 0]
  /\ regs' = [regs EXCEPT ![p] = "null"] /\ jtag' = [jtag EXCEPT ![p] = "null"]
  /\ mode' = [mode EXCEPT ![p] = "watch"] /\ dma' = [dma EXCEPT ![p] = FALSE]
  /\ source' = [source EXCEPT ![p] = "none"]
  /\ base' = [base EXCEPT ![p] = "zero"] /\ inits' = [inits EXCEPT ![p] = 0]

\* tipClose, which gives the buffer back - the driver may be interrupted - and
\* is the last call of every program.  It does not ask whether the triggers are
\* disabled, and leaves the board as it is.
Close(p) ==
  /\ pc[p] \in Idle \union {"running"} /\ regs[p] # "null"
  /\ IF held[p] # None THEN Pool!TakeBack(p) \/ Pool!Drop(p) ELSE UNCHANGED pool
  /\ End(p)
  /\ UNCHANGED <<board, gone>>

\* the process ends without it, at any point
Die(p) ==
  /\ pc[p] \notin {"start", "ended"}
  /\ IF held[p] # None THEN Pool!Drop(p) ELSE UNCHANGED pool
  /\ End(p)
  /\ UNCHANGED <<board, gone>>

BoardLost ==
  /\ ~gone /\ gone' = TRUE
  /\ UNCHANGED <<board, pool, library>>

-----------------------------------------------------------------------------

Open(p) == OpenDevice(p) \/ AllocDmaMemory(p) \/ GetPciBar(p) \/ MapRegisters(p)
           \/ MapJtag(p)

InitBoard(p) ==
  \/ CallInit(p) \/ CheckBoard(p) \/ CheckFirmware(p) \/ ResetBoard(p)
  \/ SetMode(p) \/ FiberMeas(p) \/ FinishInit(p)

Next ==
  \/ \E p \in Procs :
       \/ Start(p) \/ Open(p) \/ InitBoard(p)
       \/ ChooseSource(p) \/ EnableTriggers(p) \/ DisableTriggers(p) \/ EnableFifo(p)
       \/ Close(p) \/ Die(p)
  \/ BoardLost

Spec == Init /\ [][Next]_vars

-----------------------------------------------------------------------------
(* Properties *)

Registers ==
  [clock : {"?", "internal", "hfbr1"}, busy : {"?", "loopback", "none"},
   sync : {"?", "loopback", "hfbr1"}, trig : {"none", "hfbr1", "own"},
   delay : {"?", "offset", "measured", "default", "bad"},
   level : {0, 1}, buffer : {0, 1}, inputs : {{}, {"?"}},
   dma : BOOLEAN, addr : Buffers \union {"zero"}]

\* Every variable has its type.
TypeOK ==
  /\ board \in Registers
  /\ gone \in BOOLEAN
  /\ live \subseteq Buffers /\ held \in [Procs -> Buffers \union {None}]
  /\ pc \in [Procs -> {"start", "open", "memory", "bars", "map", "mapjtag", "up", "board",
                       "firmware", "reset", "mode", "fiber", "finish", "ready",
                       "running", "fifo", "crash", "ended"}]
  /\ mode \in [Procs -> AllModes] /\ dma \in [Procs -> BOOLEAN]
  /\ fd \in [Procs -> {"none", "open"}]
  /\ fds \in [Procs -> 0..1]
  /\ regs \in [Procs -> {"null", "mapped"}] /\ jtag \in [Procs -> {"null", "mapped"}]
  /\ source \in [Procs -> {"none", "hfbr1", "own"}]
  /\ base \in [Procs -> Buffers \union {"zero"}] /\ inits \in [Procs -> 0..MaxInits]

\* Wherever tipOpen or an earlier tipInit failed, each later step of the session
\* is on registers that are mapped, through a device that is open; a process
\* crashes only if it went on after the second mmap of tipOpen had failed.
SafeUse ==
  \A p \in Procs :
    /\ pc[p] \in {"board", "firmware", "reset", "mode", "fiber", "finish", "ready",
                  "fifo", "running"} => (regs[p] = "mapped" /\ fds[p] = 1)
    /\ pc[p] \in {"reset", "ready", "fifo", "running"} => jtag[p] = "mapped"
    /\ pc[p] = "crash" => (regs[p] = "mapped" /\ jtag[p] = "null")

\* While the process whose tipInit returned OK is at work, the board is as that
\* tipInit means it to be, although tipInit ignores what its calls return,
\* whatever was there before, and whoever watches.
InitMeansReady ==
  \A p \in Procs :
    (pc[p] \in Ready \union {"running"} /\ mode[p] # "watch" /\ ~gone) =>
      /\ pc[p] # "running" => board.trig = "none"
      /\ board.buffer = 1 /\ board.inputs = {}
      /\ mode[p] = "master" =>
           board.clock = "internal" /\ board.sync = "loopback" /\ board.level = 1
      /\ mode[p] = "slave" =>
           /\ board.clock = "hfbr1" /\ board.sync = "hfbr1"
           /\ source[p] = "hfbr1" /\ board.delay = "measured"
           /\ pc[p] = "running" => board.trig = "hfbr1"

\* While a program that uses DMA is at work, the board has the address of the
\* buffer that the driver gave to this process, or 0 if it gave none, whatever
\* sessions before it were closed or died with the triggers on.
DmaToOwnMemory ==
  \A p \in Procs :
    (dma[p] /\ pc[p] \in Ready \union {"running"} /\ ~gone) =>
      board.dma /\ board.addr = IF held[p] = None THEN "zero" ELSE held[p]

\* tipEnableFifo: "Enable the readout fifo in BAR0 for block data readout,
\* instead of DMA."
FifoInsteadOfDma ==
  \A p \in Procs : (pc[p] = "fifo" /\ ~gone) => ~board.dma

=============================================================================
