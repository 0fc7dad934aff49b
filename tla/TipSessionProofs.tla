-------------------------- MODULE TipSessionProofs --------------------------
(***************************************************************************)
(* Proofs about TipSession, for any number of processes, buffers and       *)
(* calls of tipInit.                                                       *)
(***************************************************************************)
EXTENDS TipSession, TLAPS

\* One process at a time sets the board up, and only it is where the board's
\* registers are written.
SoleSetter ==
  /\ \A p, q \in Procs : mode[p] # "watch" /\ mode[q] # "watch" => p = q
  /\ \A p \in Procs :
       /\ pc[p] \in {"reset", "mode", "fiber", "finish", "fifo", "running"} =>
            mode[p] # "watch"
       /\ pc[p] = "fiber" => mode[p] = "slave"
       /\ pc[p] = "finish" => mode[p] \in {"master", "slave"}
       /\ pc[p] \in Ready \union {"running"} => mode[p] # "other"
       /\ dma[p] => mode[p] # "watch"

\* A process that is not there has nothing.
Absent ==
  \A p \in Procs : pc[p] \in {"start", "ended"} =>
    mode[p] = "watch" /\ fds[p] = 0 /\ regs[p] = "null" /\ held[p] = None

\* tipFD says whether the one descriptor is open, and the registers are mapped
\* through it, from their mmap until they are forgotten.
Descriptors ==
  \A p \in Procs :
    /\ fds[p] = IF fd[p] = "open" THEN 1 ELSE 0
    /\ regs[p] = "mapped" => fd[p] = "open"
    /\ pc[p] \in {"memory", "bars", "map"} => fd[p] = "open"
    /\ pc[p] \in {"mapjtag", "board", "firmware", "reset", "mode", "fiber", "finish",
                  "ready", "fifo", "running", "crash"} => regs[p] = "mapped"
    /\ pc[p] \in {"reset", "mode", "fiber", "finish", "ready", "fifo", "running"} =>
         jtag[p] = "mapped"
    /\ pc[p] = "crash" => jtag[p] = "null"

\* tipDmaAddrBase is the buffer that the driver gave the process, and no other
\* process has it.
Memory ==
  /\ \A p \in Procs : base[p] = IF held[p] = None THEN "zero" ELSE held[p]
  /\ \A p \in Procs : held[p] # None => held[p] \in live
  /\ \A p, q \in Procs : held[p] # None /\ held[p] = held[q] => p = q

\* What each part of tipInit has made of the board holds until the process ends.
SetUp ==
  \A p \in Procs : (mode[p] # "watch" /\ ~gone) =>
    /\ pc[p] \in {"firmware", "reset", "mode", "fiber", "finish"} \union Ready =>
         board.trig = "none"
    /\ pc[p] \in {"fiber"} => board.sync = "hfbr1" /\ source[p] = "hfbr1"
    /\ pc[p] \in {"finish", "running"} \union Ready =>
         /\ mode[p] = "master" => board.clock = "internal" /\ board.sync = "loopback"
         /\ mode[p] = "slave" =>
              /\ board.clock = "hfbr1" /\ board.sync = "hfbr1"
              /\ source[p] = "hfbr1" /\ board.delay = "measured"
    /\ pc[p] \in {"running"} \union Ready =>
         /\ board.buffer = 1 /\ board.inputs = {}
         /\ mode[p] = "master" => board.level = 1
    /\ pc[p] = "running" /\ mode[p] = "slave" => board.trig = "hfbr1"

\* From the reset on, DMA goes to the buffer of the process that asked for it.
OwnDma ==
  \A p \in Procs :
    (dma[p] /\ ~gone /\ pc[p] \in {"mode", "fiber", "finish", "running"} \union Ready) =>
      board.dma /\ board.addr = base[p]

Inv == SoleSetter /\ Absent /\ Descriptors /\ Memory /\ SetUp /\ OwnDma

-----------------------------------------------------------------------------
LEMMA MasterModeSets ==
  ASSUME NEW b \in Registers
  PROVE  /\ MasterMode(b) \in Registers
         /\ MasterMode(b).trig = b.trig /\ MasterMode(b).dma = b.dma
         /\ MasterMode(b).addr = b.addr /\ MasterMode(b).clock = "internal"
         /\ MasterMode(b).sync = "loopback"
  <1> DEFINE two == [b EXCEPT !.busy = "loopback", !.clock = "internal"]
  <1>1. two \in Registers
    BY DEF Registers
  <1>2. \A c \in Registers : [c EXCEPT !.sync = "loopback"] \in Registers
    BY DEF Registers
  <1>3. MasterMode(b) = [two EXCEPT !.sync = "loopback"]
    BY DEF MasterMode
  <1>4. MasterMode(b) \in Registers
    BY ONLY <1>1, <1>2, <1>3
  <1>5. QED
    BY <1>4 DEF MasterMode, Registers

LEMMA SlaveModeSets ==
  ASSUME NEW b \in Registers, NEW c \in ClockSources(b)
  PROVE  /\ SlaveMode(b, c) \in Registers
         /\ SlaveMode(b, c).trig = b.trig /\ SlaveMode(b, c).dma = b.dma
         /\ SlaveMode(b, c).addr = b.addr /\ SlaveMode(b, c).clock = c
         /\ SlaveMode(b, c).sync = "hfbr1"
  <1> DEFINE two == [b EXCEPT !.busy = "none", !.clock = c]
  <1>1. two \in Registers
    BY DEF Registers, ClockSources
  <1>2. \A d \in Registers : [d EXCEPT !.sync = "hfbr1"] \in Registers
    BY DEF Registers
  <1>3. SlaveMode(b, c) = [two EXCEPT !.sync = "hfbr1"]
    BY DEF SlaveMode
  <1>4. SlaveMode(b, c) \in Registers
    BY ONLY <1>1, <1>2, <1>3
  <1>5. QED
    BY <1>4 DEF SlaveMode, Registers

LEMMA Inductive == TypeOK /\ Inv /\ [Next]_vars => TypeOK' /\ Inv'
  <1> SUFFICES ASSUME TypeOK, Inv, [Next]_vars PROVE TypeOK' /\ Inv'
    OBVIOUS
  <1> USE SessionAssumption DEF SessionAssumption, AllModes, Ready, Idle, Goto, pool, Inv
  <1>1. ASSUME NEW p \in Procs, Start(p) PROVE TypeOK' /\ Inv'
    <2>0. /\ pc' \in [Procs -> {"open"} \union {pc[q] : q \in Procs}]
          /\ mode' \in [Procs -> AllModes] /\ dma' \in [Procs -> BOOLEAN]
      BY <1>1 DEF Start, TypeOK
    <2>1. TypeOK'
      BY <1>1, <2>0 DEF Start, TypeOK
    <2>2. SoleSetter'
      BY <1>1 DEF Start, Alive, TypeOK, SoleSetter, Absent
    <2>3. Absent'
      BY <1>1 DEF Start, Alive, TypeOK, Absent, SoleSetter, Descriptors
    <2>4. Descriptors'
      BY <1>1 DEF Start, Alive, TypeOK, Descriptors
    <2>5. Memory'
      BY <1>1 DEF Start, Alive, TypeOK, Memory, Absent
    <2>6. SetUp'
      BY <1>1 DEF Start, Alive, TypeOK, SetUp, SoleSetter, Absent
    <2>7. OwnDma'
      BY <1>1 DEF Start, Alive, TypeOK, OwnDma, SoleSetter
    <2>8. QED
      BY <2>1, <2>2, <2>3, <2>4, <2>5, <2>6, <2>7
  <1>2. ASSUME NEW p \in Procs, OpenDevice(p) PROVE TypeOK' /\ Inv'
    <2>1. TypeOK'
      BY <1>2 DEF OpenDevice, OpenFailed, TypeOK, Descriptors
    <2>2. SoleSetter'
      BY <1>2 DEF OpenDevice, OpenFailed, TypeOK, SoleSetter, Absent
    <2>3. Absent'
      BY <1>2 DEF OpenDevice, OpenFailed, TypeOK, Absent, SoleSetter, Descriptors
    <2>4. Descriptors'
      BY <1>2 DEF OpenDevice, OpenFailed, TypeOK, Descriptors
    <2>5. Memory'
      BY <1>2 DEF OpenDevice, OpenFailed, TypeOK, Memory, Absent
    <2>6. SetUp'
      BY <1>2 DEF OpenDevice, OpenFailed, TypeOK, SetUp, SoleSetter, Absent
    <2>7. OwnDma'
      BY <1>2 DEF OpenDevice, OpenFailed, TypeOK, OwnDma, SoleSetter
    <2>8. QED
      BY <2>1, <2>2, <2>3, <2>4, <2>5, <2>6, <2>7
  <1>3. ASSUME NEW p \in Procs, AllocDmaMemory(p) PROVE TypeOK' /\ Inv'
    <2>1. TypeOK'
      BY <1>3 DEF AllocDmaMemory, Pool!Give, TypeOK, Descriptors
    <2>2. SoleSetter'
      BY <1>3 DEF AllocDmaMemory, Pool!Give, TypeOK, SoleSetter, Absent
    <2>3. Absent'
      BY <1>3 DEF AllocDmaMemory, Pool!Give, TypeOK, Absent, SoleSetter, Descriptors
    <2>4. Descriptors'
      BY <1>3 DEF AllocDmaMemory, Pool!Give, TypeOK, Descriptors
    <2>5. Memory'
      BY <1>3 DEF AllocDmaMemory, Pool!Give, TypeOK, Memory, Absent
    <2>6. SetUp'
      BY <1>3 DEF AllocDmaMemory, Pool!Give, TypeOK, SetUp, SoleSetter, Absent
    <2>7. OwnDma'
      BY <1>3 DEF AllocDmaMemory, Pool!Give, TypeOK, OwnDma, SoleSetter
    <2>8. QED
      BY <2>1, <2>2, <2>3, <2>4, <2>5, <2>6, <2>7
  <1>4. ASSUME NEW p \in Procs, GetPciBar(p) PROVE TypeOK' /\ Inv'
    <2>1. TypeOK'
      BY <1>4 DEF GetPciBar, OpenFailed, TypeOK, Descriptors
    <2>2. SoleSetter'
      BY <1>4 DEF GetPciBar, OpenFailed, TypeOK, SoleSetter, Absent
    <2>3. Absent'
      BY <1>4 DEF GetPciBar, OpenFailed, TypeOK, Absent, SoleSetter, Descriptors
    <2>4. Descriptors'
      BY <1>4 DEF GetPciBar, OpenFailed, TypeOK, Descriptors
    <2>5. Memory'
      BY <1>4 DEF GetPciBar, OpenFailed, TypeOK, Memory, Absent
    <2>6. SetUp'
      BY <1>4 DEF GetPciBar, OpenFailed, TypeOK, SetUp, SoleSetter, Absent
    <2>7. OwnDma'
      BY <1>4 DEF GetPciBar, OpenFailed, TypeOK, OwnDma, SoleSetter
    <2>8. QED
      BY <2>1, <2>2, <2>3, <2>4, <2>5, <2>6, <2>7
  <1>5. ASSUME NEW p \in Procs, MapRegisters(p) PROVE TypeOK' /\ Inv'
    <2>1. TypeOK'
      BY <1>5 DEF MapRegisters, OpenFailed, Mmap, TypeOK, Descriptors
    <2>2. SoleSetter'
      BY <1>5 DEF MapRegisters, OpenFailed, Mmap, TypeOK, SoleSetter, Absent
    <2>3. Absent'
      BY <1>5 DEF MapRegisters, OpenFailed, Mmap, TypeOK, Absent, SoleSetter, Descriptors
    <2>4. Descriptors'
      BY <1>5 DEF MapRegisters, OpenFailed, Mmap, TypeOK, Descriptors
    <2>5. Memory'
      BY <1>5 DEF MapRegisters, OpenFailed, Mmap, TypeOK, Memory, Absent
    <2>6. SetUp'
      BY <1>5 DEF MapRegisters, OpenFailed, Mmap, TypeOK, SetUp, SoleSetter, Absent
    <2>7. OwnDma'
      BY <1>5 DEF MapRegisters, OpenFailed, Mmap, TypeOK, OwnDma, SoleSetter
    <2>8. QED
      BY <2>1, <2>2, <2>3, <2>4, <2>5, <2>6, <2>7
  <1>6. ASSUME NEW p \in Procs, MapJtag(p) PROVE TypeOK' /\ Inv'
    <2>1. TypeOK'
      BY <1>6 DEF MapJtag, OpenFailed, Mmap, TypeOK, Descriptors
    <2>2. SoleSetter'
      BY <1>6 DEF MapJtag, OpenFailed, Mmap, TypeOK, SoleSetter, Absent
    <2>3. Absent'
      BY <1>6 DEF MapJtag, OpenFailed, Mmap, TypeOK, Absent, SoleSetter, Descriptors
    <2>4. Descriptors'
      BY <1>6 DEF MapJtag, OpenFailed, Mmap, TypeOK, Descriptors
    <2>5. Memory'
      BY <1>6 DEF MapJtag, OpenFailed, Mmap, TypeOK, Memory, Absent
    <2>6. SetUp'
      BY <1>6 DEF MapJtag, OpenFailed, Mmap, TypeOK, SetUp, SoleSetter, Absent
    <2>7. OwnDma'
      BY <1>6 DEF MapJtag, OpenFailed, Mmap, TypeOK, OwnDma, SoleSetter
    <2>8. QED
      BY <2>1, <2>2, <2>3, <2>4, <2>5, <2>6, <2>7
  <1>7. ASSUME NEW p \in Procs, CallInit(p) PROVE TypeOK' /\ Inv'
    <2>1. TypeOK'
      BY <1>7 DEF CallInit, TypeOK, Descriptors
    <2>2. SoleSetter'
      BY <1>7 DEF CallInit, TypeOK, SoleSetter, Absent
    <2>3. Absent'
      BY <1>7 DEF CallInit, TypeOK, Absent, SoleSetter, Descriptors
    <2>4. Descriptors'
      BY <1>7 DEF CallInit, TypeOK, Descriptors
    <2>5. Memory'
      BY <1>7 DEF CallInit, TypeOK, Memory, Absent
    <2>6. SetUp'
      BY <1>7 DEF CallInit, TypeOK, SetUp, SoleSetter, Absent
    <2>7. OwnDma'
      BY <1>7 DEF CallInit, TypeOK, OwnDma, SoleSetter
    <2>8. QED
      BY <2>1, <2>2, <2>3, <2>4, <2>5, <2>6, <2>7
  <1>8. ASSUME NEW p \in Procs, CheckBoard(p) PROVE TypeOK' /\ Inv'
    <2>0. board' \in Registers
      <3>1. [board EXCEPT !.trig = "none"] \in Registers
        BY DEF TypeOK, Registers
      <3>2. QED
        BY <1>8, <3>1 DEF CheckBoard, Set, TypeOK
    <2>1. TypeOK'
      BY <1>8, <2>0 DEF CheckBoard, Forget, TypeOK
    <2>2. SoleSetter'
      BY <1>8 DEF CheckBoard, Set, Forget, TypeOK, SoleSetter, Absent
    <2>3. Absent'
      BY <1>8 DEF CheckBoard, Set, Forget, TypeOK, Absent, SoleSetter, Descriptors
    <2>4. Descriptors'
      BY <1>8 DEF CheckBoard, Forget, TypeOK, Descriptors
    <2>5. Memory'
      BY <1>8 DEF CheckBoard, Set, Forget, TypeOK, Memory, Absent
    <2>6. SetUp'
      BY <1>8 DEF CheckBoard, Set, Forget, TypeOK, SetUp, SoleSetter, Absent, Registers
    <2>7. OwnDma'
      BY <1>8 DEF CheckBoard, Set, Forget, TypeOK, OwnDma, SoleSetter, Registers
    <2>8. QED
      BY <2>1, <2>2, <2>3, <2>4, <2>5, <2>6, <2>7
  <1>9. ASSUME NEW p \in Procs, CheckFirmware(p) PROVE TypeOK' /\ Inv'
    <2>1. TypeOK'
      BY <1>9 DEF CheckFirmware, FirmwareVersions, Forget, TypeOK, Descriptors
    <2>2. SoleSetter'
      BY <1>9 DEF CheckFirmware, FirmwareVersions, Forget, TypeOK, SoleSetter, Absent
    <2>3. Absent'
      BY <1>9 DEF CheckFirmware, FirmwareVersions, Forget, TypeOK, Absent, SoleSetter, Descriptors
    <2>4. Descriptors'
      BY <1>9 DEF CheckFirmware, FirmwareVersions, Forget, TypeOK, Descriptors
    <2>5. Memory'
      BY <1>9 DEF CheckFirmware, FirmwareVersions, Forget, TypeOK, Memory, Absent
    <2>6. SetUp'
      BY <1>9 DEF CheckFirmware, FirmwareVersions, Forget, TypeOK, SetUp, SoleSetter, Absent
    <2>7. OwnDma'
      BY <1>9 DEF CheckFirmware, FirmwareVersions, Forget, TypeOK, OwnDma, SoleSetter
    <2>8. QED
      BY <2>1, <2>2, <2>3, <2>4, <2>5, <2>6, <2>7
  <1>10. ASSUME NEW p \in Procs, ResetBoard(p) PROVE TypeOK' /\ Inv'
    <2>0. board' \in Registers
      <3>1. PICK b \in Reset(board) :
              board' = IF gone THEN board
                       ELSE IF dma[p] THEN DmaSetAddr(DmaConfig(b), base[p]) ELSE Fifo(b)
        BY <1>10 DEF ResetBoard, Set
      <3>2. b \in Registers
        <4>1. board \in Registers /\ [board EXCEPT !.dma = FALSE] \in Registers
          BY DEF TypeOK, Registers
        <4>2. QED
          BY <4>1 DEF Reset
      <3>3. DmaSetAddr(DmaConfig(b), base[p]) \in Registers
        <4>1. DmaConfig(b) \in Registers
          BY <3>2 DEF DmaConfig, Registers
        <4>2. \A r \in Registers, a \in Buffers \union {"zero"} : DmaSetAddr(r, a) \in Registers
          BY DEF DmaSetAddr, Registers
        <4>3. base[p] \in Buffers \union {"zero"}
          BY DEF TypeOK
        <4>4. QED
          BY <4>1, <4>2, <4>3
      <3>4. QED
        BY <3>1, <3>2, <3>3 DEF Fifo, TypeOK
    <2>1. TypeOK'
      BY <1>10, <2>0 DEF ResetBoard, Set, Reset, DmaConfig, DmaSetAddr, Fifo, TypeOK, Descriptors
    <2>2. SoleSetter'
      BY <1>10 DEF ResetBoard, Set, Reset, DmaConfig, DmaSetAddr, Fifo, TypeOK, SoleSetter, Absent
    <2>3. Absent'
      BY <1>10 DEF ResetBoard, Set, Reset, DmaConfig, DmaSetAddr, Fifo, TypeOK, Absent, SoleSetter, Descriptors
    <2>4. Descriptors'
      BY <1>10 DEF ResetBoard, Set, Reset, DmaConfig, DmaSetAddr, Fifo, TypeOK, Descriptors
    <2>5. Memory'
      BY <1>10 DEF ResetBoard, Set, Reset, DmaConfig, DmaSetAddr, Fifo, TypeOK, Memory, Absent
    <2>6. SetUp'
      BY <1>10 DEF ResetBoard, Set, Reset, DmaConfig, DmaSetAddr, Fifo, TypeOK, SetUp, SoleSetter, Absent, Registers
    <2>7. OwnDma'
      BY <1>10 DEF ResetBoard, Set, Reset, DmaConfig, DmaSetAddr, Fifo, TypeOK, OwnDma, SoleSetter, Registers
    <2>8. QED
      BY <2>1, <2>2, <2>3, <2>4, <2>5, <2>6, <2>7
  <1>11. ASSUME NEW p \in Procs, SetMode(p) PROVE TypeOK' /\ Inv'
    <2>0. board' \in Registers
      <3>1. CASE mode[p] = "master"
        BY <1>11, <3>1, MasterModeSets DEF SetMode, SetTriggerSource, Set, TypeOK
      <3>2. CASE mode[p] = "slave"
        BY <1>11, <3>2, SlaveModeSets DEF SetMode, SetTriggerSource, Set, TypeOK
      <3>3. CASE mode[p] = "other"
        BY <1>11, <3>3 DEF SetMode, SetTriggerSource, TypeOK
      <3>4. QED
        BY <1>11, <3>1, <3>2, <3>3 DEF SetMode
    <2>1. TypeOK'
      BY <1>11, <2>0 DEF SetMode, SetTriggerSource, TypeOK
    <2>2. SoleSetter'
      BY <1>11 DEF SetMode, SetTriggerSource, TypeOK, SoleSetter, Absent
    <2>3. Absent'
      BY <1>11 DEF SetMode, SetTriggerSource, TypeOK, Absent, SoleSetter
    <2>4. Descriptors'
      BY <1>11 DEF SetMode, SetTriggerSource, TypeOK, Descriptors
    <2>5. Memory'
      BY <1>11 DEF SetMode, SetTriggerSource, TypeOK, Memory, Absent
    <2>6. SetUp'
      <3>1. CASE mode[p] = "master"
        BY <1>11, <3>1, MasterModeSets DEF SetMode, SetTriggerSource, Set, TypeOK, SetUp, SoleSetter, Absent
      <3>2. CASE mode[p] = "slave"
        BY <1>11, <3>2, SlaveModeSets DEF SetMode, SetTriggerSource, Set, TypeOK, SetUp, SoleSetter, Absent
      <3>3. CASE mode[p] = "other"
        BY <1>11, <3>3 DEF SetMode, SetTriggerSource, TypeOK, SetUp, SoleSetter, Absent
      <3>4. QED
        BY <1>11, <3>1, <3>2, <3>3 DEF SetMode
    <2>7. OwnDma'
      <3>1. CASE mode[p] = "master"
        BY <1>11, <3>1, MasterModeSets DEF SetMode, SetTriggerSource, Set, TypeOK, OwnDma, SoleSetter
      <3>2. CASE mode[p] = "slave"
        BY <1>11, <3>2, SlaveModeSets DEF SetMode, SetTriggerSource, Set, TypeOK, OwnDma, SoleSetter
      <3>3. CASE mode[p] = "other"
        BY <1>11, <3>3 DEF SetMode, SetTriggerSource, TypeOK, OwnDma, SoleSetter
      <3>4. QED
        BY <1>11, <3>1, <3>2, <3>3 DEF SetMode
    <2>8. QED
      BY <2>1, <2>2, <2>3, <2>4, <2>5, <2>6, <2>7
  <1>12. ASSUME NEW p \in Procs, FiberMeas(p) PROVE TypeOK' /\ Inv'
    <2>0. board' \in Registers
      BY <1>12 DEF FiberMeas, Set, TypeOK, Registers
    <2>1. TypeOK'
      BY <1>12, <2>0 DEF FiberMeas, Set, TypeOK, Descriptors
    <2>2. SoleSetter'
      BY <1>12 DEF FiberMeas, Set, TypeOK, SoleSetter, Absent
    <2>3. Absent'
      BY <1>12 DEF FiberMeas, Set, TypeOK, Absent, SoleSetter, Descriptors
    <2>4. Descriptors'
      BY <1>12 DEF FiberMeas, Set, TypeOK, Descriptors
    <2>5. Memory'
      BY <1>12 DEF FiberMeas, Set, TypeOK, Memory, Absent
    <2>6. SetUp'
      BY <1>12 DEF FiberMeas, Set, TypeOK, SetUp, SoleSetter, Absent, Registers
    <2>7. OwnDma'
      BY <1>12 DEF FiberMeas, Set, TypeOK, OwnDma, SoleSetter, Registers
    <2>8. QED
      BY <2>1, <2>2, <2>3, <2>4, <2>5, <2>6, <2>7
  <1>13. ASSUME NEW p \in Procs, FinishInit(p) PROVE TypeOK' /\ Inv'
    <2>0. board' \in Registers
      BY <1>13 DEF FinishInit, Set, TypeOK, Registers
    <2>1. TypeOK'
      BY <1>13, <2>0 DEF FinishInit, Set, TypeOK, Descriptors
    <2>2. SoleSetter'
      BY <1>13 DEF FinishInit, Set, TypeOK, SoleSetter, Absent
    <2>3. Absent'
      BY <1>13 DEF FinishInit, Set, TypeOK, Absent, SoleSetter, Descriptors
    <2>4. Descriptors'
      BY <1>13 DEF FinishInit, Set, TypeOK, Descriptors
    <2>5. Memory'
      BY <1>13 DEF FinishInit, Set, TypeOK, Memory, Absent
    <2>6. SetUp'
      BY <1>13 DEF FinishInit, Set, TypeOK, SetUp, SoleSetter, Absent, Registers
    <2>7. OwnDma'
      BY <1>13 DEF FinishInit, Set, TypeOK, OwnDma, SoleSetter, Registers
    <2>8. QED
      BY <2>1, <2>2, <2>3, <2>4, <2>5, <2>6, <2>7
  <1>14. ASSUME NEW p \in Procs, EnableTriggers(p) PROVE TypeOK' /\ Inv'
    <2>0. board' \in Registers
      BY <1>14 DEF EnableTriggers, Set, TypeOK, Registers
    <2>1. TypeOK'
      BY <1>14, <2>0 DEF EnableTriggers, Set, TypeOK, Descriptors
    <2>2. SoleSetter'
      BY <1>14 DEF EnableTriggers, Set, TypeOK, SoleSetter, Absent
    <2>3. Absent'
      BY <1>14 DEF EnableTriggers, Set, TypeOK, Absent, SoleSetter, Descriptors
    <2>4. Descriptors'
      BY <1>14 DEF EnableTriggers, Set, TypeOK, Descriptors
    <2>5. Memory'
      BY <1>14 DEF EnableTriggers, Set, TypeOK, Memory, Absent
    <2>6. SetUp'
      BY <1>14 DEF EnableTriggers, Set, TypeOK, SetUp, SoleSetter, Absent, Registers
    <2>7. OwnDma'
      BY <1>14 DEF EnableTriggers, Set, TypeOK, OwnDma, SoleSetter, Registers
    <2>8. QED
      BY <2>1, <2>2, <2>3, <2>4, <2>5, <2>6, <2>7
  <1>15. ASSUME NEW p \in Procs, DisableTriggers(p) PROVE TypeOK' /\ Inv'
    <2>0. board' \in Registers
      BY <1>15 DEF DisableTriggers, Set, TypeOK, Registers
    <2>1. TypeOK'
      BY <1>15, <2>0 DEF DisableTriggers, Set, TypeOK, Descriptors
    <2>2. SoleSetter'
      BY <1>15 DEF DisableTriggers, Set, TypeOK, SoleSetter, Absent
    <2>3. Absent'
      BY <1>15 DEF DisableTriggers, Set, TypeOK, Absent, SoleSetter, Descriptors
    <2>4. Descriptors'
      BY <1>15 DEF DisableTriggers, Set, TypeOK, Descriptors
    <2>5. Memory'
      BY <1>15 DEF DisableTriggers, Set, TypeOK, Memory, Absent
    <2>6. SetUp'
      BY <1>15 DEF DisableTriggers, Set, TypeOK, SetUp, SoleSetter, Absent, Registers
    <2>7. OwnDma'
      BY <1>15 DEF DisableTriggers, Set, TypeOK, OwnDma, SoleSetter, Registers
    <2>8. QED
      BY <2>1, <2>2, <2>3, <2>4, <2>5, <2>6, <2>7
  <1>16. ASSUME NEW p \in Procs, EnableFifo(p) PROVE TypeOK' /\ Inv'
    <2>0. board' \in Registers
      BY <1>16 DEF EnableFifo, Set, Fifo, TypeOK, Registers
    <2>1. TypeOK'
      BY <1>16, <2>0 DEF EnableFifo, Set, Fifo, TypeOK, Descriptors
    <2>2. SoleSetter'
      BY <1>16 DEF EnableFifo, Set, Fifo, TypeOK, SoleSetter, Absent
    <2>3. Absent'
      BY <1>16 DEF EnableFifo, Set, Fifo, TypeOK, Absent, SoleSetter, Descriptors
    <2>4. Descriptors'
      BY <1>16 DEF EnableFifo, Set, Fifo, TypeOK, Descriptors
    <2>5. Memory'
      BY <1>16 DEF EnableFifo, Set, Fifo, TypeOK, Memory, Absent
    <2>6. SetUp'
      BY <1>16 DEF EnableFifo, Set, Fifo, TypeOK, SetUp, SoleSetter, Absent, Registers
    <2>7. OwnDma'
      BY <1>16 DEF EnableFifo, Set, Fifo, TypeOK, OwnDma, SoleSetter, Registers
    <2>8. QED
      BY <2>1, <2>2, <2>3, <2>4, <2>5, <2>6, <2>7
  <1>17. ASSUME NEW p \in Procs, Close(p) PROVE TypeOK' /\ Inv'
    <2>1. TypeOK'
      BY <1>17 DEF Close, End, Pool!TakeBack, Pool!Drop, TypeOK, Descriptors
    <2>2. SoleSetter'
      BY <1>17 DEF Close, End, Pool!TakeBack, Pool!Drop, TypeOK, SoleSetter, Absent
    <2>3. Absent'
      BY <1>17 DEF Close, End, Pool!TakeBack, Pool!Drop, TypeOK, Absent, SoleSetter, Descriptors
    <2>4. Descriptors'
      BY <1>17 DEF Close, End, Pool!TakeBack, Pool!Drop, TypeOK, Descriptors
    <2>5. Memory'
      BY <1>17, SMTT(30) DEF Close, End, Pool!TakeBack, Pool!Drop, TypeOK, Memory, Absent
    <2>6. SetUp'
      BY <1>17 DEF Close, End, Pool!TakeBack, Pool!Drop, TypeOK, SetUp, SoleSetter, Absent
    <2>7. OwnDma'
      BY <1>17 DEF Close, End, Pool!TakeBack, Pool!Drop, TypeOK, OwnDma, SoleSetter
    <2>8. QED
      BY <2>1, <2>2, <2>3, <2>4, <2>5, <2>6, <2>7
  <1>18. ASSUME NEW p \in Procs, Die(p) PROVE TypeOK' /\ Inv'
    <2>1. TypeOK'
      BY <1>18 DEF Die, End, Pool!Drop, TypeOK, Descriptors
    <2>2. SoleSetter'
      BY <1>18 DEF Die, End, Pool!Drop, TypeOK, SoleSetter, Absent
    <2>3. Absent'
      BY <1>18 DEF Die, End, Pool!Drop, TypeOK, Absent, SoleSetter, Descriptors
    <2>4. Descriptors'
      BY <1>18 DEF Die, End, Pool!Drop, TypeOK, Descriptors
    <2>5. Memory'
      BY <1>18, SMTT(30) DEF Die, End, Pool!Drop, TypeOK, Memory, Absent
    <2>6. SetUp'
      BY <1>18 DEF Die, End, Pool!Drop, TypeOK, SetUp, SoleSetter, Absent
    <2>7. OwnDma'
      BY <1>18 DEF Die, End, Pool!Drop, TypeOK, OwnDma, SoleSetter
    <2>8. QED
      BY <2>1, <2>2, <2>3, <2>4, <2>5, <2>6, <2>7
  <1>19. ASSUME NEW p \in Procs, ChooseSource(p) PROVE TypeOK' /\ Inv'
    <2>1. TypeOK'
      BY <1>19 DEF ChooseSource, SetTriggerSource, TypeOK
    <2>2. SoleSetter'
      BY <1>19 DEF ChooseSource, SetTriggerSource, TypeOK, SoleSetter
    <2>3. Absent' /\ Descriptors' /\ Memory' /\ OwnDma'
      BY <1>19 DEF ChooseSource, SetTriggerSource, Absent, Descriptors, Memory, OwnDma
    <2>4. SetUp'
      BY <1>19 DEF ChooseSource, SetTriggerSource, TypeOK, SetUp
    <2>5. QED
      BY <2>1, <2>2, <2>3, <2>4
  <1>20. CASE BoardLost
    BY <1>20 DEF BoardLost, library, TypeOK, SoleSetter, Absent, Descriptors, Memory, SetUp, OwnDma
  <1>21. CASE UNCHANGED vars
    BY <1>21 DEF vars, library, TypeOK, SoleSetter, Absent, Descriptors, Memory, SetUp, OwnDma
  <1>22. QED
    BY <1>1, <1>2, <1>3, <1>4, <1>5, <1>6, <1>7, <1>8, <1>9, <1>10, <1>11, <1>12, <1>13, <1>14, <1>15, <1>16, <1>17, <1>18, <1>19, <1>20, <1>21 DEF Next, Open, InitBoard

LEMMA Initial == Init => TypeOK /\ Inv
  <1> SUFFICES ASSUME Init PROVE TypeOK /\ Inv
    OBVIOUS
  <1> USE SessionAssumption DEF SessionAssumption, AllModes, Ready, Idle, Init, Pool!Init
  <1>1. TypeOK
    <2>1. PowerUp \in Registers
      <3>1. PowerUp.addr \in Buffers \union {"zero"}
        BY ONLY DEF PowerUp
      <3>2. QED
        BY ONLY <3>1 DEF PowerUp, Registers
    <2>2. 0 \in 0..1 /\ 0 \in 0..MaxInits
      OBVIOUS
    <2>3. fds \in [Procs -> 0..1] /\ inits \in [Procs -> 0..MaxInits]
      BY <2>2
    <2>4. /\ held \in [Procs -> Buffers \union {None}]
          /\ base \in [Procs -> Buffers \union {"zero"}]
      OBVIOUS
    <2>5. QED
      BY <2>1, <2>3, <2>4 DEF TypeOK
  <1>2. Inv
    BY DEF Inv, SoleSetter, Absent, Descriptors, Memory, SetUp, OwnDma, PowerUp
  <1>3. QED
    BY <1>1, <1>2

\* Every variable keeps its type, one descriptor at most is open in a process,
\* and the parts of Inv hold.
THEOREM SessionCorrect == Spec => [](TypeOK /\ Inv)
  BY Initial, Inductive, PTL DEF Spec

\* Wherever tipOpen and tipInit failed, what the program goes on with is mapped
\* and open, and the only crash is that of a program without its JTAG registers.
THEOREM Safe == Spec => []SafeUse
  <1>1. TypeOK /\ Inv => SafeUse
    BY DEF Inv, Descriptors, SafeUse
  <1>2. QED
    BY <1>1, SessionCorrect, PTL

\* A board is as the tipInit which returned OK means it to be, although tipInit
\* ignores most of what its calls return.
THEOREM InitReady == Spec => []InitMeansReady
  <1>1. TypeOK /\ Inv => InitMeansReady
    BY DEF Inv, SoleSetter, SetUp, Ready, InitMeansReady
  <1>2. QED
    BY <1>1, SessionCorrect, PTL

\* A program that uses DMA gets the board's data into the memory that the driver
\* gave it, whatever address earlier sessions left in the board.
THEOREM OwnMemory == Spec => []DmaToOwnMemory
  <1>1. TypeOK /\ Inv => DmaToOwnMemory
    BY DEF Inv, OwnDma, Memory, Ready, DmaToOwnMemory
  <1>2. QED
    BY <1>1, SessionCorrect, PTL

\* The library's sessions use the driver's buffers as the driver promises them.
THEOREM PoolUsed == Spec => Pool!Spec
  <1>1. Init => Pool!Init
    BY DEF Init
  <1>2. TypeOK /\ Inv /\ [Next]_vars => [Pool!Next]_(Pool!vars)
    <2> SUFFICES ASSUME TypeOK, Inv, [Next]_vars PROVE [Pool!Next]_(Pool!vars)
      OBVIOUS
    <2> USE DEF pool, Pool!vars
    <2>1. ASSUME NEW p \in Procs, AllocDmaMemory(p) PROVE [Pool!Next]_(Pool!vars)
      BY <2>1 DEF AllocDmaMemory, Pool!Next
    <2>2. ASSUME NEW p \in Procs, Close(p) PROVE [Pool!Next]_(Pool!vars)
      BY <2>2 DEF Close, Pool!Next
    <2>3. ASSUME NEW p \in Procs, Die(p) PROVE [Pool!Next]_(Pool!vars)
      BY <2>3 DEF Die, Pool!Next
    <2>4. ASSUME NEW p \in Procs,
                 Start(p) \/ OpenDevice(p) \/ GetPciBar(p) \/ MapRegisters(p) \/ MapJtag(p)
                   \/ CallInit(p) \/ CheckBoard(p) \/ CheckFirmware(p) \/ ResetBoard(p)
                   \/ SetMode(p) \/ FiberMeas(p) \/ FinishInit(p) \/ ChooseSource(p)
                   \/ EnableTriggers(p) \/ DisableTriggers(p) \/ EnableFifo(p)
          PROVE  UNCHANGED pool
      BY <2>4 DEF Start, OpenDevice, GetPciBar, MapRegisters, MapJtag, CallInit, CheckBoard,
                  CheckFirmware, ResetBoard, SetMode, FiberMeas, FinishInit, ChooseSource,
                  EnableTriggers, DisableTriggers, EnableFifo
    <2>5. BoardLost \/ UNCHANGED vars => UNCHANGED pool
      BY DEF BoardLost, vars
    <2>6. QED
      BY <2>1, <2>2, <2>3, <2>4, <2>5 DEF Next, Open, InitBoard
  <1>3. QED
    BY <1>1, <1>2, SessionCorrect, PTL DEF Spec, Pool!Spec

=============================================================================
