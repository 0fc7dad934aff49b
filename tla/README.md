# TIpcie: TLA+ models, model checking and proofs

This directory is a verification development for the TIpcie library, its Linux
driver and the programs that use them: the PCI Express Trigger Interface (TI) of a
data-acquisition crate. The TI takes triggers, groups events into *blocks*, and keeps
a small number of blocks for the CPU to read out. The code under verification is in
`src/`; every model is translated from it and `PROJECT.json` ("map") names the lines
each definition stands for.

## 1. Inventory

### Components, state and operations

| Component | Code | State | Operations |
|---|---|---|---|
| Polling service | `TIpcieLib.c` 7000-7540 | `tipcieMutex`, `tippollthread`, `tipIntRunning`, `tipIntRoutine`, `tipIntCount`, `tipAckCount`, `tipDoAck`, `tipNeedAck` | `tipIntConnect`, `tipIntEnable`, `tipIntDisable`, `tipIntDisconnect`, `tipIntAck`, `tipPoll` |
| Block readout, programmed I/O | 2428-2985 | the board's FIFO, `tipTriedAgain`, `tipFakeTriggerBank`, the caller's buffer | `tipReadBlock` (FIFO branch), `tipReadTriggerBlock`, `tipGenerateTriggerBank` |
| Block readout, DMA | 2473-2645, 6800-6900 | `TIPpd`, `bump`, `tipMemCount`, 256 slots of 4 kB | `tipReadBlock` (DMA branch), `tipDmaConfig`, `tipDmaSetAddr` |
| Bank checking and decoding | 2988-3180 | none | `tipCheckTriggerBlock`, `tipDecodeTriggerType` |
| Session | 269-534, 7914-8023 | `tipFD`, `TIPp`, `TIPpd`, `TIPpj`, the mappings | `tipOpen`, `tipInit`, `tipGetPciBar`, `tipClose` |
| Levels and sync event | 1690-1850, 3987-4200 | `tipBlockLevel`, `tipNextBlockLevel`, `tipBlockBufferLevel`, `tipSyncEventFlag`, `tipSyncEventReceived`, `tipNReadoutEvents` | the setters and broadcasts, `tipSyncReset`, `tipBReady` |
| Trigger rules | 4560-4990 | registers `triggerRule`, `triggerRuleMin` | `tipSetTriggerHoldoff`, `tipSetTriggerHoldoffMin` and getters |
| Trigger tables | 5030-5310 | `tipTrigPatternData` | predefined tables, event-type definitions, `tipLoadTriggerTable` |
| Register setters | the rest of `TIpcieLib.c` | one register or global each | about 120 functions: check, lock, write, unlock |
| Slaves and fibers | 3195-3280, 4495-4560, 5844-5962 | `tipSlaveMask`, fiber latency | `tipAddSlave`, `tipResetSlaveConfig`, `FiberMeas` |
| Status, JTAG | 587-1470, 7799-7910 | none | printing, bit-banged I/O |
| Configuration loader | `TIpcieConfig.cpp` | `ti_general_ini`, slave and rule maps, `ir` | `tiConfig`, `parseIni`, `param2ti`, `ti2param`, `writeIni`, `tiConfigFree` |
| Readout lists | `rol/` | CODA state, `GENflag` | download, prestart, go, end, reset, poll, trigger, done |
| Driver load and mapping | `linux_driver/TIpcie.c` 150-500 | a status word of what is set up | `TIpcie_init`, `findTIpcie`, `mapInTIpcie`, `clean_module` |
| Driver requests | 595-1100 | registers, a user request | `TIpcie_ioctl` and its 32-bit twin |
| Driver DMA handles | 1140-1402 | a list of handles and its lock | allocate, free, add, remove |
| Driver interrupt | 108-148 | a wait queue and flag | built only with `TEST_INTERRUPTS` |
| Firmware updater, INI reader, tests | `firmware/`, `INIReader.h`, `test/` | - | - |

### Interactions

* A program (a readout list, or `test/tipReadoutTest.c`) makes the calls that
  control the service; the polling thread started by `tipIntEnable` calls back the
  user's routine, which calls `tipReadBlock`. All of them meet at `tipcieMutex`, a
  plain non-recursive mutex, and at globals some of which are read or written
  without it (`tipIntRunning`, `tipIntCount`, `tipNextBlockLevel`).
* The board fills blocks on its own and raises busy when its buffer is full;
  software sees a count (`blockBuffer`), a FIFO or a ring of memory whose words follow
  the count, and registers that read as all ones when the board has dropped off the bus.
* Several processes can have the board open: the mutex and the globals are each
  process's own, so that only the board and the driver are shared.
* The library asks the driver for the PCI addresses and for DMA memory at open, maps
  the registers itself, and gives the memory back at close; in between the driver takes
  no part in a readout.
* A master sends commands to the slave crates over a link, and to itself over a
  loopback; slaves start when they like.
* A readout list loads a configuration file at each Download, starts the pulsers at Go
  and stops them at End; each key becomes one or more calls of the library.

### What is hard

Interleaving of the control thread, the poller and the board around one mutex;
cancellation of a thread in the middle of a service; data that arrives after the
count that announces it, in a FIFO read by a parser which retries, or in a ring whose
slots are never cleared; sequences of legal calls (enable twice, close and open, a FIFO
session after a DMA session) that leave a global or the board in a state the next
call does not expect; partial failures that are printed and then ignored (`tipInit`,
`param2ti`, the driver's load); memory that goes back to the kernel while the board
knows its address; levels that are kept in globals, registers and other crates at once.
The list with lines is "hazards" in `PROJECT.json`.

What makes each component correct, and whether it is stated here:

| Component | Correct when | Property |
|---|---|---|
| Polling service | one service at a time and for a ready block, no ready block waits for ever, no call hangs | `ServiceSpec`, `ReadyBlocksAreServed`, `CallsReturnUnlessLost` |
| FIFO readout | what is returned is a block, in order, none lost without an error | `BankIsOneBlock`, `BanksInOrder`, `NothingLost` |
| DMA readout | the reader follows the writer, whatever comes late | `InStep`, `RightBlock`, `BehindByGiveUps` |
| Session | no use of what is not mapped; OK means ready; DMA to the session's own memory | `SafeUse`, `InitMeansReady`, `DmaToOwnMemory` |
| Levels | all crates have one level, and the library's buffer level; broadcasts disturb nothing | `CratesCatchUp`, `BufferAsSet`, `SourceSticks`, `FlagIsSyncBlock` |
| Configuration | the board has what the last file says, and nothing else moved | `FileDecides`, `OnlyByItsKey`, `ListensToSlave`, `PulsersStop`, `UndefinedUsesDefault` |
| Driver load | a failed load leaves nothing; requests find what they need | `NothingLeftBehind`, `ServedWhileIn` |
| DMA handles | buffers are exclusive, the list is whole, requests end | `PoolSpec`, `ListIsWhole`, `RequestsEnd` |

## 2. What is modelled

### `BlockService` - what the service promises

The abstract specification: blocks become ready, one service at a time is called for
a ready block, takes at most one from the board, and is acknowledged, also if its read
failed and the block is still there; it may be cut short, and then is never acknowledged,
and a block it had taken is not given to another. No threads, no mutex.

### `TipPoll` - the polling service

| Model | Code |
|---|---|
| `mutex`, `handle`, `running`, `connected`, `intCount`, `ackCount` | `tipcieMutex`, `tippollthread`, `tipIntRunning`, `tipIntRoutine != NULL`, `tipIntCount`, `tipAckCount` |
| `pc`, `tidata`, `loaded`, `cancel` | each polling thread: its place in `tipPoll`, its local, the `tipIntCount` it has loaded for `++`, a pending cancellation |
| `ctl`, `phase` | the control thread: its place in a call, and the calls it has completed |
| `trigOn`, `fill`, `inBlock`, `ready`, `gone` | the board: `trigsrc`, a pending FILL_TO_END_BLOCK, events in the current block, the count in `blockBuffer`, off the bus |
| `filled`, `created`, `aborted` | history: bounds and properties only |

A critical section (`TIPLOCK` to `TIPUNLOCK`) is one step which needs the mutex free.
Two are split: `tipReadBlock` (`ReadStart`, `ReadDone`), in which a cancellation can
act, and `tipIntEnable` (`EnableLock`, `EnableStart`), which starts a thread inside.
Reads and writes of globals outside the mutex are steps of their own: the test of
`tipIntRunning` (`PollTest`), and the load and the store of `tipIntCount++`
(`PollTest`, `Count`). `pthread_create` may fail; the handle is then unspecified, as
POSIX says. The cancellation of pthreads is deferred: `Cancelable` lists the places
that hold a cancellation point.

The user routine is the readout part of `mytiISR` in `test/tipReadoutTest.c`, which
acknowledges whatever its read returned; the control thread makes that program's calls.
`Take` is what a read does to the board: it takes the block, or gives up and leaves it
(the errors of both branches of `tipReadBlock`), at most `MaxFails` times. The read sleeps
while it waits for words, with the mutex held: a cancellation can act there (`Canceled` in
"reading"), before or after the block is taken, and the mutex is then nobody's to unlock
(`Abandoned`). `Disconnects` says that every `tipIntDisable` is followed by
`tipIntDisconnect`, as in all programs of the repository.

### `TipBank` and `TipFifo` - readout by programmed I/O

`TipBank` has the words, as far as the bit tests of the code tell them apart, and the
pure parts: how `tipReadTriggerBlock` finds the block in the words it was given and
makes a bank of it (`IsBlock`, `Bank`), `CheckTriggerBlock`, `DecodeTriggerType`. The
two walks over a bank (the one in the first, and `FindEvent`) are recursive functions.

`TipFifo` is the reader. Each `tipRead(&TIPp->fifo)` is one step, so that the board can
add words in between. The stream of all words announced is kept; `arrived` and `taken`
are the two ends of the FIFO in it, and an empty FIFO gives `TIP_EMPTY_FIFO`. `late` is
fixed at the start of a behaviour: either the words of a block are in the FIFO before
it is announced, or they come one by one after it. `pc` is the place in the parser,
`events` and `words` its loop counters turned around, `tried` is `tipTriedAgain`.
`bank` is the last result, `Rejected` standing for `ERROR` and for the bank without
events that `tipGenerateTriggerBank` makes up. `DataKinds` says what the words of an
event can be taken for: a timestamp can look like anything. What looks like a trailer
is left out: with the right count in its low 22 bits it would be accepted.

### `TipDmaRing` - readout by DMA

The board writes each block into the next slot of a ring: the number of its words, and
the words. The reader is `tipReadTriggerBlock` over the DMA branch of `tipReadBlock`.
Its two positions are kept apart as in the code: `bump`, a static that counts reads, and
`ptr` (`TIPpd`), which is set from `bump` after a read but moved on by itself when a
read gives up (the dump of the slot advances it). The mutex is held from the first look
to the return, so that there is one reader; `Look` waits for a count that is not zero,
`GiveUp` is the end of the 1000 looks. `Copy` takes one word, so that the board may write
the slot between two of them, and `Leave` comes at a trailer or after `nwrds` words,
computed from a `tipBlockLevel` that need not be the block's (`KnownLevels`). `data` is
what has been copied; with it, the count and the bank are kept only as long as a later
step can tell.

`late` is fixed in a behaviour: blocks are in memory when they are announced, or come
after it, in order, word after word, as writes over the bus do. Slots are never cleared,
so that a slot with an old block looks ready. A read without a word, for which the code
has a branch of its own, never happens: the proof of `KeepsStep` shows it (`SomeData`).
`RingAssumption` says that each block fits its slot. The code does not check that: a slot
has 1023 words after the count, and the largest block the library can ask for, 255
events of four words and more, is longer. It also says that no more blocks are ready than
there are slots, which the code has from the width of the buffer level (255).

### `TipDmaPool`, `TipDmaHandles` and `TipDriver` - the driver

`TipDmaPool` is what the driver promises about DMA memory: a process is given a buffer
no other has, and gives back that one. `TipDmaHandles` has the handles, which are kernel
memory (`used`, `magic`, `buf`, `next`), the list (`head`) and its semaphore (`lock`).
One request of a process is several steps: it may wait for the semaphore and be
interrupted there by a signal, `kmalloc` and the buffer may fail, the list is walked
handle by handle. The handle comes back to the process through `dma_info`: when the
driver fails, the process keeps `0x123456789` (`Junk`), the library's start value, or a
handle without a buffer. A free of `Junk` follows it as an address: the process stays in
"oops", as a kernel fault leaves it.

`TipDriver` adds the module's life and the other requests. `stage` is the place in
`TIpcie_init`, each of whose steps may fail; `held` is what the kernel has set up and
`flags` what the module believes it has (`TIpcie_init_flags`). What `clean_module`
releases depends on the flags, and what is left on what was held; it is two steps, the maps
and the rest, because the registers go before the device does. Register requests and
`/proc/TIpcie` read word by word. Taken from the build: no interrupt, no `probe` and so
no `remove`; the 32-bit entry point is the same code again; the addresses that programs
pass are good. `Pool` in `TipDmaHandles` maps the list to the abstract pool.

Nothing in the driver keeps the requests to the time when it is loaded, so nothing in the
model does: the device and `/proc/TIpcie` are there before the registers are mapped and
before `sema_init`, and `file_operations` has no owner that would keep the module while
the device is open. A register request where there is no map, an allocation before
`sema_init` (the semaphore's list is null) and whoever is in a module that goes (`Gone`)
end in "oops".

### `TipSession` - sessions of several processes with one board

Each process runs once: it opens, initialises (`tipInit` may be called again), enables
and disables triggers, closes or dies at any point. `tipOpen` and `tipInit` are a step
per call that can fail. `fd`, `fds`, `regs`, `jtag`, `base` are `tipFD`, the descriptors
that are really open, `TIPp`, `TIPpj` and `tipDmaAddrBase`; `board` is what `tipInit`
sets on the board, which starts with anything ("?") in it and may be lost. `mode` is what
the program asks for: "watch" is `TIP_INIT_NO_INIT`, "other" a trigger mode `tipInit`
does not know. One process at a time sets the board up, as every program of the
repository presumes; any number watch. The driver is its promise, an instance of
`TipDmaPool`, as a build with `ALLOCMEM` uses it. The soft reset may clear the DMA enable
of `vmeControl` or not: the source does not tell. `source` is `tipTriggerSource`, which
reaches the board's register (`board.trig`) only when triggers are enabled.

`tipClose` asks nothing of the triggers, and the destructor of a readout list calls it as
they are, so `Close` may happen while they are on: the board then writes to memory that the
driver has given back. No property denies that (see "hazards"); `DmaToOwnMemory` is about
the session after.

### `TipLevels` - levels, trigger source and the sync-event flag

`Roles` says what each thread of the master's program calls: the levels and the sync
resets, the trigger source, or the readout of the polling thread with its user routine. A
broadcast is read, open and send
inside the mutex (`ReadSource`, `Send`); the level is then read back from the master's
own register (`ReadBack`) into `tipNextBlockLevel`; `tipSyncReset(1)` sends both levels
again from globals that it reads without the mutex (`ReLevel`, `ReBuffer`). `link` is the
commands on their way to each crate, in order; slaves may restart with neither level.
A command arrives at any time (`Receive`), also at the master itself, and `ReadBack` waits
for nothing, as in the code: what it keeps may be the level before. `ready` is the blocks on
the master, TRUE for the one of a sync event; `flag` is `tipSyncEventFlag`.

### `TipBoard` and `TipConfig` - settings and the configuration loader

`TipBoard` has the setters that the loader calls as functions from a board and arguments
to `[ok, board]`: the range checks, what is written when they fail, and the registers
that two settings share. `TipConfig` is the loader. A file is a function from some keys
to numbers; `parseIni` gives -1 to the others and cuts a number to 32 bits; `param2ti` is a fold over the calls in the
code's order, ended by the first that returns an error, for the sections where the
result counts, and not for the later ones. A clock source may not be there when it is
read back (`sticks`). `Download`, `Go`, `End` and `Reset` come in the orders CODA
allows; a `Reset` does not come through `rocEnd` (`cut`).

## 3. Runs

| Run | Question | Result |
|---|---|---|
| `poll` | does the service keep its promises under every interleaving? | passes |
| `poll_sleeps_locked` | does every call of that program return? | `CallsReturn` violated |
| `poll_reenable` | ... if a program disables and enables again without a disconnect? | `DisconnectKillsPoller` violated |
| `fifo` | is what the FIFO reader returns a block, whatever comes late? | passes |
| `fifo_filler` | is the word thrown away after a trailer a filler? | `ExtraWordIsFiller` violated |
| `ring` | does the DMA reader follow the board round the ring? | passes |
| `session` | what do failures, deaths and other processes leave for a session? | passes |
| `session_fifo` | does `tipEnableFifo` replace DMA, as it says? | `FifoInsteadOfDma` violated |
| `driver` | what do loads, unloads and requests at any time leave of each other, and does every request end? | passes |
| `levels` | do the crates have one level, whoever sets it and however late it comes, and do broadcasts disturb the trigger source or the sync-event flag? | passes |
| `config` | is the board what the last file says, and do pulsers stop? | passes |
| `config_undefined` | is an undefined key the library's default? | `UndefinedUsesDefault` violated |

**`poll`** checks, besides the types: `HolderReleases` (a run never loses the mutex; only
`tipIntDisconnect` can), `DisconnectKillsPoller`, `ReadFindsBlock` (nothing takes a block
between the unlocked test and the read), `CountsBalance` (the counters written with
and without the mutex agree), `EnabledMeansPolled`, `ServiceSpec` (refinement of
`BlockService`), `ReadyBlocksAreServed` and `CallsReturnUnlessLost`. Two thread ids are what
two enables need; blocks of two events leave a partial block for `tipFillToEndBlock`; a
buffer of two with three blocks fills up, drains and wraps; one read that fails is followed
by one that does not; one aborted service per counter reset is enough to be counted. A
cancelled thread may leave with the mutex, after which everybody waits: deadlock is not
checked, and the two liveness properties say that nothing else stops the service.
`poll_sleeps_locked` asks of the same program that every call returns.

**`fifo`** has two blocks of one or two events with one or two words, which gives all
parities and both fillers, and three retries in place of twenty: enough to give up, to
succeed after an odd and an even number of retries, and to run over a filler and two
headers into the next block's events. Words of an event that look like block headers
and event headers make resynchronisation as hard as it can be. The system stops when
all blocks have been read, so that deadlock is not checked. `fifo_filler` uses the
twenty retries of the code.

**`ring`** has three slots and four blocks of one or two events, six or ten words: one lap
and a third, so that a slot is used again and looks ready with an old block, in two and a
half million states. Up to two blocks are ready at a time, fewer than the slots, as in the
code (255 of 256). `KnownLevels` has a level that is too small for the longer block and one
that is not. `InStep` says where the two positions are after any number of reads that gave
up. `RightBlock` and `NothingLost` are about blocks that are in memory when they are
announced: what is returned is the block read for, word for word, and it is returned.
`BehindByGiveUps` is about late ones in the first lap: a bank is of one block, as many reads
old at most as reads have given up, if those and the blocks that may be ready fit in the
ring; and words of it may be missing (`MadeOf`). Without the last condition it is false
(three slots, one read that gave up and three blocks ready: the block read is being
overwritten and the bank has words of two), which its proof brought out: with the two ready
blocks of this run it cannot happen. Nothing is promised of late blocks after a lap, where
one is taken for that of 256 blocks ago.

**`session`** has two processes and two buffers: every pair of a setter and a watcher,
and one setter after another. Two calls of `tipInit` are one after a failure. Processes
and buffers are interchangeable (symmetry). `SafeUse` is about what a failed `tipOpen` or
`tipInit` leaves for the next call; the one way to a crash is a program that goes on
after the second `mmap` failed. `InitMeansReady` and `DmaToOwnMemory` relate the board to
the last process that set it up, after sessions that were closed or died at any point.

**`driver`** loads and unloads the module twice with any step failing, with two processes
and two handles: enough for a list with a first and a last handle, for a handle lost by a
failed buffer or with the module, for a process that waits for the other, and for requests
before, during and after a load. A handle in the middle of the list is beyond this run and
not beyond its theorem (`ListKept`). `ServedWhileIn` says
when a process may be lost in the driver: not from the end of `TIpcie_init` to the begin of
`TIpcie_exit`, unless it frees what never was a handle. `NothingLeftBehind` names the two
failures that leave something, and `ListIsWhole` does not count the handles which a failed
buffer leaves off the list. `PoolSpec` is the refinement of `TipDmaPool`. `RequestsEnd` is the
liveness; a process lost in the driver counts as one whose request is over, and must not keep
another from its own.

**`levels`** has two threads that set levels and make sync resets; one of them is the polling
thread of `test/tipReadoutTest.c` and switches the trigger source, polls and reads up to two
blocks at a time, too. There are a master and a slave, two block levels, one buffer level
besides none, two calls in all and a restart: two levels, or a level and a sync reset, in
any threads, with commands under way and a restart anywhere between; 1.3 million states.
Deadlock is checked: the reader, or who switches the source, can always go on.

**`config`** loads two files in a row, each one of a set that has a key alone, with a
good value, a bound or one too many, or a group of keys that meet in a call or a register;
then a run, ended or reset. Two loads are what a setting left over from the last file
takes. Both a master and a slave are started. `FileDecides` names the keys it is about: those
which go to the board as they are (`Switches`, `Numbers`), and those which do in certain
bounds and are replaced or refused out of them, with the load OK all the same (`Bounded`,
`Ignored`). It is about what the program makes of a number, not about what the documentation
of a file says of it: where the two part is listed under "Seen on the way". `OnlyByItsKey` is
about the settings that are one key's and the argument of one call (`Single`), and those that
several calls write, which a load does change by the way, are listed there, too.
`Half` is 2^31, where a number of a file is cut to 32 bits; the run takes
2^25, beyond every bound of the calls, because TLC's own integers have 32 bits.

`poll`, `fifo`, `ring`, `session`, `driver` and `config` may stop (the mutex lost, all blocks
read, all processes ended, the module out for good, the loads used up), so that deadlock is
not checked there.

### What the violations mean

* `poll_sleeps_locked`: `tipReadBlock` (waiting for words) and `tipPrintTempVolt` call
  `usleep`, a cancellation point, with `tipcieMutex` held. `tipIntDisconnect` cancels the
  thread there; nothing unlocks; the next library call waits for ever. `poll` shows that this
  is the one way to it (`CallsReturnUnlessLost`).
* `poll_reenable`: each `tipIntEnable` overwrites `tippollthread`. After enable, disable,
  enable, two threads poll, and the disconnect ends one of them.
* `fifo_filler`: words read while retrying stay in the buffer and count in the parity
  which decides whether a filler follows. After an odd number of retries the reader
  throws away the next block's header (and that block is lost), or leaves a filler.
  The bank of the block that was retried is always rejected, because the trailer's
  count does not match: data is lost, never mixed up (`BankIsOneBlock`).
* `session_fifo`: `tipEnableFifo` means to disable DMA, but the mask it clears,
  `TIP_VMECONTROL_DMASETTING_MASK`, does not have the bit that enables it. After a
  `tipInit` with DMA the board goes on writing to memory and the FIFO stays empty.
* `config_undefined`: an undefined key is -1, and `tipConfigEnablePulser` takes any number
  but 0 for "on"; -1 as a rate passes `tipSetRandomTrigger`'s check and turns on the random
  pulsers of both triggers at Go.

### Seen on the way

Disagreements between the code and its own files that the models carry and that no run
is spent on:

* `param2ti` makes no call for a value of 0: a file cannot set `EVENT_FORMAT`,
  `CLOCK_SOURCE`, `TRIGGER_TABLE` or `PRESCALE` back to 0 after another file.
* `FIXED_PERIOD` is not used (the number of events is passed for it), nor is `BUSY_SOURCE_P2`,
  and `RULE_MIN_1` is refused.
* `param2ti` was copied from input to input with `PRESCALE_TSn` in both places
  (`TIpcieConfig.cpp:629`): a prescale is set as the delay, too, and `DELAY_TSn`, "Additional
  delay for TS inputs" (`cfg/master.ini:170`), is never read.
* `SYNC_SOURCE` is handed on as a mask (`TIpcieLib.c:2170`), in which bit 1 is fiber 1 and bit
  4 the loopback; `cfg/master.ini:35` lists 1 for fiber 1 and 4 for the loopback.
* A slave takes any `TRIGGER_SOURCE` up to 10 for fiber 1, with a message and an OK
  (`TIpcieLib.c:1930`); `cfg/slave.ini:9` lists four sources.
* `tipSetTriggerSource` refuses 11, which ends the load (`TIpcieLib.c:1893`), though
  `cfg/master.ini:31`, its own comment and its `switch` have it; on a master it refuses 6 to
  9, too.
* The trigger rules share one bit for the slowest unit, which each call sets or clears
  (`TIpcieLib.c:4727`): an earlier rule with timestep 2 can be left with another unit than
  `cfg/master.ini:180` gives it.
* `tipSetTriggerPulse` reports a width out of range and writes it (`TIpcieLib.c:3557`): for
  `TRIGGER_OUTPUT_DELAY` without `TRIGGER_OUTPUT_WIDTH` that is -1, over the bits of trigger 2.
* The DMA branch of `tipReadBlock` waits for the count of a slot and for no word after it. A
  word that is copied before the board has written it is missing from the bank; if the trailer
  is there when the copy comes to it, the bank is returned as a success. Whether a board's
  count can come before its words the source does not tell; that it can come after the
  announcement is why the code waits for it.
* `tipSetBlockLevel` reads the level back from the master's own board at once
  (`TIpcieLib.c:1768`), where it may not have arrived, and `tipSyncReset(1)` sends what was
  read: it may be the level before, though line 3758 says "library value (Set with
  tiSetBlockLevel)". It takes a loopback slower than the next register read; nothing in the
  code rules that out.
* `tiConfig` returns 0 whatever was refused.
* A configuration file that cannot be opened leaves all keys undefined, with the random
  pulsers on at Go; a Reset in the middle of a run leaves pulsers on; each `tiConfig`
  leaks the reader of the one before.
* `TIpcieFreeDmaHandles`, which would free the handles at unload, is never called.
* `register_chrdev`'s failure leaves the PCI driver and the proc entry behind, and
  `pci_register_driver`'s, which is returned last, everything (`NothingLeftBehind` names
  both).
* A request between `register_chrdev` and the end of the load, or one that is there when
  the module goes, is lost in the kernel; nothing in the driver keeps them apart
  (`ServedWhileIn` speaks of the time between).

## 4. Fairness

`TipPoll`: the operating system runs every runnable thread (weak fairness of the steps
that need no mutex) and a thread waiting for the mutex gets it if it is free again and
again (strong fairness); `tipPoll` sleeps in each turn of its loop without the mutex, so
that it does become free. Nothing obliges the program to make a call or the board to
trigger. `TipFifo`: the reader runs, its caller polls while a block is ready, and the
board delivers the words it has announced (weak fairness).

`TipDriver`: a process in a request runs and gets the semaphore if it is up again and
again (strong fairness of its steps: `up` wakes the first that waits); a register request
has finitely many words (weak fairness of its last one). Nothing is assumed of signals, so
that no request ends because of one.

`TipSession`, `TipLevels`, `TipDmaRing` and `TipConfig` state safety only: nobody is
obliged to open a session, to set a level or to load a file.

## 5. Proofs

`TipPollProofs` proves, for all values of the constants allowed by
`ConstantsAssumption` (any number of threads, any block and buffer level, any bounds):

| Theorem | Statement | Assumes |
|---|---|---|
| `TypeCorrect` | `Spec => []TypeOK` | - |
| `DisconnectKills` | `Spec => []DisconnectKillsPoller` | `Disconnects` |
| `ReadFinds` | `Spec => []ReadFindsBlock` | `Disconnects` |
| `CountsAgree` | `Spec => []CountsBalance` | `Disconnects` |
| `EnabledPolls` | `Spec => []EnabledMeansPolled` | `Disconnects` |
| `MutexReleased` | `Spec => []HolderReleases` | - |
| `Refinement` | `Spec => ServiceSpec` | `Disconnects` |

`Disconnects` is what `poll_reenable` goes without: it is a rule for programs, which those of
the repository keep.

The inductive invariant `Inv` (proved with `TypeOK`) has six parts. None of the
properties is inductive by itself: that a service finds its block needs that no other
thread can take one, so that the invariant must say there is one poller
(`SoleThread`); that needs to know where the control thread is in its sequence of
calls (`CallOrder`) and that a disconnect which is waiting has cancelled the thread it
waits for (`CancelJoins`); `Knowledge` relates the thread's unlocked local `tidata` to
the board's count; `Balance` the counters to the thread's place and to what it has
loaded; `Polled` is the strengthening of `EnabledMeansPolled`. The counting property is a
statement about the cardinality of a set of threads, which is a singleton or empty
because of `SoleThread`. The refinement maps each step to a step of `BlockService` or a
stutter, using `Inv` for the guards.

`TipSessionProofs` (any processes, buffers and modes, any number of `tipInit`s):

| Theorem | Statement | Assumes |
|---|---|---|
| `SessionCorrect` | `Spec => [](TypeOK /\ Inv)` | - |
| `Safe` | `Spec => []SafeUse` | - |
| `InitReady` | `Spec => []InitMeansReady` | - |
| `OwnMemory` | `Spec => []DmaToOwnMemory` | - |
| `PoolUsed` | `Spec => Pool!Spec` | - |

`Inv` says who can be where: `SoleSetter` (one process is not a watcher, and only it is
in the steps that write the board), `Absent` (who has not started or has ended has
nothing), `Descriptors` (`tipFD` and the pointers against what is really open and
mapped), `Memory` (the base address is the buffer that the driver gave, and exclusive),
`SetUp` (what each part of `tipInit` has made of the board still holds at the later
ones) and `OwnDma` (from the reset on, DMA goes to the process's own memory). `PoolUsed`
shows that the library keeps its side of `TipDmaPool`.

`TipLevelsProofs` (any threads, roles, crates and levels, whenever commands arrive):

| Theorem | Statement | Assumes |
|---|---|---|
| `LevelsCorrect` | `Spec => [](TypeOK /\ Inv)` | - |
| `SourceKept` | `Spec => []SourceSticks` | - |
| `FlagOfBlock` | `Spec => []FlagIsSyncBlock` | - |
| `CratesFollow` | `Spec => []CratesCatchUp` | `Loops` |
| `BuffersFollow` | `Spec => []BufferAsSet` | `Loops` |

`Inv` is `HasCommand`, `Sender` (a thread that is about to send has the mutex, and the
trigger source it saved is the one in the register) and `FlagTells` (what the poll said
of the first block stays true until the block is read, however many triggers come: the
flag is set only when one block is there). That one thread reads is an assumption on
`Roles`: with two, a flag could be that of the other's poll.

`CratesFollow` needs what is on the links: `Agreed` says that there are one level and one
buffer level that every crate which took part is about to have, which is the last command
of that kind on its link or, when there is none, what it has received (`Ends`), and that
the crates a sync reset has reached will have the level once the reset has sent it.
`Loops` says that every trigger source has the loopback on, without which the master
would miss its own broadcasts; `tipSetTriggerSource` turns it on for each source. For
`BuffersFollow`, `Agreed` also says that the buffer level is the library's, but for one that a
thread with the mutex is about to send: `tipSetBlockBufferLevel` sets the global and sends
the value under one hold of the mutex, also when a sync reset calls it with a value that is
old by then. Nothing of the kind holds of the block level ("Seen on the way").

`TipDmaRingProofs` (any ring, block levels, event lengths and delays):

| Theorem | Statement | Assumes |
|---|---|---|
| `RingCorrect` | `Spec => [](TypeOK /\ Kept)` | - |
| `KeepsStep` | `Spec => []InStep` | - |
| `ReadsRightBlock` | `Spec => []RightBlock` | - |
| `ReturnsBlocks` | `Spec => []NothingLost` | - |
| `BehindAtMost` | `Spec => []BehindByGiveUps` | - |

First the positions (`Inv`): `Slotted` says that no slot's first word is a trailer, `Seen`
that a read which copies has seen a count; so a read takes a word, and the branch which
sends `TIPpd` back to the start is never taken. `Round` is the arithmetic of a remainder
that goes round. Then the contents (`Kept`): `Filled` says that the j-th block is in its
slot, as far as it has come, until the block a lap later starts to come, and that a slot
which no block has reached is clean. `Turn` is the block in the slot the reader is at:
the one it reads for, less the reads that gave up and have been followed by one that did
not. While the reader is in time that block has started to come when it sees a count, and each
word it has copied since is the one of this block in its place, or nothing (`Copying`): no
later block can come to the slot (`InTurn`), and what the board adds meanwhile is of this
block (`AtTurn`). So the trailer, when there is one, is this block's, and the distance to
the header that the code checks is that of the whole block (`Copied`). `Apart` is why two blocks less than a lap apart have different slots.

`TipBankProofs` and `TipFifoProofs` (any block levels, event lengths and number of retries;
by `FifoAssumption` event words may look like headers but not like a trailer, which the code
does not ensure):

| Theorem | Statement | Assumes |
|---|---|---|
| `WellTyped` | `Spec => []TypeOK` | - |
| `WholeBlocks` | `Spec => []BankIsOneBlock` | - |
| `OrderedBanks` | `Spec => []BanksInOrder` | - |
| `EveryBlockReturned` | `Spec => []NothingLost` | - |
| `BanksDecode` | `Spec => []BankDecodes` | - |

`Laid` says that every word of the stream is in its place in a block that is there as a
whole; `Counted` ties the count of ready blocks to the trailers that have been taken.
`Segment` is the strengthening that matters: past the bank header, `data` starts with
the first word of a block and, without the words read from an empty FIFO, is a piece of
the stream (`Follows`). `Accepted` draws the conclusion: the trailer carries the length of
its own block; if that is the length of `data`, no word came from an empty FIFO and `data`
is that block. `Order` says that what is still to come is later than all that was
returned. `EveryBlockReturned` needs where the parser is in a block when every word is in
time (`Exact`), and there the parity that decides about the filler is right. For
`BanksDecode` the two walks over a bank are worked out (`CheckAccepts`, `DecodeFinds`).
They are recursive functions, and what such a function computes is shown without
induction: that there is one, by giving it (`TailRecursion` gives the function of any
search that goes from a place to the next, whether it ends or not), and what it is, by
the smallest place at which it would differ (`Smallest`, from the well-foundedness of <).

`TipDriverProofs` (any processes, handles and number of loads):

| Theorem | Statement | Assumes |
|---|---|---|
| `DriverCorrect` | `Spec => [](TypeOK /\ Inv)` | - |
| `UnloadsClean` | `Spec => []NothingLeftBehind` | - |
| `ServesMapped` | `Spec => ServedWhileIn` | - |
| `ListKept` | `Spec => []ListIsWhole` | - |
| `GivesAndTakes` | `Spec => PoolSpec` | - |

The inductive invariant: `Steps` says of each stage of the load what is held and which
flags are set; `Sessions` that handles are asked for and kept through an open device, and
that nobody has it open when the module is out; `Locked` that the semaphore is with the
process that is at the buffer or in the list, and that nobody gets further than to it before
`sema_init`; `LoadIs` says what the load and the unload are to the requests: nothing, the
semaphore that comes up, or the end of the module; `Owners` that a handle a process has is nobody else's; `Lists` that the list is
q[1], ..., q[n] for some n and q without repetition, that a walk is on its way to its own
handle, and that a listed handle without a buffer is the one being removed. `ListedIs`
works out once what the recursive `Chain` makes of that. The refinement maps each request
to the step of `TipDmaPool` at which the buffer changes hands, or to a stutter.

`TipConfigProofs` (any files, any number of Downloads, master or slave):

| Theorem | Statement | Assumes |
|---|---|---|
| `ConfigCorrect` | `Spec => []Correct` | - |
| `WellTyped` | `Spec => []TypeOK` | - |
| `DecidesByFile` | `Spec => []FileDecides` | - |
| `ChangesByItsKey` | `Spec => OnlyByItsKey` | - |
| `HearsSlave` | `Spec => []ListensToSlave` | - |
| `StopsPulsers` | `Spec => []PulsersStop` | - |

The run has a small set of files, each with a few keys; here a file is any function from
keys to integers. The invariant `Correct` is short: `Types`; `FileOnBoard`, that from a
Download to the Reset the board has what the last file says (`Decided`), which Go and End
keep because the pulsers have settings of their own; and `PulsersOwned`, that a pulser
that is on belongs to a run whose maps will make End stop it. The work is in what one
load makes of a board (`Loaded`). It is three folds, which the community modules define by a
`CHOOSE` of a function on the sets of positions: `FoldExists` gives such a function and
`GeneralIs`, `InputsFold` and `RulesFold` conclude that each fold is the chain of its steps.
Of a step, `CallIs` says which settings are its `Own` and what it `Holds` when it answers
OK. Two steps share a setting only where a later one may take nothing back: the fiber-1
busy bit, which the busy keys and the slave both write and which `tipAddSlave`, the last call,
only turns on (`OwnApart`, `HoldsStays`). That order is what `HearsSlave` rests on. For
`ChangesByItsKey` each changed setting is traced to the call that owns it and from there to
a key that is above 0 (`LoadReason`); a setting of `Single` is its own key's (`SingleOwn`).

All rest on the named assumptions of the modules on their constants, which every run
evaluates.

Only model-checked: the liveness properties (`ReadyBlocksAreServed`, `CallsReturnUnlessLost`,
`BlocksLeave`, `RequestsEnd`), which are out of the prover's reach. Every invariant and
every action property of a passing run is a theorem, under the assumptions named in the
tables, which hold in the run.

## 6. Plan

Proofs to come: none of the properties that the runs check. What is worth having is the
same for weaker assumptions: `TipPoll` without `Disconnects`, `TipFifo` with event words that
look like a trailer.

Modelling that is left: the current block level, which follows the received one at a
block's end or a sync event, and its instant change; rule 5 and the clock prescales; the
words of the trigger tables; `tipAckConnect`; the readout lists' threadless service
composed with the configuration.

## 7. Not modelled

* Registers that one function checks and writes, beyond those in `TipBoard` (about ninety
  functions): one step each, nothing to interleave with. Status printing, JTAG, serial
  numbers, the firmware updater: sequential I/O. `INIReader.h`: vendored.
* `tipAckConnect`, `tipNeedAck`, the interrupt modes: no code of the repository uses a
  routine for the first, sets the second to anything but 0, or compiles the third.
* The driver's interrupt: set up only under `TEST_INTERRUPTS`.
* The values that register requests read and write, and offsets out of range, which end a
  request half way and leak its two arrays.
* `ti2param` and with it most of `writeIni`: nothing calls or declares it.
* In the FIFO branch, the buffer's size: the code ignores `nwrds`, so that a block with
  retries can be longer than the maximum the caller gave. In the DMA branch, blocks longer
  than a slot.
* A stall of the mutex itself, and signals to the library. The death of the process is
  modelled for sessions (`Die`), not in the middle of a service.
