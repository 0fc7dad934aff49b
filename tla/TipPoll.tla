------------------------------- MODULE TipPoll -------------------------------
(***************************************************************************)
(* The readout service of TIpcieLib.c: a control thread that calls         *)
(* tipIntConnect, tipIntEnable, tipIntDisable and tipIntDisconnect, the    *)
(* polling thread that tipIntEnable starts (tipPoll), the mutex tipcieMutex *)
(* they share and the part of the TI board that fills blocks of events.    *)
(*                                                                         *)
(* One critical section of the code (TIPLOCK ... TIPUNLOCK) is one step    *)
(* that needs the mutex free, except the two during which something else   *)
(* can be seen to happen: tipReadBlock, which may sleep holding the mutex, *)
(* and tipIntEnable, which starts the thread inside it.                    *)
(*                                                                         *)
(* The library is built as the repository builds it (NOTIMPLEMENTED is     *)
(* undefined, so tipReadoutEnabled stays 1) in a polling readout mode with *)
(* tipDoIntPolling = 1, its default.  No code of the repository sets       *)
(* tipNeedAck to anything but 0, or clears tipDoAck once tipIntConnect or  *)
(* tipIntEnable has set it, so their tests in tipPoll always pass.         *)
(***************************************************************************)
EXTENDS Integers, FiniteSets

CONSTANTS
  Threads,        \* the thread ids pthread_create can return
  Ctl,            \* the control thread
  None,           \* "no thread": the value 0 of tippollthread, a free mutex
  BlockLevel,     \* events in a block
  BufferLevel,    \* blocks the board holds before it stops taking triggers
  MaxBlocks,      \* bound of the model: blocks filled in a behaviour
  MaxAborts,      \* bound of the model: services cut short between two resets
  MaxFails,       \* bound of the model: reads that leave their block on the board
  Disconnects     \* every tipIntDisable is followed by tipIntDisconnect

ASSUME ConstantsAssumption ==
  /\ Ctl \notin Threads
  /\ None \notin Threads
  /\ Ctl # None
  /\ BlockLevel \in Nat \ {0}
  /\ BufferLevel \in Nat \ {0}
  /\ MaxBlocks \in Nat
  /\ MaxAborts \in Nat
  /\ MaxFails \in Nat
  /\ Disconnects \in BOOLEAN

VARIABLES
  \* the library's globals
  mutex,      \* holder of tipcieMutex
  handle,     \* tippollthread
  running,    \* tipIntRunning
  connected,  \* tipIntRoutine # NULL
  intCount,   \* tipIntCount
  ackCount,   \* tipAckCount
  \* the threads
  pc,         \* where each polling thread is
  tidata,     \* its local tidata
  loaded,     \* the tipIntCount it has loaded to increment
  cancel,     \* threads with a cancellation request pending
  ctl,        \* where the control thread is
  phase,      \* the calls the control thread has completed
  \* the board
  trigOn,     \* a trigger source is selected in trigsrc
  fill,       \* FILL_TO_END_BLOCK was written and the block is not full yet
  inBlock,    \* events in the block being filled
  ready,      \* blocks ready, the field of the blockBuffer register
  gone,       \* the board has dropped off the bus: every read is all ones
  \* history
  filled,     \* blocks filled so far
  failed,     \* reads that left their block on the board
  created,    \* the last pthread_create succeeded
  aborted     \* services cut short by a cancellation since the last reset

libVars    == <<mutex, handle, running, connected, intCount, ackCount>>
threadVars == <<pc, tidata, loaded, cancel, created>>
boardVars  == <<trigOn, fill, inBlock, ready, gone, filled, failed>>
vars       == <<libVars, threadVars, ctl, phase, boardVars, aborted>>

-----------------------------------------------------------------------------
(* Places of the threads *)

Error == -1    \* ERROR, as tidata sees it

InService == {"routine", "reading", "after"}   \* counted, not acknowledged
Live      == {"loop", "poll", "test", "count"} \cup InService
Ended     == {"exited", "canceled"}            \* ended, not joined yet
Places    == {"unused"} \cup Live \cup Ended

CtlPlaces == {"idle", "connecting", "enabling", "starting", "settling",
              "disabling", "filling", "stopping", "joining"}

Init ==
  /\ mutex = None /\ handle = None /\ running = FALSE /\ connected = FALSE
  /\ intCount = 0 /\ ackCount = 0
  /\ pc = [t \in Threads |-> "unused"]
  /\ tidata = [t \in Threads |-> 0]
  /\ loaded = [t \in Threads |-> 0]
  /\ cancel = {}
  /\ ctl = "idle" /\ phase = "new"
  /\ trigOn = FALSE /\ fill = FALSE /\ inBlock = 0 /\ ready = 0
  /\ gone = FALSE /\ filled = 0 /\ failed = 0
  /\ aborted = 0 /\ created = FALSE

Goto(t, from, to) == pc[t] = from /\ pc' = [pc EXCEPT ![t] = to]

CtlGoto(from, to) == ctl = from /\ ctl' = to

-----------------------------------------------------------------------------
(* Slips that the properties below must notice: each is checked in place of  *)
(* the definition it is named after.                                         *)

\* no test for an empty board
SlipAnnounced(t) == tidata[t] >= 0

\* the last block is left on the board
SlipAnnouncedLast(t) == tidata[t] > 1

\* an empty board is taken for an error
SlipFailed(t) == tidata[t] <= 0

\* a return of tipReadBlock forgets TIPUNLOCK
SlipReadDoneLocked(t) ==
  /\ Goto(t, "reading", "after")
  /\ ready' = IF ready > 0 /\ ~gone THEN ready - 1 ELSE ready
  /\ UNCHANGED <<libVars, tidata, loaded, cancel, created, ctl, phase, trigOn,
                 fill, inBlock, gone, filled, failed, aborted>>

\* only one of the counters is cleared
SlipResetCounts == intCount' = 0 /\ UNCHANGED ackCount /\ aborted' = 0

\* tipIntDisconnect cancels the thread and does not join it
SlipJoin ==
  /\ CtlGoto("joining", "idle")
  /\ phase' = "disconnected"
  /\ UNCHANGED <<libVars, threadVars, boardVars, aborted>>

\* the board does not raise busy when its buffer is full
SlipTrigger ==
  /\ ~gone /\ filled < MaxBlocks
  /\ trigOn
  /\ ready' = ready + 1 /\ filled' = filled + 1
  /\ UNCHANGED <<libVars, threadVars, ctl, phase, trigOn, fill, inBlock, gone,
                 failed, aborted>>

-----------------------------------------------------------------------------
(* The board *)

\* One more event in the current block, from a trigger source or from the
\* FILL_TO_END_BLOCK request; a full buffer keeps the board busy.
Trigger ==
  /\ ~gone /\ ready < BufferLevel /\ filled < MaxBlocks
  /\ trigOn \/ fill
  /\ IF inBlock + 1 = BlockLevel
       THEN /\ inBlock' = 0 /\ fill' = FALSE
            /\ ready' = ready + 1 /\ filled' = filled + 1
       ELSE inBlock' = inBlock + 1 /\ UNCHANGED <<fill, ready, filled>>
  /\ UNCHANGED <<libVars, threadVars, ctl, phase, trigOn, gone, failed, aborted>>

BoardLost ==
  /\ ~gone
  /\ gone' = TRUE
  /\ UNCHANGED <<libVars, threadVars, ctl, phase, trigOn, fill, inBlock, ready,
                 filled, failed, aborted>>

-----------------------------------------------------------------------------
(* The polling thread: tipPoll *)

\* usleep(1) and pthread_testcancel() return
Wake(t) ==
  /\ t \notin cancel
  /\ Goto(t, "loop", "poll")
  /\ UNCHANGED <<libVars, tidata, loaded, cancel, created, ctl, phase, boardVars, aborted>>

\* tipBReady: the number of blocks ready, or ERROR when the register reads as
\* all ones
BReady(t) ==
  /\ mutex = None
  /\ Goto(t, "poll", "test")
  /\ tidata' = [tidata EXCEPT ![t] = IF gone THEN Error ELSE ready]
  /\ UNCHANGED <<libVars, loaded, cancel, created, ctl, phase, boardVars, aborted>>

Failed(t)    == tidata[t] = Error
Announced(t) == tidata[t] # 0

\* if(tidata == ERROR) break; if(tidata && tipIntRunning) tipIntCount++ begins.
\* tipIntRunning and tipIntCount are read without the mutex.
PollTest(t) ==
  /\ \/ /\ Failed(t)
        /\ Goto(t, "test", "exited")
        /\ UNCHANGED loaded
     \/ /\ ~Failed(t) /\ Announced(t) /\ running
        /\ Goto(t, "test", "count")
        /\ loaded' = [loaded EXCEPT ![t] = intCount]
     \/ /\ ~Failed(t) /\ ~(Announced(t) /\ running)
        /\ Goto(t, "test", "loop")
        /\ UNCHANGED loaded
  /\ tidata' = [tidata EXCEPT ![t] = 0]   \* its value is not used again
  /\ UNCHANGED <<libVars, cancel, created, ctl, phase, boardVars, aborted>>

\* tipIntCount++ is stored; the user routine is called if there is one
Count(t) ==
  /\ Goto(t, "count", IF connected THEN "routine" ELSE "after")
  /\ intCount' = loaded[t] + 1
  /\ loaded' = [loaded EXCEPT ![t] = 0]
  /\ UNCHANGED <<mutex, handle, running, connected, ackCount, tidata, cancel,
                 created, ctl, phase, boardVars, aborted>>

\* the user routine (mytiISR) calls tipReadBlock, which takes the mutex ...
ReadStart(t) ==
  /\ mutex = None
  /\ Goto(t, "routine", "reading")
  /\ mutex' = t
  /\ UNCHANGED <<handle, running, connected, intCount, ackCount, tidata, loaded,
                 cancel, created, ctl, phase, boardVars, aborted>>

\* What tipReadBlock does to the blocks: it reads one out, or it finds no valid
\* word where a header or a trailer should be, or no word in its DMA buffer,
\* and the block still counts as ready.
Take ==
  \/ /\ ready > 0 /\ ~gone
     /\ ready' = ready - 1 /\ UNCHANGED failed
  \/ /\ ready > 0 /\ ~gone /\ failed < MaxFails
     /\ failed' = failed + 1 /\ UNCHANGED ready
  \/ /\ ready = 0 \/ gone
     /\ UNCHANGED <<ready, failed>>

\* ... and returns, with the block or with an error.  The user routine goes on
\* either way, and tipPoll acknowledges.
ReadDone(t) ==
  /\ Goto(t, "reading", "after")
  /\ mutex' = None
  /\ Take
  /\ UNCHANGED <<handle, running, connected, intCount, ackCount, tidata, loaded,
                 cancel, created, ctl, phase, trigOn, fill, inBlock, gone, filled, aborted>>

\* the user routine has returned: tipIntAck, with no user acknowledge routine
Ack(t) ==
  /\ mutex = None
  /\ Goto(t, "after", "loop")
  /\ ackCount' = ackCount + 1
  /\ UNCHANGED <<mutex, handle, running, connected, intCount, tidata, loaded,
                 cancel, created, ctl, phase, boardVars, aborted>>

\* The deferred cancellation of pthreads acts only in a cancellation point:
\* usleep and pthread_testcancel in the loop, printf in the user routine, and,
\* with the mutex held, the usleeps of tipReadBlock and those of
\* tipPrintTempVolt, which mytiISR calls now and then after its read and which
\* the place "reading" stands for too.  pthread_mutex_lock and the register
\* accesses are not cancellation points.
Cancelable == {"loop", "routine", "reading", "after"}

\* a cancellation request acts.  tipPoll has no cleanup handler: a mutex held
\* by the thread stays locked.
Canceled(t) ==
  /\ t \in cancel /\ pc[t] \in Cancelable
  /\ pc' = [pc EXCEPT ![t] = "canceled"]
  /\ cancel' = cancel \ {t}
  /\ aborted' = IF pc[t] \in InService THEN aborted + 1 ELSE aborted
  /\ IF pc[t] = "reading" THEN Take ELSE UNCHANGED <<ready, failed>>
  /\ UNCHANGED <<libVars, tidata, loaded, created, ctl, phase, trigOn, fill,
                 inBlock, gone, filled>>

Poller(t) ==
  \/ Wake(t) \/ BReady(t) \/ PollTest(t) \/ Count(t)
  \/ ReadStart(t) \/ ReadDone(t) \/ Ack(t) \/ Canceled(t)

-----------------------------------------------------------------------------
(* The control thread makes the calls of test/tipReadoutTest.c in its order; *)
(* with Disconnects = FALSE it may also pause, by tipIntDisable, and resume. *)

Begin(phases, to) ==
  /\ phase \in phases
  /\ CtlGoto("idle", to)

ResetCounts == intCount' = 0 /\ ackCount' = 0 /\ aborted' = 0

\* tipIntConnect clears the counters without the mutex ...
CallConnect ==
  /\ Begin({"new"}, "connecting")
  /\ ResetCounts
  /\ UNCHANGED <<mutex, handle, running, connected, threadVars, phase, boardVars>>

\* ... writes intsetup with it, and sets the routine
ConnectDone ==
  /\ CtlGoto("connecting", "idle")
  /\ mutex = None
  /\ connected' = TRUE
  /\ phase' = "connected"
  /\ UNCHANGED <<mutex, handle, running, intCount, ackCount, threadVars,
                 boardVars, aborted>>

CallEnable ==
  /\ Begin({"connected", "disconnected"}
             \cup (IF Disconnects THEN {} ELSE {"stopped"}), "enabling")
  /\ UNCHANGED <<libVars, threadVars, phase, boardVars, aborted>>

\* tipIntEnable(iflag): TIPLOCK; the counters are cleared when iflag = 1
EnableLock ==
  /\ CtlGoto("enabling", "starting")
  /\ mutex = None /\ mutex' = Ctl
  /\ \/ ResetCounts
     \/ aborted < MaxAborts /\ UNCHANGED <<intCount, ackCount, aborted>>
  /\ UNCHANGED <<handle, running, connected, threadVars, phase, boardVars>>

\* tipIntRunning = 1; tipStartPollingThread; TIPUNLOCK.  Whatever thread
\* tippollthread named before is forgotten.  After a failed pthread_create
\* its content is unspecified, and only a message reports the failure.
EnableStart ==
  /\ CtlGoto("starting", "settling")
  /\ running' = TRUE
  /\ mutex' = None
  /\ \/ \E t \in Threads :
          /\ Goto(t, "unused", "loop")
          /\ handle' = t /\ created' = TRUE
     \/ /\ created' = FALSE
        /\ handle' \in Threads
        /\ UNCHANGED pc
  /\ UNCHANGED <<connected, intCount, ackCount, tidata, loaded, cancel, phase,
                 boardVars, aborted>>

\* usleep(300000); tipEnableTriggerSource
EnableSource ==
  /\ CtlGoto("settling", "idle")
  /\ mutex = None
  /\ trigOn' = TRUE
  /\ phase' = "running"
  /\ UNCHANGED <<libVars, threadVars, fill, inBlock, ready, gone, filled, failed, aborted>>

CallDisable ==
  /\ Begin({"running"}, "disabling")
  /\ UNCHANGED <<libVars, threadVars, phase, boardVars, aborted>>

\* tipIntDisable: tipDisableTriggerSource(1) ...
DisableSource ==
  /\ CtlGoto("disabling", "filling")
  /\ mutex = None
  /\ trigOn' = FALSE
  /\ UNCHANGED <<libVars, threadVars, phase, fill, inBlock, ready, gone, filled, failed,
                 aborted>>

\* ... which calls tipFillToEndBlock on the master ...
FillToEndBlock ==
  /\ CtlGoto("filling", "stopping")
  /\ mutex = None
  /\ fill' = (inBlock # 0)
  /\ UNCHANGED <<libVars, threadVars, phase, trigOn, inBlock, ready, gone, filled, failed,
                 aborted>>

\* ... then intsetup, runningMode and tipIntRunning = 0
DisableStop ==
  /\ CtlGoto("stopping", "idle")
  /\ mutex = None
  /\ running' = FALSE
  /\ phase' = "stopped"
  /\ UNCHANGED <<mutex, handle, connected, intCount, ackCount, threadVars,
                 boardVars, aborted>>

\* tipIntDisconnect refuses while tipIntRunning; otherwise it cancels and joins
\* the thread in tippollthread, if that is not 0
CallDisconnect ==
  /\ ~running /\ handle # None
  /\ Begin({"stopped"}, "joining")
  /\ cancel' = IF pc[handle] \in Live THEN cancel \cup {handle} ELSE cancel
  /\ UNCHANGED <<libVars, pc, tidata, loaded, created, phase, boardVars, aborted>>

\* pthread_join returns.  tippollthread keeps the id, so the id may already be
\* that of a joined thread ("unused"): the call may then return at once.
Join ==
  /\ CtlGoto("joining", "idle")
  /\ pc[handle] \in Ended \cup {"unused"}
  /\ pc' = [pc EXCEPT ![handle] = "unused"]
  /\ phase' = "disconnected"
  /\ cancel' = cancel \ {handle}
  /\ UNCHANGED <<libVars, tidata, loaded, created, boardVars, aborted>>

LockedStep ==
  \/ ConnectDone \/ EnableLock \/ EnableSource
  \/ DisableSource \/ FillToEndBlock \/ DisableStop

Call == CallConnect \/ CallEnable \/ CallDisable \/ CallDisconnect

Control == Call \/ LockedStep \/ EnableStart \/ Join

Next ==
  \/ \E t \in Threads : Poller(t)
  \/ Control
  \/ Trigger
  \/ BoardLost

Spec == Init /\ [][Next]_vars

\* The scheduler runs every thread that can run (weak fairness), and a thread
\* that waits for the mutex gets it if it is free again and again (strong
\* fairness): tipPoll sleeps in each turn of its loop without holding it.
\* Nothing obliges the control thread to make a call, or the board to trigger.
Fairness ==
  /\ \A t \in Threads :
       /\ WF_vars(Wake(t) \/ PollTest(t) \/ Count(t) \/ ReadDone(t) \/ Canceled(t))
       /\ SF_vars(BReady(t)) /\ SF_vars(ReadStart(t)) /\ SF_vars(Ack(t))
  /\ SF_vars(LockedStep)
  /\ WF_vars(EnableStart) /\ WF_vars(Join)

FairSpec == Spec /\ Fairness

-----------------------------------------------------------------------------
(* Properties *)

\* Every variable has its type.
TypeOK ==
  /\ mutex \in Threads \cup {Ctl, None}
  /\ handle \in Threads \cup {None}
  /\ running \in BOOLEAN /\ connected \in BOOLEAN /\ created \in BOOLEAN
  /\ intCount \in Nat /\ ackCount \in Nat /\ aborted \in Nat
  /\ pc \in [Threads -> Places]
  /\ tidata \in [Threads -> Nat \cup {Error}]
  /\ loaded \in [Threads -> Nat]
  /\ cancel \subseteq Threads
  /\ ctl \in CtlPlaces
  /\ phase \in {"new", "connected", "running", "stopped", "disconnected"}
  /\ trigOn \in BOOLEAN /\ fill \in BOOLEAN /\ gone \in BOOLEAN
  /\ inBlock \in 0..BlockLevel - 1
  /\ ready \in 0..BufferLevel
  /\ filled \in 0..MaxBlocks /\ failed \in 0..MaxFails

\* A thread has ended with the mutex.
Abandoned == mutex \in Threads /\ pc[mutex] \in {"canceled", "unused"}

\* A run never loses the mutex: it is held by the thread inside tipReadBlock or
\* by tipIntEnable, whatever the read returns, and only the cancellation of
\* tipIntDisconnect can leave it with a thread that will not unlock it.
HolderReleases ==
  /\ mutex \in Threads =>
       \/ pc[mutex] = "reading"
       \/ Abandoned /\ (ctl = "joining" \/ phase = "disconnected")
  /\ mutex = Ctl => ctl = "starting"

\* Once tipIntDisconnect has returned, no polling thread is left to read the
\* board or call the user routine: the one thread it cancels and joins was the
\* only one.
DisconnectKillsPoller ==
  (ctl = "idle" /\ phase = "disconnected") => \A t \in Threads : pc[t] \notin Live

\* The user routine is called, and reads, only while the block that
\* tipBReady announced is still on the board: nobody else has taken it
\* between the unlocked test and the read.
ReadFindsBlock ==
  \A t \in Threads : pc[t] \in {"count", "routine", "reading"} => ready > 0

\* tipIntCount and tipAckCount agree: a counted service that has not been
\* acknowledged is in progress, or was cut short by tipIntDisconnect.  One is
\* written without the mutex, the other with it, and tipIntConnect and
\* tipIntEnable(1) clear both.
CountsBalance ==
  intCount = ackCount + aborted + Cardinality({t \in Threads : pc[t] \in InService})

\* When tipIntEnable has returned OK and its thread could be created, the
\* board is being polled until tipIntDisable, unless the board is gone.
EnabledMeansPolled ==
  (ctl = "idle" /\ phase = "running" /\ created /\ ~gone)
    => handle # None /\ pc[handle] \in Live /\ running

\* The service implements the abstract one, with tipIntCount the calls and
\* tipAckCount the acknowledgements.
Stage ==
  IF \E t \in Threads : pc[t] \in {"routine", "reading"} THEN "called"
  ELSE IF \E t \in Threads : pc[t] = "after" THEN "read"
  ELSE "none"

Service == INSTANCE BlockService
             WITH blocks <- ready, stage <- Stage, called <- intCount,
                  acked <- ackCount, cut <- aborted, lost <- gone

ServiceSpec == Service!Spec

\* While the service is enabled a ready block does not wait for ever: a read
\* of it begins, and again if the read has left it or another on the board.
ReadyBlocksAreServed ==
  (ready > 0 /\ running /\ created)
    ~> ((\E t \in Threads : pc[t] = "reading") \/ ~running \/ gone)

\* Every call the control thread makes returns: it neither waits for a mutex
\* that is not coming back nor for a thread that does not end.
CallsReturn == (ctl # "idle") ~> (ctl = "idle")

\* The loss of the mutex to a cancelled thread is the one thing that keeps a
\* call from returning.
CallsReturnUnlessLost == (ctl # "idle") ~> (ctl = "idle" \/ Abandoned)

=============================================================================
