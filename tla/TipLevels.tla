----------------------------- MODULE TipLevels ------------------------------
(***************************************************************************)
(* Block level, buffer level, sync resets and sync events (TIpcieLib.c).   *)
(* The threads of the master's program broadcast commands to the crates,   *)
(* the master among them, over links that keep their order; slaves start   *)
(* again at any time and miss what was sent before.  One thread reads the  *)
(* blocks out and looks at the sync event flag.                            *)
(*                                                                         *)
(* When a board makes the level it has received its current one is its own *)
(* matter and is left out.                                                 *)
(***************************************************************************)
EXTENDS Naturals, Sequences

CONSTANTS
  Threads,       \* threads of the master's program
  Master, Slaves,
  None,          \* nobody holds the mutex
  Roles,         \* what each thread calls: see AllRoles
  Sources,       \* the trigger sources that the program chooses from
  MaxLevel, MaxBuffer,             \* bounds of the model: levels
  MaxCalls, MaxRestarts, MaxReady  \* calls, restarts of slaves, blocks on the board

Crates   == Slaves \union {Master}
AllRoles == {"levels", "source", "readout"}

ASSUME LevelsAssumption ==
  /\ Master \notin Slaves /\ None \notin Threads
  /\ Roles \in [Threads -> SUBSET AllRoles]
  /\ \A s, t \in Threads : "readout" \in Roles[s] /\ "readout" \in Roles[t] => s = t
  /\ \A s \in Sources : s \subseteq {"vme", "loopback", "trigger"}
  /\ {MaxLevel, MaxBuffer, MaxCalls, MaxRestarts, MaxReady} \subseteq Nat \ {0}

VARIABLES
  trigsrc,   \* bits of the master's register
  link,      \* the commands on their way to each crate
  received,  \* the block level each crate has received
  buffer,    \* the buffer level each crate has received
  ready,     \* blocks on the master: TRUE for that of a sync event
  partial,   \* triggers are needed to complete one more
  lock,      \* tipcieMutex
  nextLevel, bufferLevel,  \* tipNextBlockLevel, tipBlockBufferLevel
  flag,      \* tipSyncEventFlag
  pc,
  command,   \* what a thread broadcasts
  saved,     \* trigsrc as it read it
  resetting, \* it is in tipSyncReset
  taken,     \* the block that its service has read
  calls, restarts,
  wanted,    \* auxiliary: the trigger source last asked for,
  missed,    \* crates that started after the last sync reset began
  covered    \* crates that a sync reset in progress will reach

boards  == <<trigsrc, link, received, buffer, ready, partial>>
library == <<lock, nextLevel, bufferLevel, flag>>
local   == <<pc, command, saved, resetting, taken, calls>>
history == <<wanted, missed, covered>>
vars    == <<boards, library, local, restarts, history>>

Off == {"loopback"}
NoCommand == [kind |-> "none", value |-> 0]

\* the master has been through tipInit; the slaves are up and have received
\* nothing
Init ==
  /\ trigsrc = Off /\ link = [c \in Crates |-> <<>>]
  /\ received = [c \in Crates |-> IF c = Master THEN 1 ELSE 0]
  /\ buffer = [c \in Crates |-> IF c = Master THEN 1 ELSE 0]
  /\ ready = <<>> /\ partial = FALSE
  /\ lock = None
  /\ nextLevel = 1 /\ bufferLevel = 1 /\ flag = FALSE
  /\ pc = [t \in Threads |-> "idle"]
  /\ command = [t \in Threads |-> NoCommand] /\ saved = [t \in Threads |-> {}]
  /\ resetting = [t \in Threads |-> FALSE] /\ taken = [t \in Threads |-> FALSE]
  /\ calls = 0 /\ restarts = 0
  /\ wanted = Off /\ missed = Slaves
  /\ covered = [t \in Threads |-> {}]

Goto(t, place) == pc' = [pc EXCEPT ![t] = place]

Calls(t) ==
  /\ "levels" \in Roles[t] /\ pc[t] = "idle" /\ calls < MaxCalls
  /\ calls' = calls + 1

-----------------------------------------------------------------------------
(* Broadcasts: tipBroadcastNextBlockLevel and tipSetBlockBufferLevel *)

\* the level counted from 0
SlipBroadcast(t, kind, value) ==
  /\ command' = [command EXCEPT ![t] = [kind |-> kind, value |-> value - 1]]
  /\ Goto(t, "lock")

Broadcast(t, kind, value) ==
  /\ command' = [command EXCEPT ![t] = [kind |-> kind, value |-> value]]
  /\ Goto(t, "lock")

SetBlockLevel(t) ==
  /\ Calls(t)
  /\ \E l \in 1..MaxLevel : Broadcast(t, "level", l)
  /\ UNCHANGED <<boards, library, saved, resetting, taken, restarts, history>>

SetBlockBufferLevel(t) ==
  /\ Calls(t)
  /\ \E b \in 0..MaxBuffer : Broadcast(t, "buffer", b)
  /\ UNCHANGED <<boards, library, saved, resetting, taken, restarts, history>>

\* the trigger source is read before the mutex is taken
SlipReadSource(t) ==
  \/ /\ pc[t] = "lock" /\ Goto(t, "take")
     /\ saved' = [saved EXCEPT ![t] = trigsrc]
     /\ UNCHANGED <<boards, library, command, resetting, taken, calls, restarts, history>>
  \/ /\ pc[t] = "take" /\ lock = None /\ lock' = t /\ Goto(t, "send")
     /\ bufferLevel' = IF command[t].kind = "buffer" THEN command[t].value ELSE bufferLevel
     /\ UNCHANGED <<boards, nextLevel, flag, command, saved, resetting, taken, calls,
                    restarts, history>>

\* what a sync reset sends is taken to be the library's level still
SlipReadBuffer(t) ==
  /\ pc[t] = "lock" /\ lock = None /\ lock' = t
  /\ bufferLevel' = IF command[t].kind = "buffer" /\ ~resetting[t]
                      THEN command[t].value ELSE bufferLevel
  /\ saved' = [saved EXCEPT ![t] = trigsrc]
  /\ Goto(t, "send")
  /\ UNCHANGED <<boards, nextLevel, flag, command, resetting, taken, calls,
                 restarts, history>>

ReadSource(t) ==
  /\ pc[t] = "lock" /\ lock = None /\ lock' = t
  /\ bufferLevel' = IF command[t].kind = "buffer" THEN command[t].value ELSE bufferLevel
  /\ saved' = [saved EXCEPT ![t] = trigsrc]
  /\ Goto(t, "send")
  /\ UNCHANGED <<boards, nextLevel, flag, command, resetting, taken, calls,
                 restarts, history>>

\* VME commands are turned on for the command, and off again if they were
Opened(t) == IF "vme" \in saved[t] THEN trigsrc ELSE saved[t] \union {"vme"}
Closed(t) == IF "vme" \in saved[t] THEN trigsrc ELSE saved[t]

Reached(t) ==
  {c \in Crates : "vme" \in Opened(t) /\ (c = Master => "loopback" \in Opened(t))}

\* a thread that has done what tipSyncReset does has reached the crates that
\* were there when it began
Return(t) ==
  /\ Goto(t, "idle")
  /\ resetting' = [resetting EXCEPT ![t] = FALSE]
  /\ missed' = missed \ covered[t]
  /\ covered' = [covered EXCEPT ![t] = {}]

Send(t) ==
  /\ pc[t] = "send"
  /\ link' = [c \in Crates |->
                IF c \in Reached(t) THEN Append(link[c], command[t]) ELSE link[c]]
  /\ trigsrc' = Closed(t)
  /\ lock' = None
  /\ command' = [command EXCEPT ![t] = NoCommand]
  /\ saved' = [saved EXCEPT ![t] = {}]
  /\ IF command[t].kind = "level"
       THEN Goto(t, "readback") /\ UNCHANGED <<resetting, missed, covered>>
       ELSE Return(t)
  /\ UNCHANGED <<received, buffer, ready, partial, nextLevel, bufferLevel, flag,
                 taken, calls, restarts, wanted>>

\* tipGetNextBlockLevel: the library keeps what the master has received, which
\* the level just sent may or may not have come to
ReadBack(t) ==
  /\ pc[t] = "readback" /\ lock = None
  /\ nextLevel' = received[Master]
  /\ Goto(t, IF resetting[t] THEN "rebuffer" ELSE "idle")
  /\ UNCHANGED <<boards, lock, bufferLevel, flag, command, saved, resetting, taken,
                 calls, restarts, history>>

-----------------------------------------------------------------------------
(* tipSyncReset: the two levels are broadcast again from the library's globals, *)
(* each read when its turn comes, without the mutex.                            *)

SyncReset(t) ==
  /\ Calls(t) /\ lock = None
  /\ \/ /\ Goto(t, "relevel")
        /\ resetting' = [resetting EXCEPT ![t] = TRUE]
        /\ covered' = [covered EXCEPT ![t] = Crates]
     \/ Goto(t, "idle") /\ UNCHANGED <<resetting, covered>>
  /\ UNCHANGED <<boards, library, command, saved, taken, restarts, wanted, missed>>

ReLevel(t) ==
  /\ pc[t] = "relevel"
  /\ Broadcast(t, "level", nextLevel)
  /\ UNCHANGED <<boards, library, saved, resetting, taken, calls, restarts, history>>

\* the buffer level is taken to be with the crates already
SlipReBuffer(t) ==
  /\ pc[t] = "rebuffer"
  /\ Return(t)
  /\ UNCHANGED <<boards, library, command, saved, taken, calls, restarts, wanted>>

ReBuffer(t) ==
  /\ pc[t] = "rebuffer"
  /\ Broadcast(t, "buffer", bufferLevel)
  /\ UNCHANGED <<boards, library, saved, resetting, taken, calls, restarts, history>>

-----------------------------------------------------------------------------
(* The trigger source *)

\* tipDisableTriggerSource(0), or tipEnableTriggerSource for the source that the
\* thread has set
SwitchTriggerSource(t) ==
  /\ "source" \in Roles[t] /\ pc[t] \in {"idle", "flags"} /\ lock = None
  /\ trigsrc' \in Sources \union {Off}
  /\ wanted' = trigsrc'
  /\ UNCHANGED <<link, received, buffer, ready, partial, library, local, restarts,
                 missed, covered>>

-----------------------------------------------------------------------------
(* The thread that reads the blocks: tipPoll and a user routine *)

HasSync == \E i \in 1..Len(ready) : ready[i]

\* any block ready, not one only
SlipBReady(t) ==
  /\ "readout" \in Roles[t] /\ pc[t] = "idle" /\ lock = None
  /\ flag' = (Len(ready) >= 1 /\ HasSync /\ ~partial)
  /\ IF ready # <<>> THEN Goto(t, "read") ELSE UNCHANGED pc
  /\ UNCHANGED <<boards, lock, nextLevel, bufferLevel, command, saved, resetting,
                 taken, calls, restarts, history>>

BReady(t) ==
  /\ "readout" \in Roles[t] /\ pc[t] = "idle" /\ lock = None
  /\ flag' = (Len(ready) = 1 /\ HasSync /\ ~partial)
  /\ IF ready # <<>> THEN Goto(t, "read") ELSE UNCHANGED pc
  /\ UNCHANGED <<boards, lock, nextLevel, bufferLevel, command, saved, resetting,
                 taken, calls, restarts, history>>

ReadBlock(t) ==
  /\ pc[t] = "read" /\ lock = None
  /\ taken' = [taken EXCEPT ![t] = Head(ready)]
  /\ ready' = Tail(ready)
  /\ Goto(t, "flags")
  /\ UNCHANGED <<trigsrc, link, received, buffer, partial, library, command, saved,
                 resetting, calls, restarts, history>>

\* tipGetSyncEventReceived and tipGetSyncEventFlag, and tipIntAck
Flags(t) ==
  /\ pc[t] = "flags" /\ lock = None
  /\ taken' = [taken EXCEPT ![t] = FALSE]
  /\ Goto(t, "idle")
  /\ UNCHANGED <<boards, library, command, saved, resetting, calls, restarts, history>>

-----------------------------------------------------------------------------
(* The hardware *)

Trigger ==
  /\ "trigger" \in trigsrc /\ Len(ready) < MaxReady
  /\ \/ ~partial /\ partial' = TRUE /\ UNCHANGED ready
     \/ partial' = FALSE /\ \E sync \in BOOLEAN : ready' = Append(ready, sync)
  /\ UNCHANGED <<trigsrc, link, received, buffer, library, local, restarts, history>>

Receive(c) ==
  /\ link[c] # <<>>
  /\ link' = [link EXCEPT ![c] = Tail(@)]
  /\ LET m == Head(link[c]) IN
       IF m.kind = "level"
         THEN received' = [received EXCEPT ![c] = m.value] /\ UNCHANGED buffer
         ELSE buffer' = [buffer EXCEPT ![c] = m.value] /\ UNCHANGED received
  /\ UNCHANGED <<trigsrc, ready, partial, library, local, restarts, history>>

\* power cycle or tipInit of a slave
Restart(c) ==
  /\ restarts < MaxRestarts /\ restarts' = restarts + 1
  /\ link' = [link EXCEPT ![c] = <<>>]
  /\ received' = [received EXCEPT ![c] = 0] /\ buffer' = [buffer EXCEPT ![c] = 0]
  /\ missed' = missed \union {c}
  /\ covered' = [t \in Threads |-> covered[t] \ {c}]
  /\ UNCHANGED <<trigsrc, ready, partial, library, local, wanted>>

-----------------------------------------------------------------------------

Thread(t) ==
  \/ SetBlockLevel(t) \/ SetBlockBufferLevel(t) \/ ReadSource(t) \/ Send(t) \/ ReadBack(t)
  \/ SyncReset(t) \/ ReLevel(t) \/ ReBuffer(t)
  \/ SwitchTriggerSource(t)
  \/ BReady(t) \/ ReadBlock(t) \/ Flags(t)

Next ==
  \/ \E t \in Threads : Thread(t)
  \/ \E c \in Crates : Receive(c)
  \/ \E c \in Slaves : Restart(c)
  \/ Trigger

Spec == Init /\ [][Next]_vars

-----------------------------------------------------------------------------
(* Properties *)

Commands == [kind : {"level"}, value : 1..MaxLevel]
              \union [kind : {"buffer"}, value : 0..MaxBuffer]
Bits == {"vme", "loopback", "trigger"}

BoardTypes ==
  /\ trigsrc \subseteq Bits
  /\ link \in [Crates -> Seq(Commands)]
  /\ received \in [Crates -> 0..MaxLevel] /\ buffer \in [Crates -> 0..MaxBuffer]
  /\ ready \in Seq(BOOLEAN) /\ Len(ready) <= MaxReady /\ partial \in BOOLEAN

LibraryTypes ==
  /\ lock \in Threads \union {None} /\ flag \in BOOLEAN
  /\ nextLevel \in 1..MaxLevel /\ bufferLevel \in 0..MaxBuffer

LocalTypes ==
  /\ pc \in [Threads -> {"idle", "lock", "send", "readback", "relevel", "rebuffer",
                         "read", "flags"}]
  /\ command \in [Threads -> Commands \union {NoCommand}]
  /\ saved \in [Threads -> SUBSET Bits]
  /\ resetting \in [Threads -> BOOLEAN] /\ taken \in [Threads -> BOOLEAN]
  /\ calls \in 0..MaxCalls

HistoryTypes ==
  /\ restarts \in 0..MaxRestarts
  /\ wanted \in Sources \union {Off}
  /\ missed \subseteq Slaves /\ covered \in [Threads -> SUBSET Crates]

\* Every variable has its type; no command has a block level of 0, which
\* tipBroadcastNextBlockLevel would refuse in the middle of a sync reset.
TypeOK == BoardTypes /\ LibraryTypes /\ LocalTypes /\ HistoryTypes

\* While nobody is in a broadcast the trigger source is the one last asked for:
\* a broadcast, which reads the register, opens it for its command and puts it
\* back, never undoes what another thread did in between, and leaves no bit.
SourceSticks == lock = None => trigsrc = wanted

Quiet == \A t \in Threads : pc[t] \in {"idle", "read", "flags"}

\* Every crate that was there when a tipSyncReset(1) that has returned began has,
\* once its link has delivered, the levels that the master was last told, however
\* late it started.
CratesCatchUp ==
  Quiet => \A c \in Crates \ missed :
    (link[c] = <<>> /\ link[Master] = <<>>) =>
      received[c] = received[Master] /\ buffer[c] = buffer[Master]

\* While no command is being sent, every crate that took part has, once its link
\* has delivered, the buffer level that the library has in tipBlockBufferLevel: a
\* sync reset, which sends the global again without the mutex while other
\* threads set it, leaves the two alike.
BufferAsSet ==
  lock = None => \A c \in Crates \ missed : link[c] = <<>> => buffer[c] = bufferLevel

\* In the user routine, after the block is read and before it is acknowledged,
\* tipGetSyncEventFlag tells of the block just read, although it was set by the
\* poll that came before: no later trigger and no other thread disturbs it.
FlagIsSyncBlock ==
  \A t \in Threads : (pc[t] = "flags" /\ flag) => taken[t]

=============================================================================
