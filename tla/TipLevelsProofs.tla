-------------------------- MODULE TipLevelsProofs --------------------------
(***************************************************************************)
(* Proofs about TipLevels, for any threads, crates and levels: broadcasts  *)
(* leave the trigger source alone, whatever thread does what; the flag of  *)
(* the last poll is that of the block read; the crates come to have the    *)
(* levels that were set.                                                   *)
(***************************************************************************)
EXTENDS TipLevels, TLAPS

\* The mutex is with the thread that is about to send, which has read what is
\* still in the register.
Sender ==
  /\ \A t \in Threads : pc[t] = "send" => lock = t /\ saved[t] = trigsrc
  /\ lock # None => lock \in Threads /\ pc[lock] = "send"
  /\ trigsrc = wanted

\* A thread on its way to send has a command, and the master's board a level.
HasCommand ==
  /\ \A t \in Threads : pc[t] \in {"lock", "send"} => command[t] \in Commands
  /\ received[Master] # 0

\* What the poll has said of the block at the head stays true until that block
\* is read, and then is true of the block read.
FlagTells ==
  \A t \in Threads :
    /\ pc[t] \in {"read", "flags"} => "readout" \in Roles[t]
    /\ pc[t] = "read" => ready # <<>>
    /\ pc[t] = "read" /\ flag => Head(ready)
    /\ pc[t] = "flags" /\ flag => taken[t]

Inv == HasCommand /\ Sender /\ FlagTells

\* The last command of a kind on a link has value v; or there is none, and the
\* register of that kind has.
Ends(s, kind, r, v) ==
  \/ \E i \in 1..Len(s) :
       /\ s[i].kind = kind /\ s[i].value = v
       /\ \A j \in 1..Len(s) : j > i => s[j].kind # kind
  \/ (\A i \in 1..Len(s) : s[i].kind # kind) /\ r = v

LevelOf(c, v)  == Ends(link[c], "level", received[c], v)
BufferOf(c, v) == Ends(link[c], "buffer", buffer[c], v)

\* The sync reset that a thread is in has sent the level already.
LevelSent(t) ==
  /\ resetting[t]
  /\ \/ pc[t] \in {"readback", "rebuffer"}
     \/ pc[t] \in {"lock", "send"} /\ command[t].kind = "buffer"

\* Where the threads are in a sync reset, and what it is to reach.
Resets ==
  \A t \in Threads :
    /\ resetting[t] => pc[t] \in {"relevel", "lock", "send", "readback", "rebuffer"}
    /\ covered[t] # {} => resetting[t]
    /\ pc[t] = "rebuffer" => resetting[t]

\* The crates that took part are about to have one level and one buffer level,
\* those that a reset covers the level as soon as it is sent.
Agree(l, b) ==
  /\ \A c \in Crates \ missed : LevelOf(c, l) /\ BufferOf(c, b)
  /\ \A t \in Threads : LevelSent(t) => \A c \in covered[t] : LevelOf(c, l)

\* The buffer level is the library's, but for one that is about to be sent,
\* which then is.
Agreed ==
  /\ \E l \in 1..MaxLevel : \E b \in 0..MaxBuffer :
       /\ Agree(l, b)
       /\ b = bufferLevel \/ \E t \in Threads : pc[t] = "send" /\ command[t].kind = "buffer"
  /\ \A t \in Threads :
       pc[t] = "send" /\ command[t].kind = "buffer" => command[t].value = bufferLevel

\* tipSetTriggerSource turns the loopback on, whatever the source, so that the
\* master receives its own broadcasts.
Loops == \A s \in Sources : "loopback" \in s

-----------------------------------------------------------------------------
LEMMA CommandsAre ==
  /\ \A l \in 1..MaxLevel : [kind |-> "level", value |-> l] \in Commands
  /\ \A b \in 0..MaxBuffer : [kind |-> "buffer", value |-> b] \in Commands
  /\ \A m \in Commands :
       /\ m.kind = "level" => m.value \in 1..MaxLevel
       /\ m.kind # "level" => m.value \in 0..MaxBuffer
       /\ m.kind \in {"level", "buffer"}
       /\ m.kind = "buffer" => m.value \in 0..MaxBuffer
  BY DEF Commands

LEMMA Bounds ==
  /\ MaxLevel \in Nat \ {0} /\ MaxBuffer \in Nat \ {0} /\ MaxCalls \in Nat \ {0}
  /\ MaxRestarts \in Nat \ {0} /\ MaxReady \in Nat \ {0}
  /\ Master \notin Slaves /\ None \notin Threads
  /\ \A s \in Sources : s \subseteq Bits
  BY LevelsAssumption DEF LevelsAssumption, Bits

LEMMA Sequences ==
  ASSUME NEW S, NEW s \in Seq(S)
  PROVE  /\ \A e \in S : /\ Append(s, e) \in Seq(S) /\ Append(s, e) # <<>>
                         /\ Len(Append(s, e)) = Len(s) + 1
                         /\ s # <<>> => Head(Append(s, e)) = Head(s)
         /\ s # <<>> => /\ Head(s) \in S /\ Tail(s) \in Seq(S)
                        /\ Len(s) \in Nat /\ Len(Tail(s)) = Len(s) - 1
         /\ Len(s) \in Nat
  OBVIOUS

LEMMA OneTrue ==
  ASSUME NEW s \in Seq(BOOLEAN), Len(s) = 1, \E i \in 1..Len(s) : s[i] = TRUE
  PROVE  s # <<>> /\ Head(s) = TRUE
  <1>1. s[1] = TRUE
    OBVIOUS
  <1>2. s # <<>> /\ Head(s) = s[1]
    OBVIOUS
  <1>3. QED
    BY <1>1, <1>2

LEMMA Typed == TypeOK /\ Inv /\ [Next]_vars => TypeOK' /\ HasCommand'
  <1> SUFFICES ASSUME TypeOK, Inv, [Next]_vars PROVE TypeOK' /\ HasCommand'
    OBVIOUS
  <1> USE Bounds DEF Inv, Goto, TypeOK, boards, library, local, history
  <1>1. ASSUME NEW t \in Threads, SetBlockLevel(t) PROVE TypeOK' /\ HasCommand'
    <2>1. BoardTypes'
      BY <1>1, CommandsAre DEF SetBlockLevel, Calls, Broadcast, BoardTypes
    <2>2. LibraryTypes'
      BY <1>1, CommandsAre DEF SetBlockLevel, Calls, Broadcast, LibraryTypes
    <2>3. LocalTypes'
      BY <1>1, CommandsAre DEF SetBlockLevel, Calls, Broadcast, LocalTypes
    <2>4. HistoryTypes'
      BY <1>1, CommandsAre DEF SetBlockLevel, Calls, Broadcast, HistoryTypes
    <2>5. HasCommand'
      BY <1>1, CommandsAre DEF SetBlockLevel, Calls, Broadcast, HasCommand, LocalTypes
    <2>6. QED
      BY <2>1, <2>2, <2>3, <2>4, <2>5
  <1>2. ASSUME NEW t \in Threads, SetBlockBufferLevel(t) PROVE TypeOK' /\ HasCommand'
    <2>1. BoardTypes'
      BY <1>2, CommandsAre DEF SetBlockBufferLevel, Calls, Broadcast, BoardTypes
    <2>2. LibraryTypes'
      BY <1>2, CommandsAre DEF SetBlockBufferLevel, Calls, Broadcast, LibraryTypes
    <2>3. LocalTypes'
      BY <1>2, CommandsAre DEF SetBlockBufferLevel, Calls, Broadcast, LocalTypes
    <2>4. HistoryTypes'
      BY <1>2, CommandsAre DEF SetBlockBufferLevel, Calls, Broadcast, HistoryTypes
    <2>5. HasCommand'
      BY <1>2, CommandsAre DEF SetBlockBufferLevel, Calls, Broadcast, HasCommand, LocalTypes
    <2>6. QED
      BY <2>1, <2>2, <2>3, <2>4, <2>5
  <1>3. ASSUME NEW t \in Threads, ReadSource(t) PROVE TypeOK' /\ HasCommand'
    <2>1. BoardTypes'
      BY <1>3, CommandsAre DEF ReadSource, BoardTypes
    <2>2. LibraryTypes'
      BY <1>3, CommandsAre DEF ReadSource, LibraryTypes, HasCommand, LocalTypes
    <2>3. LocalTypes'
      BY <1>3, CommandsAre DEF ReadSource, LocalTypes, BoardTypes
    <2>4. HistoryTypes'
      BY <1>3, CommandsAre DEF ReadSource, HistoryTypes
    <2>5. HasCommand'
      BY <1>3, CommandsAre DEF ReadSource, HasCommand, LocalTypes
    <2>6. QED
      BY <2>1, <2>2, <2>3, <2>4, <2>5
  <1>4. ASSUME NEW t \in Threads, Send(t) PROVE TypeOK' /\ HasCommand'
    <2>1. BoardTypes'
      BY <1>4, CommandsAre DEF Send, Return, BoardTypes, Closed, Opened, Sender, HasCommand, LocalTypes
    <2>2. LibraryTypes'
      BY <1>4, CommandsAre DEF Send, Return, LibraryTypes
    <2>3. LocalTypes'
      <3>1. CASE command[t].kind = "level"
        BY <1>4, <3>1 DEF Send, LocalTypes
      <3>2. CASE command[t].kind # "level"
        BY <1>4, <3>2 DEF Send, Return, LocalTypes
      <3>3. QED
        BY <3>1, <3>2
    <2>4. HistoryTypes'
      <3>1. CASE command[t].kind = "level"
        <4>1. command[t].value \in 1..MaxLevel
          BY <1>4, <3>1, CommandsAre DEF Send, HasCommand
        <4>2. QED
          BY <1>4, <3>1, <4>1 DEF Send, HistoryTypes
      <3>2. CASE command[t].kind # "level"
        BY <1>4, <3>2 DEF Send, Return, HistoryTypes
      <3>3. QED
        BY <3>1, <3>2
    <2>5. HasCommand'
      BY <1>4, CommandsAre DEF Send, Return, HasCommand, LocalTypes
    <2>6. QED
      BY <2>1, <2>2, <2>3, <2>4, <2>5
  <1>5. ASSUME NEW t \in Threads, ReadBack(t) PROVE TypeOK' /\ HasCommand'
    <2>1. BoardTypes'
      BY <1>5, CommandsAre DEF ReadBack, BoardTypes
    <2>2. LibraryTypes'
      BY <1>5, CommandsAre DEF ReadBack, LibraryTypes, HasCommand, BoardTypes, Crates
    <2>3. LocalTypes'
      BY <1>5, CommandsAre DEF ReadBack, LocalTypes
    <2>4. HistoryTypes'
      BY <1>5, CommandsAre DEF ReadBack, HistoryTypes
    <2>5. HasCommand'
      BY <1>5, CommandsAre DEF ReadBack, HasCommand, LocalTypes
    <2>6. QED
      BY <2>1, <2>2, <2>3, <2>4, <2>5
  <1>6. ASSUME NEW t \in Threads, SyncReset(t) PROVE TypeOK' /\ HasCommand'
    <2>1. BoardTypes'
      BY <1>6, CommandsAre DEF SyncReset, Calls, BoardTypes
    <2>2. LibraryTypes'
      BY <1>6, CommandsAre DEF SyncReset, Calls, LibraryTypes
    <2>3. LocalTypes'
      <3>1. CASE Goto(t, "idle")
        BY <1>6, <3>1 DEF SyncReset, Calls, LocalTypes
      <3>2. CASE Goto(t, "relevel") /\ resetting' = [resetting EXCEPT ![t] = TRUE]
        BY <1>6, <3>2 DEF SyncReset, Calls, LocalTypes
      <3>3. QED
        BY <1>6, <3>1, <3>2 DEF SyncReset
    <2>4. HistoryTypes'
      BY <1>6, CommandsAre DEF SyncReset, Calls, HistoryTypes, Crates
    <2>5. HasCommand'
      BY <1>6, CommandsAre DEF SyncReset, Calls, HasCommand, LocalTypes
    <2>6. QED
      BY <2>1, <2>2, <2>3, <2>4, <2>5
  <1>7. ASSUME NEW t \in Threads, ReLevel(t) PROVE TypeOK' /\ HasCommand'
    <2>1. BoardTypes'
      BY <1>7, CommandsAre DEF ReLevel, Broadcast, BoardTypes
    <2>2. LibraryTypes'
      BY <1>7, CommandsAre DEF ReLevel, Broadcast, LibraryTypes
    <2>3. LocalTypes'
      BY <1>7, CommandsAre DEF ReLevel, Broadcast, LocalTypes, LibraryTypes
    <2>4. HistoryTypes'
      BY <1>7, CommandsAre DEF ReLevel, Broadcast, HistoryTypes
    <2>5. HasCommand'
      BY <1>7, CommandsAre DEF ReLevel, Broadcast, HasCommand, LocalTypes, LibraryTypes
    <2>6. QED
      BY <2>1, <2>2, <2>3, <2>4, <2>5
  <1>8. ASSUME NEW t \in Threads, ReBuffer(t) PROVE TypeOK' /\ HasCommand'
    <2>1. BoardTypes'
      BY <1>8, CommandsAre DEF ReBuffer, Broadcast, BoardTypes
    <2>2. LibraryTypes'
      BY <1>8, CommandsAre DEF ReBuffer, Broadcast, LibraryTypes
    <2>3. LocalTypes'
      BY <1>8, CommandsAre DEF ReBuffer, Broadcast, LocalTypes, LibraryTypes
    <2>4. HistoryTypes'
      BY <1>8, CommandsAre DEF ReBuffer, Broadcast, HistoryTypes
    <2>5. HasCommand'
      BY <1>8, CommandsAre DEF ReBuffer, Broadcast, HasCommand, LocalTypes, LibraryTypes
    <2>6. QED
      BY <2>1, <2>2, <2>3, <2>4, <2>5
  <1>9. ASSUME NEW t \in Threads, SwitchTriggerSource(t) PROVE TypeOK' /\ HasCommand'
    <2>1. BoardTypes'
      <3>1. trigsrc' \subseteq Bits
        BY <1>9 DEF SwitchTriggerSource, Off, Bits
      <3>2. QED
        BY <1>9, <3>1 DEF SwitchTriggerSource, BoardTypes
    <2>2. LibraryTypes'
      BY <1>9, CommandsAre DEF SwitchTriggerSource, LibraryTypes
    <2>3. LocalTypes'
      BY <1>9, CommandsAre DEF SwitchTriggerSource, LocalTypes
    <2>4. HistoryTypes'
      BY <1>9, CommandsAre DEF SwitchTriggerSource, HistoryTypes
    <2>5. HasCommand'
      BY <1>9, CommandsAre DEF SwitchTriggerSource, HasCommand, LocalTypes
    <2>6. QED
      BY <2>1, <2>2, <2>3, <2>4, <2>5
  <1>10. ASSUME NEW t \in Threads, BReady(t) PROVE TypeOK' /\ HasCommand'
    <2>1. BoardTypes'
      BY <1>10, CommandsAre DEF BReady, HasSync, BoardTypes
    <2>2. LibraryTypes'
      BY <1>10, CommandsAre DEF BReady, HasSync, LibraryTypes
    <2>3. LocalTypes'
      BY <1>10, CommandsAre DEF BReady, HasSync, LocalTypes
    <2>4. HistoryTypes'
      BY <1>10, CommandsAre DEF BReady, HasSync, HistoryTypes
    <2>5. HasCommand'
      BY <1>10, CommandsAre DEF BReady, HasSync, HasCommand, LocalTypes
    <2>6. QED
      BY <2>1, <2>2, <2>3, <2>4, <2>5
  <1>11. ASSUME NEW t \in Threads, ReadBlock(t) PROVE TypeOK' /\ HasCommand'
    <2>1. BoardTypes'
      <3>1. ready' \in Seq(BOOLEAN) /\ Len(ready') <= MaxReady
        <4>1. ready \in Seq(BOOLEAN) /\ ready # <<>> /\ Len(ready) <= MaxReady
          BY <1>11 DEF ReadBlock, BoardTypes, FlagTells
        <4>2. Tail(ready) \in Seq(BOOLEAN) /\ Len(Tail(ready)) = Len(ready) - 1
              /\ Len(ready) \in Nat
          BY ONLY <4>1, Sequences
        <4>3. QED
          BY <1>11, <4>1, <4>2 DEF ReadBlock
      <3>2. QED
        BY <1>11, <3>1 DEF ReadBlock, BoardTypes
    <2>2. LibraryTypes'
      BY <1>11, CommandsAre DEF ReadBlock, LibraryTypes
    <2>3. LocalTypes'
      <3>1. Head(ready) \in BOOLEAN
        BY <1>11, Sequences DEF ReadBlock, BoardTypes, FlagTells
      <3>2. QED
        BY <1>11, <3>1 DEF ReadBlock, LocalTypes
    <2>4. HistoryTypes'
      BY <1>11, CommandsAre DEF ReadBlock, HistoryTypes
    <2>5. HasCommand'
      BY <1>11, CommandsAre DEF ReadBlock, HasCommand, LocalTypes
    <2>6. QED
      BY <2>1, <2>2, <2>3, <2>4, <2>5
  <1>12. ASSUME NEW t \in Threads, Flags(t) PROVE TypeOK' /\ HasCommand'
    <2>1. BoardTypes'
      BY <1>12, CommandsAre DEF Flags, BoardTypes
    <2>2. LibraryTypes'
      BY <1>12, CommandsAre DEF Flags, LibraryTypes
    <2>3. LocalTypes'
      BY <1>12, CommandsAre DEF Flags, LocalTypes
    <2>4. HistoryTypes'
      BY <1>12, CommandsAre DEF Flags, HistoryTypes
    <2>5. HasCommand'
      BY <1>12, CommandsAre DEF Flags, HasCommand, LocalTypes
    <2>6. QED
      BY <2>1, <2>2, <2>3, <2>4, <2>5
  <1>13. ASSUME NEW c \in Crates, Receive(c) PROVE TypeOK' /\ HasCommand'
    <2>1. BoardTypes'
      <3>1. Head(link[c]) \in Commands /\ Tail(link[c]) \in Seq(Commands)
        BY <1>13, Sequences DEF Receive, BoardTypes
      <3>2. link' \in [Crates -> Seq(Commands)]
        BY <1>13, <3>1 DEF Receive, BoardTypes
      <3>3. CASE Head(link[c]).kind = "level"
        <4>1. Head(link[c]).value \in 0..MaxLevel
          BY <3>1, <3>3, CommandsAre
        <4>2. QED
          BY <1>13, <3>2, <3>3, <4>1 DEF Receive, BoardTypes
      <3>4. CASE Head(link[c]).kind # "level"
        <4>1. Head(link[c]).value \in 0..MaxBuffer
          BY <3>1, <3>4, CommandsAre
        <4>2. QED
          BY <1>13, <3>2, <3>4, <4>1 DEF Receive, BoardTypes
      <3>5. QED
        BY <3>3, <3>4
    <2>2. LibraryTypes'
      BY <1>13, CommandsAre DEF Receive, LibraryTypes
    <2>3. LocalTypes'
      BY <1>13, CommandsAre DEF Receive, LocalTypes
    <2>4. HistoryTypes'
      BY <1>13, CommandsAre DEF Receive, HistoryTypes
    <2>5. HasCommand'
      BY <1>13, CommandsAre DEF Receive, HasCommand, BoardTypes, Crates
    <2>6. QED
      BY <2>1, <2>2, <2>3, <2>4, <2>5
  <1>14. ASSUME NEW c \in Slaves, Restart(c) PROVE TypeOK' /\ HasCommand'
    <2>1. BoardTypes'
      BY <1>14, CommandsAre DEF Restart, BoardTypes, Crates
    <2>2. LibraryTypes'
      BY <1>14, CommandsAre DEF Restart, LibraryTypes
    <2>3. LocalTypes'
      BY <1>14, CommandsAre DEF Restart, LocalTypes
    <2>4. HistoryTypes'
      BY <1>14, CommandsAre DEF Restart, HistoryTypes, Crates
    <2>5. HasCommand'
      BY <1>14, CommandsAre DEF Restart, HasCommand, BoardTypes, Crates
    <2>6. QED
      BY <2>1, <2>2, <2>3, <2>4, <2>5
  <1>15. ASSUME Trigger PROVE TypeOK' /\ HasCommand'
    <2>1. BoardTypes'
      <3>1. CASE UNCHANGED ready
        BY <1>15, <3>1 DEF Trigger, BoardTypes
      <3>2. ASSUME NEW sync \in BOOLEAN, ready' = Append(ready, sync), partial' = FALSE
            PROVE  BoardTypes'
        <4>1. ready' \in Seq(BOOLEAN) /\ Len(ready') <= MaxReady
          BY <1>15, <3>2, Sequences DEF Trigger, BoardTypes
        <4>2. QED
          BY <1>15, <3>2, <4>1 DEF Trigger, BoardTypes
      <3>3. QED
        BY <1>15, <3>1, <3>2 DEF Trigger
    <2>2. LibraryTypes'
      BY <1>15, CommandsAre DEF Trigger, LibraryTypes
    <2>3. LocalTypes'
      BY <1>15, CommandsAre DEF Trigger, LocalTypes
    <2>4. HistoryTypes'
      BY <1>15, CommandsAre DEF Trigger, HistoryTypes
    <2>5. HasCommand'
      BY <1>15, CommandsAre DEF Trigger, HasCommand, LocalTypes
    <2>6. QED
      BY <2>1, <2>2, <2>3, <2>4, <2>5
  <1>16. CASE UNCHANGED vars
    BY <1>16 DEF vars, BoardTypes, LibraryTypes, LocalTypes, HistoryTypes, HasCommand
  <1>17. QED
    BY <1>1, <1>2, <1>3, <1>4, <1>5, <1>6, <1>7, <1>8, <1>9, <1>10, <1>11, <1>12, <1>13, <1>14, <1>15, <1>16 DEF Next, Thread

LEMMA SenderKept == TypeOK /\ Sender /\ [Next]_vars => Sender'
  <1> SUFFICES ASSUME TypeOK, Sender, [Next]_vars PROVE Sender'
    OBVIOUS
  <1>0. /\ None \notin Threads /\ DOMAIN pc = Threads /\ DOMAIN saved = Threads
        /\ trigsrc \subseteq Bits /\ \A t \in Threads : saved[t] \subseteq Bits
    BY Bounds DEF TypeOK, BoardTypes, LocalTypes
  <1> USE <1>0 DEF Goto, Sender, boards, library, local, history
  <1>1. ASSUME NEW t \in Threads, SetBlockLevel(t) PROVE Sender'
    BY <1>1 DEF SetBlockLevel, Calls, Broadcast
  <1>2. ASSUME NEW t \in Threads, SetBlockBufferLevel(t) PROVE Sender'
    BY <1>2 DEF SetBlockBufferLevel, Calls, Broadcast
  <1>3. ASSUME NEW t \in Threads, ReadSource(t) PROVE Sender'
    BY <1>3 DEF ReadSource
  <1>4. ASSUME NEW t \in Threads, Send(t) PROVE Sender'
    BY <1>4 DEF Send, Return, Closed
  <1>5. ASSUME NEW t \in Threads, ReadBack(t) PROVE Sender'
    BY <1>5 DEF ReadBack
  <1>6. ASSUME NEW t \in Threads, SyncReset(t) PROVE Sender'
    BY <1>6 DEF SyncReset, Calls
  <1>7. ASSUME NEW t \in Threads, ReLevel(t) PROVE Sender'
    BY <1>7 DEF ReLevel, Broadcast
  <1>8. ASSUME NEW t \in Threads, ReBuffer(t) PROVE Sender'
    BY <1>8 DEF ReBuffer, Broadcast
  <1>9. ASSUME NEW t \in Threads, SwitchTriggerSource(t) PROVE Sender'
    BY <1>9 DEF SwitchTriggerSource
  <1>10. ASSUME NEW t \in Threads, BReady(t) PROVE Sender'
    BY <1>10 DEF BReady, HasSync
  <1>11. ASSUME NEW t \in Threads, ReadBlock(t) PROVE Sender'
    BY <1>11 DEF ReadBlock
  <1>12. ASSUME NEW t \in Threads, Flags(t) PROVE Sender'
    BY <1>12 DEF Flags
  <1>13. ASSUME NEW c \in Crates, Receive(c) PROVE Sender'
    BY <1>13 DEF Receive
  <1>14. ASSUME NEW c \in Slaves, Restart(c) PROVE Sender'
    BY <1>14 DEF Restart
  <1>15. CASE Trigger
    BY <1>15 DEF Trigger
  <1>16. CASE UNCHANGED vars
    BY <1>16 DEF vars
  <1>17. QED
    BY <1>1, <1>2, <1>3, <1>4, <1>5, <1>6, <1>7, <1>8, <1>9, <1>10, <1>11, <1>12, <1>13, <1>14, <1>15, <1>16 DEF Next, Thread

LEMMA FlagKept == TypeOK /\ FlagTells /\ [Next]_vars => FlagTells'
  <1> SUFFICES ASSUME TypeOK, FlagTells, [Next]_vars PROVE FlagTells'
    OBVIOUS
  <1>0. /\ DOMAIN pc = Threads /\ taken \in [Threads -> BOOLEAN]
        /\ ready \in Seq(BOOLEAN) /\ flag \in BOOLEAN
        /\ \A s, t \in Threads : "readout" \in Roles[s] /\ "readout" \in Roles[t] => s = t
    BY LevelsAssumption DEF LevelsAssumption, TypeOK, BoardTypes, LocalTypes, LibraryTypes
  <1> USE <1>0 DEF Goto, FlagTells, boards, library, local, history
  <1>1. ASSUME NEW t \in Threads, SetBlockLevel(t) PROVE FlagTells'
    BY <1>1 DEF SetBlockLevel, Calls, Broadcast
  <1>2. ASSUME NEW t \in Threads, SetBlockBufferLevel(t) PROVE FlagTells'
    BY <1>2 DEF SetBlockBufferLevel, Calls, Broadcast
  <1>3. ASSUME NEW t \in Threads, ReadSource(t) PROVE FlagTells'
    BY <1>3 DEF ReadSource
  <1>4. ASSUME NEW t \in Threads, Send(t) PROVE FlagTells'
    <2>1. pc' = [pc EXCEPT ![t] = "readback"] \/ pc' = [pc EXCEPT ![t] = "idle"]
      BY <1>4 DEF Send, Return
    <2>2. QED
      BY <1>4, <2>1 DEF Send
  <1>5. ASSUME NEW t \in Threads, ReadBack(t) PROVE FlagTells'
    BY <1>5 DEF ReadBack
  <1>6. ASSUME NEW t \in Threads, SyncReset(t) PROVE FlagTells'
    BY <1>6 DEF SyncReset, Calls
  <1>7. ASSUME NEW t \in Threads, ReLevel(t) PROVE FlagTells'
    BY <1>7 DEF ReLevel, Broadcast
  <1>8. ASSUME NEW t \in Threads, ReBuffer(t) PROVE FlagTells'
    BY <1>8 DEF ReBuffer, Broadcast
  <1>9. ASSUME NEW t \in Threads, SwitchTriggerSource(t) PROVE FlagTells'
    BY <1>9 DEF SwitchTriggerSource
  <1>10. ASSUME NEW t \in Threads, BReady(t) PROVE FlagTells'
    <2>1. flag' => ready # <<>> /\ Head(ready)
      <3>1. flag' => Len(ready) = 1 /\ HasSync
        BY <1>10 DEF BReady
      <3>2. Len(ready) = 1 /\ HasSync => ready # <<>> /\ Head(ready) = TRUE
        <4>1. \A i \in 1..Len(ready) : ready[i] = TRUE \/ ready[i] = FALSE
          BY ONLY <1>0
        <4>2. QED
          BY ONLY <1>0, <4>1, OneTrue DEF HasSync
      <3>3. QED
        BY <3>1, <3>2
    <2>2. QED
      BY <1>10, <2>1 DEF BReady
  <1>11. ASSUME NEW t \in Threads, ReadBlock(t) PROVE FlagTells'
    BY <1>11 DEF ReadBlock
  <1>12. ASSUME NEW t \in Threads, Flags(t) PROVE FlagTells'
    BY <1>12 DEF Flags
  <1>13. ASSUME NEW c \in Crates, Receive(c) PROVE FlagTells'
    BY <1>13 DEF Receive
  <1>14. ASSUME NEW c \in Slaves, Restart(c) PROVE FlagTells'
    BY <1>14 DEF Restart
  <1>15. CASE Trigger
    <2>1. ready # <<>> => ready' # <<>> /\ Head(ready') = Head(ready)
      <3>1. ready' = ready \/ \E sync \in BOOLEAN : ready' = Append(ready, sync)
        BY <1>15 DEF Trigger
      <3>2. \A sync \in BOOLEAN :
              ready # <<>> => Append(ready, sync) # <<>> /\ Head(Append(ready, sync)) = Head(ready)
        BY ONLY <1>0, Sequences
      <3>3. QED
        BY ONLY <3>1, <3>2
    <2>2. QED
      BY <1>15, <2>1 DEF Trigger
  <1>16. CASE UNCHANGED vars
    BY <1>16 DEF vars
  <1>17. QED
    BY <1>1, <1>2, <1>3, <1>4, <1>5, <1>6, <1>7, <1>8, <1>9, <1>10, <1>11, <1>12, <1>13, <1>14, <1>15, <1>16 DEF Next, Thread

LEMMA Initial == Init => TypeOK /\ Inv
  <1> SUFFICES ASSUME Init PROVE TypeOK /\ Inv
    OBVIOUS
  <1> USE Bounds DEF Init
  <1>0. 0 \in 0..MaxLevel /\ 1 \in 0..MaxLevel /\ 0 \in 0..MaxBuffer /\ 1 \in 0..MaxBuffer
        /\ 1 \in 1..MaxLevel /\ 0 \in 0..MaxCalls /\ 0 \in 0..MaxRestarts /\ 0 <= MaxReady
    OBVIOUS
  <1>1. BoardTypes
    <2>1. <<>> \in Seq(Commands) /\ <<>> \in Seq(BOOLEAN) /\ Len(<<>>) <= MaxReady
      OBVIOUS
    <2>2. Off \subseteq Bits
      BY DEF Off, Bits
    <2>3. QED
      BY <1>0, <2>1, <2>2 DEF BoardTypes
  <1>2. LibraryTypes
    BY <1>0 DEF LibraryTypes
  <1>3. LocalTypes
    BY <1>0 DEF LocalTypes
  <1>4. HistoryTypes
    BY <1>0 DEF HistoryTypes, Crates
  <1>5. HasCommand
    BY DEF HasCommand, Crates
  <1>6. Sender
    BY DEF Sender
  <1>7. FlagTells
    BY DEF FlagTells
  <1>8. QED
    BY <1>1, <1>2, <1>3, <1>4, <1>5, <1>6, <1>7 DEF TypeOK, Inv

\* Every variable keeps its type; no broadcast has the block level 0.
THEOREM LevelsCorrect == Spec => [](TypeOK /\ Inv)
  <1>1. TypeOK /\ Inv /\ [Next]_vars => (TypeOK /\ Inv)'
    BY Typed, SenderKept, FlagKept DEF Inv
  <1>2. QED
    BY <1>1, Initial, PTL DEF Spec

\* A broadcast puts back the trigger source that the program last asked for:
\* nothing that another thread does is undone.
THEOREM SourceKept == Spec => []SourceSticks
  <1>1. Inv => SourceSticks
    BY DEF Inv, Sender, SourceSticks
  <1>2. QED
    BY <1>1, LevelsCorrect, PTL

\* The sync event flag that the user routine sees is that of the block it has
\* read.
THEOREM FlagOfBlock == Spec => []FlagIsSyncBlock
  <1>1. Inv => FlagIsSyncBlock
    BY DEF Inv, FlagTells, FlagIsSyncBlock
  <1>2. QED
    BY <1>1, LevelsCorrect, PTL

-----------------------------------------------------------------------------
(* The levels on the links *)

LEMMA EndsAppend ==
  ASSUME NEW s \in Seq(Commands), NEW m \in Commands, NEW k, NEW r, NEW v
  PROVE  /\ m.kind = k => Ends(Append(s, m), k, r, m.value)
         /\ m.kind # k /\ Ends(s, k, r, v) => Ends(Append(s, m), k, r, v)
  <1> DEFINE a == Append(s, m)
             n == Len(s)
  <1>1. /\ n \in Nat /\ Len(a) = n + 1 /\ a[n + 1] = m
        /\ \A i \in 1..n : a[i] = s[i]
        /\ \A i \in 1..n + 1 : i # n + 1 => i \in 1..n
    OBVIOUS
  <1> HIDE DEF a, n
  <1>2. m.kind = k => Ends(a, k, r, m.value)
    <2>1. n + 1 \in 1..Len(a) /\ \A j \in 1..Len(a) : ~(j > n + 1)
      BY <1>1
    <2>2. QED
      BY <1>1, <2>1 DEF Ends
  <1>3. ASSUME m.kind # k, NEW i \in 1..n, s[i].kind = k, s[i].value = v,
               \A j \in 1..n : j > i => s[j].kind # k
        PROVE  Ends(a, k, r, v)
    <2>1. i \in 1..Len(a) /\ a[i].kind = k /\ a[i].value = v
      BY <1>1, <1>3
    <2>2. \A j \in 1..Len(a) : j > i => a[j].kind # k
      BY <1>1, <1>3
    <2>3. QED
      BY <2>1, <2>2 DEF Ends
  <1>4. ASSUME m.kind # k, \A i \in 1..n : s[i].kind # k, r = v
        PROVE  Ends(a, k, r, v)
    <2>1. \A i \in 1..Len(a) : a[i].kind # k
      BY <1>1, <1>4
    <2>2. QED
      BY <1>4, <2>1 DEF Ends
  <1>5. Ends(s, k, r, v) =>
          \/ \E i \in 1..n : s[i].kind = k /\ s[i].value = v /\ \A j \in 1..n : j > i => s[j].kind # k
          \/ (\A i \in 1..n : s[i].kind # k) /\ r = v
    BY DEF Ends, n
  <1>6. QED
    BY <1>2, <1>3, <1>4, <1>5 DEF a

LEMMA EndsTail ==
  ASSUME NEW s \in Seq(Commands), s # <<>>, NEW k, NEW r, NEW v, Ends(s, k, r, v)
  PROVE  Ends(Tail(s), k, IF Head(s).kind = k THEN Head(s).value ELSE r, v)
  <1>1. PICK a : a = Tail(s)
    OBVIOUS
  <1>2. PICK n \in Nat : n = Len(s)
    OBVIOUS
  <1>3. /\ n >= 1 /\ Len(a) = n - 1 /\ Head(s) = s[1]
        /\ \A i \in 1..n - 1 : a[i] = s[i + 1]
    BY <1>1, <1>2
  <1>4. CASE \E i \in 1..n : s[i].kind = k /\ s[i].value = v /\ \A j \in 1..n : j > i => s[j].kind # k
    <2>1. PICK i \in 1..n : s[i].kind = k /\ s[i].value = v /\ \A j \in 1..n : j > i => s[j].kind # k
      BY <1>4
    <2>2. CASE i = 1
      <3>1. \A j \in 1..Len(a) : a[j].kind # k
        <4> TAKE j \in 1..Len(a)
        <4>1. a[j] = s[j + 1] /\ j + 1 \in 1..n /\ j + 1 > i
          BY <1>3, <2>2
        <4>2. QED
          BY <2>1, <4>1
      <3>2. QED
        BY <1>1, <1>3, <2>1, <2>2, <3>1 DEF Ends
    <2>3. CASE i # 1
      <3>1. i - 1 \in 1..Len(a) /\ a[i - 1] = s[i]
        BY <1>3, <2>3
      <3>2. \A j \in 1..Len(a) : j > i - 1 => a[j].kind # k
        <4> TAKE j \in 1..Len(a)
        <4>1. a[j] = s[j + 1] /\ j + 1 \in 1..n /\ (j > i - 1 => j + 1 > i)
          BY <1>3
        <4>2. QED
          BY <2>1, <4>1
      <3>3. QED
        BY <1>1, <2>1, <3>1, <3>2 DEF Ends
    <2>4. QED
      BY <2>2, <2>3
  <1>5. CASE (\A i \in 1..n : s[i].kind # k) /\ r = v
    <2>1. \A j \in 1..Len(a) : a[j].kind # k
      <3> TAKE j \in 1..Len(a)
      <3>1. a[j] = s[j + 1] /\ j + 1 \in 1..n
        BY <1>3
      <3>2. QED
        BY <1>5, <3>1
    <2>2. Head(s).kind # k
      BY <1>3, <1>5
    <2>3. QED
      BY <1>1, <1>5, <2>1, <2>2 DEF Ends
  <1>6. QED
    BY <1>2, <1>4, <1>5 DEF Ends

LEMMA EndsEmpty ==
  ASSUME NEW k, NEW r, NEW v
  PROVE  Ends(<<>>, k, r, v) <=> r = v
  BY DEF Ends

LEMMA ResetsKept == TypeOK /\ Resets /\ [Next]_vars => Resets'
  <1> SUFFICES ASSUME TypeOK, Resets, [Next]_vars PROVE Resets'
    OBVIOUS
  <1>0. /\ DOMAIN pc = Threads /\ DOMAIN resetting = Threads /\ DOMAIN covered = Threads
        /\ \A t \in Threads : resetting[t] \in BOOLEAN
    BY DEF TypeOK, LocalTypes, HistoryTypes
  <1> USE <1>0 DEF Goto, Resets, boards, library, local, history
  <1>1. ASSUME NEW t \in Threads, Thread(t) PROVE Resets'
    <2>1. CASE SetBlockLevel(t) \/ SetBlockBufferLevel(t)
      BY <2>1 DEF SetBlockLevel, SetBlockBufferLevel, Calls, Broadcast
    <2>2. CASE ReadSource(t)
      BY <2>2 DEF ReadSource
    <2>3. CASE Send(t)
      <3>1. CASE command[t].kind = "level"
        BY <2>3, <3>1 DEF Send
      <3>2. CASE command[t].kind # "level"
        BY <2>3, <3>2 DEF Send, Return
      <3>3. QED
        BY <3>1, <3>2
    <2>4. CASE ReadBack(t)
      BY <2>4 DEF ReadBack
    <2>5. CASE SyncReset(t)
      BY <2>5 DEF SyncReset, Calls
    <2>6. CASE ReLevel(t) \/ ReBuffer(t)
      BY <2>6 DEF ReLevel, ReBuffer, Broadcast
    <2>7. CASE SwitchTriggerSource(t) \/ BReady(t) \/ ReadBlock(t) \/ Flags(t)
      BY <2>7 DEF SwitchTriggerSource, BReady, ReadBlock, Flags
    <2>8. QED
      BY <1>1, <2>1, <2>2, <2>3, <2>4, <2>5, <2>6, <2>7 DEF Thread
  <1>2. CASE \E c \in Crates : Receive(c)
    BY <1>2 DEF Receive
  <1>3. CASE \E c \in Slaves : Restart(c)
    BY <1>3 DEF Restart
  <1>4. CASE Trigger \/ UNCHANGED vars
    BY <1>4 DEF Trigger, vars
  <1>5. QED
    BY <1>1, <1>2, <1>3, <1>4 DEF Next

\* What is sent reaches every crate, the master too.
LEMMA SendReaches ==
  ASSUME Loops, TypeOK, Inv, NEW t \in Threads, Send(t)
  PROVE  /\ pc[t] = "send" /\ command[t] \in Commands
         /\ link' = [c \in Crates |-> Append(link[c], command[t])]
         /\ UNCHANGED <<received, buffer>>
  <1>1. pc[t] = "send" /\ command[t] \in Commands /\ saved[t] = trigsrc
    BY DEF Send, Inv, HasCommand, Sender
  <1>2. "loopback" \in trigsrc
    BY DEF Loops, Inv, Sender, TypeOK, HistoryTypes, Off
  <1>3. Reached(t) = Crates
    BY <1>1, <1>2 DEF Reached, Opened
  <1>4. QED
    BY <1>1, <1>3 DEF Send

LEMMA SendAgrees ==
  ASSUME Loops, TypeOK, Inv, Resets, NEW t \in Threads, Send(t),
         NEW l, NEW b, Agree(l, b)
  PROVE  \E m \in Commands :
           /\ m = command[t]
           /\ m.kind = "level" => Agree(m.value, b)'
           /\ m.kind = "buffer" => Agree(l, m.value)'
  <1>1. /\ pc[t] = "send" /\ command[t] \in Commands
        /\ link' = [c \in Crates |-> Append(link[c], command[t])]
        /\ UNCHANGED <<received, buffer>>
    BY SendReaches
  <1>2. PICK m \in Commands : m = command[t]
    BY <1>1
  <1>3. \A c \in Crates : link[c] \in Seq(Commands) /\ link'[c] = Append(link[c], m)
    BY <1>1, <1>2 DEF TypeOK, BoardTypes
  <1>4. /\ missed \subseteq Crates
        /\ \A u \in Threads : covered[u] \subseteq Crates
        /\ DOMAIN pc = Threads /\ DOMAIN resetting = Threads /\ DOMAIN covered = Threads
        /\ DOMAIN command = Threads
    BY DEF TypeOK, HistoryTypes, LocalTypes, Crates
  <1>5. ASSUME m.kind = "level" PROVE Agree(m.value, b)'
    <2>1. \A c \in Crates : LevelOf(c, m.value)'
      BY <1>1, <1>3, <1>5, EndsAppend DEF LevelOf
    <2>2. \A c \in Crates : BufferOf(c, b) => BufferOf(c, b)'
      BY <1>1, <1>3, <1>5, EndsAppend DEF BufferOf
    <2>3. missed' = missed /\ covered' = covered
      BY <1>2, <1>5 DEF Send
    <2>4. QED
      BY <1>4, <2>1, <2>2, <2>3 DEF Agree
  <1>6. ASSUME m.kind = "buffer" PROVE Agree(l, m.value)'
    <2>1. \A c \in Crates : BufferOf(c, m.value)'
      BY <1>1, <1>3, <1>6, EndsAppend DEF BufferOf
    <2>2. \A c \in Crates : LevelOf(c, l) => LevelOf(c, l)'
      BY <1>1, <1>3, <1>6, EndsAppend DEF LevelOf
    <2>3. /\ pc' = [pc EXCEPT ![t] = "idle"] /\ resetting' = [resetting EXCEPT ![t] = FALSE]
          /\ missed' = missed \ covered[t] /\ covered' = [covered EXCEPT ![t] = {}]
          /\ command' = [command EXCEPT ![t] = NoCommand]
      BY <1>2, <1>6 DEF Send, Return, Goto
    <2>4. \A c \in Crates \ missed' : LevelOf(c, l)
      <3>1. covered[t] # {} => LevelSent(t)
        BY <1>1, <1>2, <1>6 DEF Resets, LevelSent
      <3>2. QED
        BY <2>3, <3>1 DEF Agree
    <2>5. ASSUME NEW u \in Threads, LevelSent(u)', NEW c \in covered'[u]
          PROVE  LevelOf(c, l)
      <3>1. u # t
        BY <1>4, <2>3, <2>5 DEF LevelSent
      <3>2. LevelSent(u) /\ c \in covered[u]
        BY <1>4, <2>3, <2>5, <3>1 DEF LevelSent
      <3>3. QED
        BY <3>2 DEF Agree
    <2>6. \A u \in Threads : covered'[u] \subseteq Crates
      BY <1>4, <2>3
    <2>7. QED
      BY <2>1, <2>2, <2>4, <2>5, <2>6 DEF Agree
  <1>7. m.kind = "level" => Agree(m.value, b)'
    BY <1>5
  <1>8. m.kind = "buffer" => Agree(l, m.value)'
    BY <1>6
  <1>9. QED
    BY <1>2, <1>7, <1>8

\* A step that sends nothing.
LEMMA SilentAgrees ==
  ASSUME UNCHANGED <<link, received, buffer, missed>>,
         \A t \in Threads : LevelSent(t)' => LevelSent(t) /\ covered'[t] \subseteq covered[t],
         NEW l, NEW b, Agree(l, b)
  PROVE  Agree(l, b)'
  <1>1. \A c \in Crates : LevelOf(c, l)' = LevelOf(c, l) /\ BufferOf(c, b)' = BufferOf(c, b)
    BY DEF LevelOf, BufferOf
  <1>2. \A t \in Threads : LevelSent(t)' => \A c \in covered'[t] : LevelOf(c, l)'
    BY DEF Agree, LevelOf
  <1>3. QED
    BY <1>1, <1>2 DEF Agree

LEMMA ElseAgrees ==
  ASSUME TypeOK, Inv, Resets, [Next]_vars, \A t \in Threads : ~Send(t),
         NEW l, NEW b, Agree(l, b)
  PROVE  Agree(l, b)'
  <1>0. /\ DOMAIN pc = Threads /\ DOMAIN resetting = Threads /\ DOMAIN covered = Threads
        /\ DOMAIN command = Threads
        /\ missed \subseteq Crates /\ \A u \in Threads : covered[u] \subseteq Crates
        /\ DOMAIN link = Crates /\ DOMAIN received = Crates /\ DOMAIN buffer = Crates
        /\ \A c \in Crates : link[c] \in Seq(Commands)
    BY DEF TypeOK, LocalTypes, HistoryTypes, BoardTypes, Crates
  <1> USE DEF Goto, boards, library, local, history
  <1>1. ASSUME NEW t \in Threads, Thread(t) PROVE Agree(l, b)'
    <2>1. UNCHANGED <<link, received, buffer, missed>>
      BY <1>1 DEF Thread, SetBlockLevel, SetBlockBufferLevel, ReadSource, ReadBack, SyncReset,
         ReLevel, ReBuffer, SwitchTriggerSource, BReady, ReadBlock, Flags
    <2>2. \A u \in Threads : LevelSent(u)' => LevelSent(u) /\ covered'[u] \subseteq covered[u]
      <3>1. CASE SetBlockLevel(t) \/ SetBlockBufferLevel(t)
        BY <1>0, <3>1 DEF SetBlockLevel, SetBlockBufferLevel, Calls, Broadcast, LevelSent, Resets
      <3>2. CASE ReadSource(t) \/ ReadBack(t)
        BY <1>0, <3>2 DEF ReadSource, ReadBack, LevelSent
      <3>3. CASE SyncReset(t)
        BY <1>0, <3>3 DEF SyncReset, Calls, LevelSent
      <3>4. CASE ReLevel(t) \/ ReBuffer(t)
        BY <1>0, <3>4 DEF ReLevel, ReBuffer, Broadcast, LevelSent
      <3>5. CASE SwitchTriggerSource(t) \/ BReady(t) \/ ReadBlock(t) \/ Flags(t)
        BY <1>0, <3>5 DEF SwitchTriggerSource, BReady, ReadBlock, Flags, LevelSent
      <3>6. QED
        BY <1>1, <3>1, <3>2, <3>3, <3>4, <3>5 DEF Thread
    <2>3. QED
      BY <2>1, <2>2, SilentAgrees
  <1>2. ASSUME NEW c \in Crates, Receive(c) PROVE Agree(l, b)'
    <2>1. PICK s \in Seq(Commands) : s = link[c] /\ s # <<>>
      BY <1>0, <1>2 DEF Receive
    <2>2. PICK m \in Commands : m = Head(s)
      BY <2>1
    <2>3. /\ link' = [link EXCEPT ![c] = Tail(s)]
          /\ m.kind = "level" => received' = [received EXCEPT ![c] = m.value] /\ buffer' = buffer
          /\ m.kind = "buffer" => buffer' = [buffer EXCEPT ![c] = m.value] /\ received' = received
          /\ m.kind \in {"level", "buffer"}
          /\ UNCHANGED <<missed, covered, pc, resetting, command>>
      BY <1>2, <2>1, <2>2, CommandsAre DEF Receive
    <2>4. LevelOf(c, l) => LevelOf(c, l)'
      <3>1. LevelOf(c, l) => Ends(Tail(s), "level", IF m.kind = "level" THEN m.value ELSE received[c], l)
        BY <2>1, <2>2, EndsTail DEF LevelOf
      <3>2. link'[c] = Tail(s) /\ received'[c] = IF m.kind = "level" THEN m.value ELSE received[c]
        BY <1>0, <2>3
      <3>3. QED
        BY <3>1, <3>2 DEF LevelOf
    <2>5. BufferOf(c, b) => BufferOf(c, b)'
      <3>1. BufferOf(c, b) => Ends(Tail(s), "buffer", IF m.kind = "buffer" THEN m.value ELSE buffer[c], b)
        BY <2>1, <2>2, EndsTail DEF BufferOf
      <3>2. link'[c] = Tail(s) /\ buffer'[c] = IF m.kind = "buffer" THEN m.value ELSE buffer[c]
        BY <1>0, <2>3
      <3>3. QED
        BY <3>1, <3>2 DEF BufferOf
    <2>6. \A d \in Crates : d # c => link'[d] = link[d] /\ received'[d] = received[d] /\ buffer'[d] = buffer[d]
      BY <1>0, <2>3
    <2>7. \A d \in Crates : (LevelOf(d, l) => LevelOf(d, l)') /\ (BufferOf(d, b) => BufferOf(d, b)')
      BY <2>4, <2>5, <2>6 DEF LevelOf, BufferOf
    <2>8. \A u \in Threads : LevelSent(u)' = LevelSent(u)
      BY <2>3 DEF LevelSent
    <2>9. QED
      BY <1>0, <2>3, <2>7, <2>8 DEF Agree
  <1>3. ASSUME NEW c \in Slaves, Restart(c) PROVE Agree(l, b)'
    <2>1. /\ \A d \in Crates : d # c => link'[d] = link[d] /\ received'[d] = received[d] /\ buffer'[d] = buffer[d]
          /\ missed' = missed \union {c} /\ \A u \in Threads : covered'[u] = covered[u] \ {c}
          /\ UNCHANGED <<pc, resetting, command>>
      BY <1>0, <1>3 DEF Restart
    <2>2. \A d \in Crates : d # c => LevelOf(d, l)' = LevelOf(d, l) /\ BufferOf(d, b)' = BufferOf(d, b)
      BY <2>1 DEF LevelOf, BufferOf
    <2>3. \A u \in Threads : LevelSent(u)' = LevelSent(u)
      BY <2>1 DEF LevelSent
    <2>4. QED
      BY <1>0, <2>1, <2>2, <2>3 DEF Agree
  <1>4. CASE Trigger
    BY <1>4, SilentAgrees DEF Trigger, LevelSent
  <1>5. CASE UNCHANGED vars
    BY <1>5, SilentAgrees DEF vars, LevelSent
  <1>6. QED
    BY <1>1, <1>2, <1>3, <1>4, <1>5 DEF Next

LEMMA AgreeStart == Init => Resets /\ Agreed
  <1> SUFFICES ASSUME Init PROVE Resets /\ Agreed
    OBVIOUS
  <1> USE Bounds DEF Init
  <1>1. Resets
    BY DEF Resets
  <1>2. Crates \ missed = {Master}
    BY DEF Crates
  <1>3. link[Master] = <<>> /\ received[Master] = 1 /\ buffer[Master] = 1
    BY DEF Crates
  <1>4. LevelOf(Master, 1) /\ BufferOf(Master, 1)
    BY <1>3, EndsEmpty DEF LevelOf, BufferOf
  <1>5. Agree(1, 1)
    BY <1>2, <1>4 DEF Agree, LevelSent
  <1>6. QED
    BY <1>1, <1>5 DEF Agreed

LEMMA AgreedKept == Loops /\ TypeOK /\ Inv /\ Resets /\ Agreed /\ [Next]_vars => Agreed'
  <1> SUFFICES ASSUME Loops, TypeOK, Inv, Resets, Agreed, [Next]_vars PROVE Agreed'
    OBVIOUS
  <1>1. PICK l \in 1..MaxLevel, b \in 0..MaxBuffer :
          /\ Agree(l, b)
          /\ b = bufferLevel \/ \E t \in Threads : pc[t] = "send" /\ command[t].kind = "buffer"
    BY DEF Agreed
  <1>2. /\ DOMAIN pc = Threads /\ DOMAIN command = Threads /\ None \notin Threads
        /\ \A s, t \in Threads : pc[s] = "send" /\ pc[t] = "send" => s = t
        /\ \A t \in Threads : pc[t] = "send" => lock = t
    BY Bounds DEF TypeOK, LocalTypes, Inv, Sender
  <1> USE DEF Goto, boards, library, local, history
  <1>3. ASSUME NEW t \in Threads, Send(t) PROVE Agreed'
    <2>1. PICK m \in Commands : /\ m = command[t]
                                /\ m.kind = "level" => Agree(m.value, b)'
                                /\ m.kind = "buffer" => Agree(l, m.value)'
      BY <1>1, <1>3, SendAgrees
    <2>2. pc[t] = "send" /\ bufferLevel' = bufferLevel
      BY <1>3 DEF Send
    <2>3. \A u \in Threads : pc'[u] # "send"
      BY <1>2, <1>3, <2>2 DEF Send, Return
    <2>4. CASE m.kind = "level"
      <3>1. b = bufferLevel /\ m.value \in 1..MaxLevel
        BY <1>1, <1>2, <2>1, <2>2, <2>4, CommandsAre
      <3>2. QED
        BY <2>1, <2>2, <2>3, <2>4, <3>1 DEF Agreed
    <2>5. CASE m.kind = "buffer"
      <3>1. m.value = bufferLevel /\ m.value \in 0..MaxBuffer
        BY <2>1, <2>2, <2>5, CommandsAre DEF Agreed
      <3>2. QED
        BY <2>1, <2>2, <2>3, <2>5, <3>1 DEF Agreed
    <2>6. QED
      BY <2>4, <2>5, CommandsAre
  <1>4. ASSUME \A t \in Threads : ~Send(t) PROVE Agreed'
    <2>1. Agree(l, b)'
      BY <1>1, <1>4, ElseAgrees
    <2>2. ASSUME NEW t \in Threads, ReadSource(t) PROVE Agreed'
      <3>1. /\ lock = None /\ pc' = [pc EXCEPT ![t] = "send"] /\ command' = command
            /\ bufferLevel' = IF command[t].kind = "buffer" THEN command[t].value ELSE bufferLevel
        BY <2>2 DEF ReadSource
      <3>2. b = bufferLevel /\ \A u \in Threads : pc[u] # "send"
        BY <1>1, <1>2, <3>1
      <3>3. \A u \in Threads : pc'[u] = "send" <=> u = t
        BY <1>2, <3>1, <3>2
      <3>4. \/ command[t].kind = "buffer" /\ bufferLevel' = command[t].value
            \/ command[t].kind # "buffer" /\ b = bufferLevel'
        BY <3>1, <3>2
      <3>5. QED
        BY <2>1, <3>1, <3>3, <3>4 DEF Agreed
    <2>3. ASSUME \A t \in Threads : ~ReadSource(t) PROVE Agreed'
      <3>1. /\ bufferLevel' = bufferLevel
            /\ \A u \in Threads : /\ pc'[u] = "send" <=> pc[u] = "send"
                                  /\ pc[u] = "send" => command'[u] = command[u]
        <4>1. ASSUME NEW t \in Threads, Thread(t)
              PROVE  /\ bufferLevel' = bufferLevel
                     /\ \A u \in Threads : /\ pc'[u] = "send" <=> pc[u] = "send"
                                           /\ pc[u] = "send" => command'[u] = command[u]
          BY <1>2, <1>4, <2>3, <4>1 DEF Thread, SetBlockLevel, SetBlockBufferLevel, Calls,
             Broadcast, ReadBack, SyncReset, ReLevel, ReBuffer, SwitchTriggerSource, BReady,
             ReadBlock, Flags
        <4>2. ASSUME \A t \in Threads : ~Thread(t)
              PROVE  UNCHANGED <<pc, command, bufferLevel>>
          BY <4>2 DEF Next, Receive, Restart, Trigger, vars
        <4>3. QED
          BY <4>1, <4>2
      <3>2. b = bufferLevel' \/ \E u \in Threads : pc'[u] = "send" /\ command'[u].kind = "buffer"
        <4>1. ASSUME NEW u \in Threads, pc[u] = "send", command[u].kind = "buffer"
              PROVE  pc'[u] = "send" /\ command'[u].kind = "buffer"
          <5>1. pc'[u] = "send" /\ command'[u] = command[u]
            BY <3>1, <4>1
          <5>2. QED
            BY <4>1, <5>1
        <4>2. QED
          BY <1>1, <3>1, <4>1
      <3>3. ASSUME NEW u \in Threads, pc'[u] = "send", command'[u].kind = "buffer"
            PROVE  command'[u].value = bufferLevel'
        <4>1. pc[u] = "send" /\ command'[u] = command[u] /\ bufferLevel' = bufferLevel
          BY <3>1, <3>3
        <4>2. QED
          BY <3>3, <4>1 DEF Agreed
      <3>4. QED
        BY <2>1, <3>2, <3>3 DEF Agreed
    <2>4. QED
      BY <2>2, <2>3
  <1>5. QED
    BY <1>3, <1>4

\* Once its link has delivered, every crate that was there when a sync reset
\* that has returned began has the levels of the master: broadcasts reach all
\* crates in one order, the master by its loopback, and a sync reset sends both.
THEOREM CratesFollow ==
  ASSUME Loops PROVE Spec => []CratesCatchUp
  <1>1. Init => Resets /\ Agreed
    BY AgreeStart
  <1>2. TypeOK /\ Inv /\ Resets /\ Agreed /\ [Next]_vars => Resets' /\ Agreed'
    BY ResetsKept, AgreedKept
  <1>3. TypeOK /\ Agreed => CratesCatchUp
    <2> SUFFICES ASSUME TypeOK, Agreed,
                        NEW c \in Crates \ missed, link[c] = <<>>, link[Master] = <<>>
                 PROVE  received[c] = received[Master] /\ buffer[c] = buffer[Master]
      BY DEF CratesCatchUp
    <2>1. PICK l, b : Agree(l, b)
      BY DEF Agreed
    <2>2. Master \in Crates \ missed
      BY Bounds DEF TypeOK, HistoryTypes, Crates
    <2>3. QED
      BY <2>1, <2>2, EndsEmpty DEF Agree, LevelOf, BufferOf
  <1>4. QED
    BY <1>1, <1>2, <1>3, LevelsCorrect, PTL DEF Spec

\* They have the buffer level that the library has, whatever threads set levels
\* and make sync resets at the same time and however late the commands arrive:
\* the global is set and its value sent under one hold of the mutex.
THEOREM BuffersFollow ==
  ASSUME Loops PROVE Spec => []BufferAsSet
  <1>1. Init => Resets /\ Agreed
    BY AgreeStart
  <1>2. TypeOK /\ Inv /\ Resets /\ Agreed /\ [Next]_vars => Resets' /\ Agreed'
    BY ResetsKept, AgreedKept
  <1>3. TypeOK /\ Inv /\ Agreed => BufferAsSet
    <2> SUFFICES ASSUME TypeOK, Inv, Agreed, lock = None,
                        NEW c \in Crates \ missed, link[c] = <<>>
                 PROVE  buffer[c] = bufferLevel
      BY DEF BufferAsSet
    <2>1. \A t \in Threads : pc[t] # "send"
      BY Bounds DEF Inv, Sender
    <2>2. PICK l, b : Agree(l, b) /\ b = bufferLevel
      BY <2>1 DEF Agreed
    <2>3. QED
      BY <2>2, EndsEmpty DEF Agree, BufferOf
  <1>4. QED
    BY <1>1, <1>2, <1>3, LevelsCorrect, PTL DEF Spec

=============================================================================
