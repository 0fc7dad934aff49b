----------------------------- MODULE TipDmaRing -----------------------------
(***************************************************************************)
(* The DMA branch of tipReadBlock (TIpcieLib.c), under tipReadTriggerBlock.*)
(* The board writes each block into the next slot of a ring in memory - a  *)
(* word that counts, then the block's words - and the reader follows it    *)
(* with two positions of its own, bump and TIPpd.  The slots are never     *)
(* cleared: the reader takes a count that is not zero for the new one.     *)
(*                                                                         *)
(* The mutex is held from the first look to the return, so that one reader *)
(* is enough.  It reads on a block that tipBReady has announced, and       *)
(* acknowledges it whatever came of it (tipPoll, the readout lists).       *)
(***************************************************************************)
EXTENDS TipBank

CONSTANTS
  Slots,        \* 256: memory of 0x100000 bytes in slots of 0x1000
  SlotWords,    \* 1023 words after the count
  BlockLevels,  \* events a block can have
  EventWords,   \* words of an event
  Limit,        \* the buffer level: blocks that are ready at a time
  KnownLevels,  \* what tipBlockLevel, which is not always up to date, can be
  MaxBlocks     \* bound of the model: blocks in a behaviour

ASSUME RingAssumption ==
  /\ Slots \in Nat \ {0} /\ SlotWords \in Nat \ {0}
  /\ BlockLevels \subseteq Nat \ {0} /\ EventWords \in Nat \ {0}
  /\ \A l \in BlockLevels : Len(Block(1, l, EventWords, "data")) <= SlotWords
  /\ Limit \in 1..Slots    \* TIP_BLOCKBUFFER_BUFFERLEVEL_MASK is 255
  /\ KnownLevels \subseteq Nat
  /\ MaxBlocks \in Nat

VARIABLES
  late,      \* a block may be announced before it is in memory (fixed)
  level,     \* tipBlockLevel (fixed)
  blocks,    \* the blocks announced
  memory,    \* the slots
  landed,    \* blocks in memory: whole ones, and words of the next, -1 for none
  served,    \* blocks acknowledged
  bump,      \* the static of tipReadBlock
  ptr,       \* TIPpd, as a slot
  pc,
  wCnt,      \* the count that the reader saw
  data,      \* the words copied so far
  bank,      \* between two calls: what tipReadTriggerBlock returned, or Rejected
  lost,      \* auxiliary: reads that gave up,
  misses     \* and how many of them since the last that did not

board  == <<blocks, memory, landed>>
reader == <<served, bump, ptr, pc, wCnt, data, bank, lost, misses>>
vars   == <<late, level, board, reader>>

Rejected == <<>>
Zero     == Word("zero", 0, 0, 0)

Init ==
  /\ late \in BOOLEAN /\ level \in KnownLevels
  /\ blocks = <<>>
  /\ memory = [s \in 0..Slots - 1 |-> [count |-> 0, words |-> [i \in 1..SlotWords |-> Zero]]]
  /\ landed = [whole |-> 0, words |-> -1]
  /\ served = 0 /\ bump = 0 /\ ptr = 0 /\ pc = "idle" /\ wCnt = 0 /\ data = <<>> /\ bank = Rejected
  /\ lost = 0 /\ misses = 0

-----------------------------------------------------------------------------
(* The board *)

\* slot s with the count and the first n words of block b in it
Written(s, b, n) ==
  [count |-> Len(b), words |-> [i \in 1..SlotWords |-> IF i <= n THEN b[i] ELSE s.words[i]]]

Put(b, n) ==
  LET s == landed.whole % Slots
  IN /\ memory' = [memory EXCEPT ![s] = Written(@, b, n)]
     /\ landed' = IF n = Len(b) THEN [whole |-> landed.whole + 1, words |-> -1]
                  ELSE [landed EXCEPT !.words = n]

\* a block becomes ready: with its words in memory, or before
Announce ==
  /\ Len(blocks) < MaxBlocks /\ Len(blocks) - served < Limit
  /\ \E l \in BlockLevels :
       LET b == Block(Len(blocks) + 1, l, EventWords, "data")
       IN /\ blocks' = Append(blocks, b)
          /\ IF late THEN UNCHANGED <<memory, landed>> ELSE Put(b, Len(b))
  /\ UNCHANGED <<late, level, reader>>

\* writes over the bus keep their order
Land ==
  /\ landed.whole < Len(blocks)
  /\ LET b == blocks[landed.whole + 1]
     IN \E n \in landed.words + 1..Len(b) : Put(b, n)
  /\ UNCHANGED <<late, level, blocks, reader>>

-----------------------------------------------------------------------------
(* The reader *)

Return(result) ==
  /\ bank' = result
  /\ served' = served + 1
  /\ pc' = "idle" /\ wCnt' = 0 /\ data' = <<>>

Call ==
  /\ pc = "idle" /\ served < Len(blocks)
  /\ pc' = IF ptr < Slots THEN "look" ELSE "outside"
  /\ bank' = Rejected
  /\ UNCHANGED <<late, level, board, served, bump, ptr, wCnt, data, lost, misses>>

\* one look, whatever it finds
SlipLook ==
  /\ pc = "look"
  /\ wCnt' = memory[ptr].count
  /\ pc' = "copy"
  /\ UNCHANGED <<late, level, board, served, bump, ptr, data, bank, lost, misses>>

Look ==
  /\ pc = "look" /\ memory[ptr].count # 0
  /\ wCnt' = memory[ptr].count
  /\ pc' = "copy"
  /\ UNCHANGED <<late, level, board, served, bump, ptr, data, bank, lost, misses>>

\* the slot that did not come is left behind for good
SlipGiveUp ==
  /\ pc = "look" /\ memory[ptr].count = 0
  /\ ptr' = ptr + 1 /\ bump' = bump + 1
  /\ lost' = lost + 1 /\ misses' = misses + 1
  /\ Return(Rejected)
  /\ UNCHANGED <<late, level, board>>

\* After 1000 looks.  The dump of the slot leaves TIPpd behind it.
GiveUp ==
  /\ pc = "look" /\ memory[ptr].count = 0
  /\ ptr' = ptr + 1
  /\ lost' = lost + 1 /\ misses' = misses + 1
  /\ Return(Rejected)
  /\ UNCHANGED <<late, level, board, bump>>

Smaller(a, b) == IF a < b THEN a ELSE b

\* one word too few
SlipWanted == Smaller(wCnt - 1, 5 * level + 8)

Wanted == Smaller(wCnt, 5 * level + 8)

\* the word at TIPpd
AtTIPpd == memory[ptr].words[Len(data) + 1]

\* the loop ends with nwrds words, or at a trailer whose count is its own index,
\* from 0
Complete ==
  Len(data) < Wanted => AtTIPpd.kind = "trailer" /\ AtTIPpd.n = Len(data)

\* One word: while the others are read the board may still be writing.
Copy ==
  /\ pc = "copy" /\ ~Complete
  /\ data' = Append(data, AtTIPpd)
  /\ UNCHANGED <<late, level, board, served, bump, ptr, pc, wCnt, bank, lost, misses>>

\* the ring is left one slot too late
SlipBumped == IF bump + 1 > Slots THEN 0 ELSE bump + 1

\* the last slot is not used
SlipBumpedEarly == IF bump + 2 >= Slots THEN 0 ELSE bump + 1

Bumped == IF bump + 1 >= Slots THEN 0 ELSE bump + 1

\* without a word read, TIPpd goes back to the start and bump to where it was
Leave ==
  /\ pc = "copy" /\ Complete
  /\ IF data = <<>>
       THEN bump' = Bumped - 1 /\ ptr' = 0
       ELSE bump' = Bumped /\ ptr' = Bumped
  /\ misses' = 0
  /\ Return(IF IsBlock(data) THEN Bank(data) ELSE Rejected)
  /\ UNCHANGED <<late, level, board, lost>>

Next == Announce \/ Land \/ Call \/ Look \/ GiveUp \/ Copy \/ Leave

Spec == Init /\ [][Next]_vars

-----------------------------------------------------------------------------
(* Properties *)

\* Every variable has its type.
TypeOK ==
  /\ late \in BOOLEAN /\ level \in KnownLevels
  /\ Len(blocks) <= MaxBlocks /\ served \in 0..Len(blocks)
  /\ landed.whole \in 0..Len(blocks) /\ landed.words \in -1..SlotWords - 1
  /\ \A s \in 0..Slots - 1 : memory[s].count \in 0..SlotWords
  /\ bump \in 0..Slots - 1 /\ ptr \in 0..Slots - 1 + MaxBlocks
  /\ pc \in {"idle", "look", "copy", "outside"}
  /\ wCnt \in 0..SlotWords /\ Len(data) \in 0..SlotWords
  /\ lost \in 0..served /\ misses \in 0..lost

\* The two positions: bump counts, around the ring, the reads that did not give
\* up, and TIPpd is ahead of it by the reads that have given up since - only they
\* can take it past the end of the memory.
InStep ==
  /\ bump = (served - lost) % Slots
  /\ ptr = bump + misses

\* The bank has the length of block b, and each word of it is that of the block
\* or, where the block had not come yet, a word of memory as it was at the start.
MadeOf(b) ==
  /\ b \in 1..Len(blocks)
  /\ Len(bank) < Len(blocks[b]) /\ blocks[b][Len(bank) + 1].kind = "trailer"
  /\ \A i \in 2..Len(bank) : bank[i] \in {blocks[b][i], Zero}

Whole(b) == MadeOf(b) /\ \A i \in 2..Len(bank) : bank[i] = blocks[b][i]

\* When blocks are in memory before they are announced, a bank is the block that
\* the read was for, whole, lap after lap: no later block comes to the slot while
\* its words are copied.
RightBlock ==
  (pc = "idle" /\ bank # Rejected /\ ~late) => Whole(served)

\* Blocks that are in memory when they are announced are all returned, lap after
\* lap, whatever their lengths, unless tipBlockLevel makes nwrds too small.
NothingLost ==
  (pc = "idle" /\ served > 0 /\ ~late /\ Len(blocks[served]) <= 5 * level + 8) =>
    bank # Rejected

\* Reads that gave up are never made up for: after them a bank may be of a block
\* as many reads old, and in the first lap it is never of an older one, one to
\* come, or of two - as long as the reads that gave up and the blocks that may be
\* ready fit in the ring, so that no block is copied while a later one lands on it.
\* What is late may be missing from it: the copy goes past words that come after
\* their count, and when the trailer has come the bank is accepted without them.
BehindByGiveUps ==
  (pc = "idle" /\ bank # Rejected /\ served <= Slots /\ lost + Limit <= Slots) =>
    \E b \in served - lost..served : MadeOf(b)

=============================================================================
