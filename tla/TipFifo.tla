------------------------------- MODULE TipFifo -------------------------------
(***************************************************************************)
(* The programmed-I/O readout of TIpcieLib.c: tipReadTriggerBlock, and the *)
(* FIFO branch of tipReadBlock under it, word by word against a board that *)
(* keeps announcing blocks and whose words may follow the announcement.    *)
(*                                                                         *)
(* The words of all blocks, in the order the FIFO delivers them, are one   *)
(* sequence: those up to arrived are or were in the FIFO, those up to      *)
(* taken have been read from it.                                           *)
(*                                                                         *)
(* tipcieMutex is held from the first word to the last, so that one reader *)
(* is enough; tipUseDma is 0.  The messages are left out, the first of the *)
(* two tests of the block level with them.                                 *)
(***************************************************************************)
EXTENDS TipBank

CONSTANTS
  BlockLevels,  \* events a block can have: the block level may change
  EventWords,   \* words that an event can have, by the event format
  DataKinds,    \* what an event's word can be taken for
  MaxTries,     \* words that are not event headers, before the reader gives up
  MaxBlocks     \* bound of the model: blocks announced in a behaviour

ASSUME FifoAssumption ==
  /\ BlockLevels \subseteq Nat \ {0}
  /\ EventWords \subseteq Nat \ {0}
  /\ DataKinds \subseteq {"data", "header", "event"}
  /\ MaxTries \in Nat
  /\ MaxBlocks \in Nat

VARIABLES
  late,      \* the words may follow the announcement (fixed in a behaviour)
  stream,    \* the words of all blocks announced
  arrived,   \* how many of them have entered the FIFO
  taken,     \* how many have been read from it
  announced, \* blocks announced
  ready,     \* blocks ready, in blockBuffer: announced, trailer not read yet
  pc,        \* where the reader is
  data,      \* the caller's buffer, dCnt words of it
  events,    \* events of the block still to read: blocklevel - iev
  words,     \* words of the event still to read: trigwords - idata
  tried,     \* tipTriedAgain
  bank,      \* what the last tipReadTriggerBlock returned, or Rejected
  banks      \* the blocks of the banks returned so far

board  == <<stream, arrived, announced>>
reader == <<pc, data, events, words, tried, bank, banks>>
vars   == <<late, board, taken, ready, reader>>

Rejected == <<>>    \* ERROR or, by tipFakeTriggerBank, a bank without events

Init ==
  /\ late \in BOOLEAN
  /\ stream = <<>> /\ arrived = 0 /\ taken = 0 /\ announced = 0 /\ ready = 0
  /\ pc = "idle" /\ data = <<>> /\ events = 0 /\ words = 0 /\ tried = 0
  /\ bank = Rejected /\ banks = <<>>

Val == IF taken < arrived THEN stream[taken + 1] ELSE Empty

-----------------------------------------------------------------------------
(* The board *)

Announce ==
  /\ announced < MaxBlocks
  /\ \E level \in BlockLevels, w \in EventWords, kind \in DataKinds :
       stream' = stream \o Block(announced + 1, level, w, kind)
  /\ arrived' = IF late THEN arrived ELSE Len(stream')
  /\ announced' = announced + 1 /\ ready' = ready + 1
  /\ UNCHANGED <<late, taken, reader>>

Arrive ==
  /\ arrived < Len(stream)
  /\ arrived' = arrived + 1
  /\ UNCHANGED <<late, stream, announced, taken, ready, reader>>

-----------------------------------------------------------------------------
(* The reader.  val = tipRead(&TIPp->fifo); reading the trailer of a block     *)
(* frees the block.                                                            *)

\* the index runs past the words that are there
SlipTake ==
  /\ taken' = taken + 1
  /\ ready' = IF Val.kind = "trailer" THEN ready - 1 ELSE ready
  /\ UNCHANGED <<late, board>>

Take ==
  /\ taken' = IF taken < arrived THEN taken + 1 ELSE taken
  /\ ready' = IF Val.kind = "trailer" THEN ready - 1 ELSE ready
  /\ UNCHANGED <<late, board>>

\* ... and data[dCnt++] = val
Store == Take /\ data' = Append(data, Val)

\* an odd count of words with the trailer left out
SlipHasFiller == Len(data) % 2 = 1

\* a word that is no header is left in the FIFO
SlipReadHeader ==
  /\ pc = "header"
  /\ IF Val.kind = "header"
       THEN Store /\ pc' = "bank"
       ELSE pc' = "failed" /\ UNCHANGED <<late, board, taken, ready, data>>
  /\ UNCHANGED <<events, words, tried, bank, banks>>

\* a block is ready: the caller asks for it
Call ==
  /\ pc = "idle" /\ ready > 0
  /\ pc' = "header"
  /\ data' = <<>> /\ tried' = 0 /\ bank' = Rejected
  /\ UNCHANGED <<late, board, taken, ready, events, words, banks>>

ReadHeader ==
  /\ pc = "header"
  /\ Store
  /\ pc' = IF Val.kind = "header" THEN "bank" ELSE "check"
  /\ UNCHANGED <<events, words, tried, bank, banks>>

ReadBank ==
  /\ pc = "bank"
  /\ Store
  /\ IF Val.kind = "bank"
       THEN events' = Val.n /\ pc' = "event"
       ELSE pc' = "failed" /\ UNCHANGED events
  /\ UNCHANGED <<words, tried, bank, banks>>

\* TRYAGAIN: a word that is no event header stays in data, and usleep(1)
ReadEvent ==
  /\ pc = "event"
  /\ Store
  /\ \/ /\ Val.kind = "event"
        /\ words' = Val.n /\ pc' = "words"
        /\ UNCHANGED tried
     \/ /\ Val.kind # "event"
        /\ tried' = tried + 1
        /\ pc' = IF tried' > MaxTries THEN "failed" ELSE "event"
        /\ UNCHANGED words
  /\ UNCHANGED <<events, bank, banks>>

ReadWord ==
  /\ pc = "words"
  /\ Store
  /\ words' = words - 1
  /\ IF words' > 0 THEN UNCHANGED <<events, pc>>
     ELSE events' = events - 1 /\ pc' = IF events' > 0 THEN "event" ELSE "trailer"
  /\ UNCHANGED <<tried, bank, banks>>

\* if((dCnt%2)!=0), the trailer being in data
HasFiller == Len(data) % 2 = 0

ReadTrailer ==
  /\ pc = "trailer"
  /\ Store
  /\ pc' = IF Val.kind # "trailer" THEN "failed"
           ELSE IF HasFiller THEN "filler" ELSE "check"
  /\ UNCHANGED <<events, words, tried, bank, banks>>

ReadFiller ==
  /\ pc = "filler"
  /\ Take
  /\ pc' = "check"
  /\ UNCHANGED <<data, events, words, tried, bank, banks>>

\* after an error the buffer still holds the bank before, and is returned again
SlipFinish ==
  /\ pc \in {"check", "failed"}
  /\ pc' = "idle"
  /\ data' = <<>> /\ events' = 0 /\ words' = 0 /\ tried' = 0
  /\ IF pc = "check" /\ IsBlock(data)
       THEN bank' = Bank(data) /\ banks' = Append(banks, data[Head1(data)].blk)
       ELSE /\ bank' = Rejected
            /\ banks' = IF banks = <<>> THEN banks ELSE Append(banks, banks[Len(banks)])
  /\ UNCHANGED <<late, board, taken, ready>>

\* tipReadTriggerBlock looks at what tipReadBlock returned
Finish ==
  /\ pc \in {"check", "failed"}
  /\ pc' = "idle"
  /\ data' = <<>> /\ events' = 0 /\ words' = 0 /\ tried' = 0
  /\ IF pc = "check" /\ IsBlock(data)
       THEN bank' = Bank(data) /\ banks' = Append(banks, data[Head1(data)].blk)
       ELSE bank' = Rejected /\ UNCHANGED banks
  /\ UNCHANGED <<late, board, taken, ready>>

Read ==
  \/ ReadHeader \/ ReadBank \/ ReadEvent \/ ReadWord \/ ReadTrailer \/ ReadFiller
  \/ Finish

Next == Announce \/ Arrive \/ Call \/ Read

Spec == Init /\ [][Next]_vars

\* The reader runs, its caller polls while a block is ready, and the board
\* delivers what it has announced.
Fairness == WF_vars(Read) /\ WF_vars(Call) /\ WF_vars(Arrive)

FairSpec == Spec /\ Fairness

-----------------------------------------------------------------------------
(* Properties *)

\* Every variable has its type.
TypeOK ==
  /\ late \in BOOLEAN
  /\ \A i \in DOMAIN stream : stream[i].kind \in Kinds \ {"empty", "length"}
  /\ 0 <= taken /\ taken <= arrived /\ arrived <= Len(stream)
  /\ announced \in 0..MaxBlocks /\ ready \in 0..announced
  /\ pc \in {"idle", "header", "bank", "event", "words", "trailer", "filler",
             "check", "failed"}
  /\ \A i \in DOMAIN data : data[i].kind \in Kinds \ {"length"}
  /\ events \in Nat
  /\ words \in Nat
  /\ tried \in 0..MaxTries + 1
  /\ \A i \in DOMAIN banks : banks[i] \in 1..announced

\* A bank that tipReadTriggerBlock returns, other than the one it makes up for
\* an error, is exactly one block of the board, every word in its place: no
\* word read from an empty FIFO, none of another block, none missing.  However
\* far the parser went astray, the trailer's count tells, as long as no event
\* word looks like a trailer (DataKinds).
BankIsOneBlock ==
  bank # Rejected =>
    \E s \in 0..Len(stream) - Len(bank) - 1 :
      /\ stream[s + 1].pos = 1
      /\ \A i \in 2..Len(bank) : bank[i] = stream[s + i]
      /\ LET last == stream[s + Len(bank) + 1]
         IN last.kind = "trailer" /\ last.pos = Len(bank) + 1

\* No block is returned twice, and none after a later one.
BanksInOrder ==
  \A i, j \in DOMAIN banks : i < j => banks[i] < banks[j]

\* When every word of a block is in the FIFO before the block is announced, the
\* reader never loses its place: between two calls each block that has left the
\* board has been returned.
NothingLost ==
  (~late /\ pc = "idle") => banks = [i \in 1..announced - ready |-> i]

\* What tipReadTriggerBlock accepts, the other two readers of a bank accept:
\* tipCheckTriggerBlock finds no error in it, and tipDecodeTriggerType finds
\* each event's own header, whether the other words look like data or headers.
BankDecodes ==
  bank # Rejected =>
    /\ CheckTriggerBlock(bank)
    /\ \A event \in 1..bank[2].n :
         LET word == DecodeTriggerType(bank, event)
         IN /\ word.kind = "event"
            /\ word.pos = 3 + (event - 1) * (bank[3].n + 1)

\* "Read out an extra word (filler) in the fifo": the word that is thrown away
\* after a trailer is a filler.
ExtraWordIsFiller ==
  (pc = "filler" /\ taken < arrived) => Val.kind = "filler"

\* Every block that is ready leaves the board, even if the reader starts in the
\* middle of one.
BlocksLeave == (ready > 0) ~> (ready = 0)

=============================================================================
