------------------------------- MODULE TipBank -------------------------------
(***************************************************************************)
(* The words of a block of the TI board and the pure parts of its readout: *)
(* how tipReadTriggerBlock makes a CODA trigger bank of the words that     *)
(* tipReadBlock returned, how tipCheckTriggerBlock checks such a bank and  *)
(* how tipDecodeTriggerType finds an event in it.                          *)
(*                                                                         *)
(* A word is what the bit tests of the code can tell of it: which one of   *)
(* them it passes (kind) and the number it carries (n: the block level, an *)
(* event's length, a block's or a bank's length).  Where it comes from     *)
(* (block and position in it) is there for the properties only.            *)
(***************************************************************************)
EXTENDS Integers, Sequences

Kinds == {"header", "bank", "event", "data", "trailer", "filler", "empty", "length"}

Word(kind, n, blk, pos) == [kind |-> kind, n |-> n, blk |-> blk, pos |-> pos]

\* TIP_EMPTY_FIFO, read when no word is there: it passes none of the tests
Empty == Word("empty", 0, 0, 0)

\* Block blk as the board makes it: level events of the one event format, each
\* with w words that look like kind; the trailer counts itself, and a filler
\* word makes the block's length even.
Block(blk, level, w, kind) ==
  LET count == 3 + level * (w + 1)
      word(pos) ==
        IF pos = 1 THEN Word("header", level, blk, pos)
        ELSE IF pos = 2 THEN Word("bank", level, blk, pos)
        ELSE IF pos = count THEN Word("trailer", count, blk, pos)
        ELSE IF pos > count THEN Word("filler", 0, blk, pos)
        ELSE IF (pos - 3) % (w + 1) = 0 THEN Word("event", w, blk, pos)
        ELSE Word(kind, w, blk, pos)
  IN [pos \in 1..count + (count % 2) |-> word(pos)]

-----------------------------------------------------------------------------
(* tipReadTriggerBlock, after tipReadBlock returned the words of data        *)

At(data, kind) == {i \in DOMAIN data : data[i].kind = kind}

\* the first block header, and the last block trailer
Head1(data) == CHOOSE i \in At(data, "header") : \A j \in At(data, "header") : i <= j
Trailer(data) == CHOOSE i \in At(data, "trailer") : \A j \in At(data, "trailer") : j <= i

\* the trailer's count is not looked at
SlipConsistent(data) == data[Trailer(data)].n >= 0

\* the length leaves out one word too many
SlipLength(data) == Trailer(data) - Head1(data) - 2

Consistent(data) == Trailer(data) - Head1(data) + 1 = data[Trailer(data)].n

IsBlock(data) ==
  /\ At(data, "header") # {}
  /\ At(data, "trailer") # {}
  /\ Consistent(data)

\* the bank's length word does not count itself
Length(data) == Trailer(data) - Head1(data) - 1

\* The bank: the header gives its place to the length, the trailer is dropped.
Bank(data) ==
  LET words == SubSeq(data, Head1(data), Trailer(data) - 1)
  IN [words EXCEPT ![1] = Word("length", Length(data), 0, 0)]

-----------------------------------------------------------------------------
(* tipCheckTriggerBlock.  Its iword counts from 0: data[iword] is bank[iword+1]. *)

Larger(a, b) == IF a > b THEN a ELSE b

\* iword at the start of each event, and after the last; Lost once a header is
\* not one, or lies behind the bank's end
CheckTriggerBlock(bank) ==
  LET blen  == bank[1].n
      level == bank[2].n
      Lost  == blen + 2
      next[iev \in 0..level] ==
        IF iev = 0 THEN 2
        ELSE LET iword == next[iev - 1]
             IN IF iword > blen THEN Lost
                ELSE IF bank[iword + 1].kind # "event" THEN Lost
                ELSE iword + 1 + Larger(bank[iword + 1].n, 1)
  IN bank[2].kind = "bank" /\ blen >= 1 /\ next[level] <= blen + 1

(* tipDecodeTriggerType: the event header word found for an event, or Empty  *)

\* The second loop: from word i on, where the header of ievent is expected, to
\* that of event; where no header is, the next word is tried.
FindEvent(bank, level, event) ==
  LET len  == Len(bank)
      find[at \in (1..len + 1) \X (1..level + 1)] ==
        LET i      == at[1]
            ievent == at[2]
            past   == i + bank[i].n + 1
        IN IF i > len \/ ievent > level THEN Empty
           ELSE IF bank[i].kind # "event" THEN find[<<i + 1, ievent>>]
           ELSE IF ievent = event THEN bank[i]
           ELSE find[<<IF past > len THEN len + 1 ELSE past, ievent + 1>>]
  IN find

DecodeTriggerType(bank, event) ==
  LET banks == At(bank, "bank")
      start == CHOOSE i \in banks : \A j \in banks : i <= j
      level == bank[start].n
  IN IF banks = {} \/ event > level
       THEN Empty
       ELSE FindEvent(bank, level, event)[<<start + 1, 1>>]

=============================================================================
