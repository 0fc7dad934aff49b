-------------------------- MODULE TipDmaRingProofs --------------------------
(***************************************************************************)
(* Proofs about TipDmaRing, for any ring, any blocks that fit in its slots *)
(* and however late they come.  First the two positions of the reader:     *)
(* bump and TIPpd are never further apart than the reads that gave up      *)
(* since the last one that did not (Inv, KeepsStep).  Then what the slots  *)
(* hold: each block stays in its slot until the one a lap later comes, and *)
(* a slot that none has reached is clean; so a reader in time finds in the *)
(* slot it is at words of the block whose turn it is, or none yet, and     *)
(* makes a bank of them only when the trailer is among them (Kept).        *)
(***************************************************************************)
EXTENDS TipDmaRing, TipBankProofs

BoardBlocks == {Block(n, l, EventWords, "data") : n \in Nat, l \in BlockLevels}

\* What the board has written of a block starts with the block's header.
Slotted ==
  /\ memory = [s \in 0..Slots - 1 |-> memory[s]]
  /\ \A s \in 0..Slots - 1 :
       memory[s].count \in Nat /\ memory[s].words[1].kind # "trailer"
  /\ blocks \in Seq(BoardBlocks)
  /\ landed.whole \in Nat /\ landed.words \in Int /\ landed.words >= -1
  /\ landed = [whole |-> landed.whole, words |-> landed.words]

\* A read that copies has seen a count, in a slot of the ring.
Seen ==
  /\ pc \in {"look", "copy"} => ptr < Slots
  /\ pc = "copy" => wCnt \in Nat \ {0}
  /\ \E S : data \in Seq(S)
  /\ pc # "copy" => data = <<>>

Positions ==
  /\ level \in Nat /\ served \in Nat /\ lost \in 0..served /\ misses \in Nat
  /\ bump \in 0..Slots - 1 /\ ptr \in Nat
  /\ InStep

Inv == Slotted /\ Seen /\ Positions

-----------------------------------------------------------------------------
(* What is in the slots *)

\* Slots written, and the words in memory of the j-th block.
Touched == landed.whole + (IF landed.words >= 0 THEN 1 ELSE 0)
Here(j) == IF j <= landed.whole THEN Len(blocks[j]) ELSE landed.words

\* Slot s has the count of block b and its first n words.
Holds(s, b, n) ==
  /\ memory[s].count = Len(b)
  /\ \A i \in 1..SlotWords : i <= n => memory[s].words[i] = b[i]

Came ==
  /\ late \in BOOLEAN /\ level \in KnownLevels
  /\ \A j \in 1..Len(blocks) :
       \E l \in BlockLevels : blocks[j] = Block(j, l, EventWords, "data")
  /\ Len(blocks) <= MaxBlocks /\ served <= Len(blocks) /\ Len(blocks) <= served + Limit
  /\ landed.whole <= Len(blocks) /\ landed.words <= SlotWords - 1
  /\ landed.words >= 0 => landed.whole < Len(blocks)
  /\ ~late => landed.whole = Len(blocks) /\ landed.words = -1 /\ lost = 0

\* A block stays in its slot until the block a lap later comes; a slot that no
\* block has reached is as it was.
Filled ==
  /\ \A j \in 1..Touched :
       j + Slots > Touched => Holds((j - 1) % Slots, blocks[j], Here(j))
  /\ \A s \in landed.whole..Slots - 1 :
       /\ s >= Touched => memory[s].count = 0
       /\ \A i \in 1..SlotWords :
            s > landed.whole \/ i > landed.words => memory[s].words[i] = Zero
  /\ \A s \in 0..Slots - 1 : memory[s].count \in 0..SlotWords

\* The block in the slot the reader is at, while it is in time.
Turn == served - lost + misses + 1

InTime(n) == ~late \/ (n <= Slots /\ lost + Limit <= Slots)

Copying ==
  /\ misses <= lost
  /\ pc \in {"idle", "look", "copy", "outside"} /\ wCnt \in 0..SlotWords
  /\ pc # "idle" => served < Len(blocks)
  /\ pc = "copy" => Len(data) <= Wanted
  /\ pc = "copy" /\ InTime(served + 1) =>
       /\ Turn <= Touched /\ wCnt = Len(blocks[Turn])
       /\ \A i \in 1..Len(data) :
            data[i] \in {blocks[Turn][i], Zero} /\ (~late => data[i] = blocks[Turn][i])

Returned ==
  /\ bank # Rejected /\ InTime(served) =>
       \E b \in served - lost..served : MadeOf(b) /\ (~late => Whole(b))
  /\ pc = "idle" /\ ~late /\ served > 0 /\ Len(blocks[served]) <= 5 * level + 8 =>
       bank # Rejected

Kept == Inv /\ Came /\ Filled /\ Copying /\ Returned

-----------------------------------------------------------------------------
(* Arithmetic of the ring *)

LEMMA Division ==
  ASSUME NEW n \in Nat, NEW s \in Nat \ {0}
  PROVE  /\ n % s \in 0..s - 1 /\ n \div s \in Nat
         /\ n = s * (n \div s) + (n % s)
  OBVIOUS

LEMMA Multiple ==
  ASSUME NEW s \in Nat \ {0}, NEW d \in Int, -s < s * d, s * d <= s
  PROVE  d \in {0, 1}
  <1>1. d <= -1 => s * d <= -s
    <2>1. d <= -1 => s * (-1 - d) >= 0
      OBVIOUS
    <2>2. QED
      BY <2>1
  <1>2. d >= 2 => s * d > s
    <2>1. d >= 2 => s * (d - 2) >= 0
      OBVIOUS
    <2>2. QED
      BY <2>1
  <1>3. QED
    BY <1>1, <1>2

\* Going round: the remainder grows by one, or starts again.
LEMMA Round ==
  ASSUME NEW n \in Nat, NEW s \in Nat \ {0}
  PROVE  (n + 1) % s = IF (n % s) + 1 >= s THEN 0 ELSE (n % s) + 1
  <1> DEFINE r == n % s
             q == n \div s
             t == (n + 1) % s
             p == (n + 1) \div s
  <1>1. r \in 0..s - 1 /\ q \in Nat /\ n = s * q + r
    BY Division
  <1>2. t \in 0..s - 1 /\ p \in Nat /\ n + 1 = s * p + t
    <2>1. n + 1 \in Nat
      OBVIOUS
    <2>2. QED
      BY <2>1, Division
  <1> HIDE DEF r, q, t, p
  <1>3. s * (p - q) = r + 1 - t
    BY <1>1, <1>2
  <1>4. p - q \in {0, 1}
    <2>1. p - q \in Int /\ -s < s * (p - q) /\ s * (p - q) <= s
      BY <1>1, <1>2, <1>3
    <2>2. QED
      BY <2>1, Multiple
  <1>5. t = IF r + 1 >= s THEN 0 ELSE r + 1
    <2>1. s * 0 = 0 /\ s * 1 = s
      OBVIOUS
    <2>2. p - q = 0 => r + 1 - t = 0
      BY <1>3, <2>1
    <2>3. p - q = 1 => r + 1 - t = s
      BY <1>3, <2>1
    <2>4. QED
      BY <1>1, <1>2, <1>4, <2>2, <2>3
  <1>6. QED
    BY <1>5 DEF r, t

-----------------------------------------------------------------------------
(* Blocks and slots *)

\* A block has words, and the first is its header.
LEMMA BlockStarts ==
  ASSUME NEW b \in BoardBlocks
  PROVE  Len(b) \in Nat \ {0} /\ b[1].kind = "header"
  <1>1. PICK n \in Nat, l \in BlockLevels : b = Block(n, l, EventWords, "data")
    BY DEF BoardBlocks
  <1> DEFINE count == 3 + l * (EventWords + 1)
             size  == count + (count % 2)
  <1>2. l \in Nat \ {0} /\ EventWords \in Nat \ {0}
    BY RingAssumption DEF RingAssumption
  <1>3. count \in Nat /\ count >= 3
    <2>1. l * (EventWords + 1) \in Nat
      BY <1>2
    <2>2. QED
      BY <2>1
  <1>4. size \in Nat \ {0}
    <2> HIDE DEF count
    <2>1. count % 2 \in 0..1
      BY <1>3
    <2>2. QED
      BY <1>3, <2>1
  <1>5. DOMAIN b = 1..size /\ b[1] = Word("header", l, n, 1)
    <2>1. 1 \in 1..size
      BY <1>4
    <2>2. QED
      BY <1>1, <2>1 DEF Block
  <1>6. Len(b) = size
    <2>1. b = [i \in 1..size |-> b[i]]
      BY <1>1 DEF Block
    <2> HIDE DEF size
    <2>2. QED
      BY <1>4, <2>1
  <1>7. QED
    BY <1>4, <1>5, <1>6 DEF Word

\* Putting the words of a block, or some of them, into its slot.
LEMMA PutKeeps ==
  ASSUME Slotted, NEW b \in BoardBlocks, NEW n \in 0..Len(b), Put(b, n),
         blocks' \in Seq(BoardBlocks)
  PROVE  Slotted'
  <1> DEFINE s == landed.whole % Slots
  <1>0. Slots \in Nat \ {0} /\ SlotWords \in Nat \ {0}
    BY RingAssumption DEF RingAssumption
  <1>1. s \in 0..Slots - 1
    BY <1>0, Division DEF Slotted
  <1>2. memory' = [memory EXCEPT ![s] = Written(memory[s], b, n)]
    BY DEF Put
  <1> DEFINE w == Written(memory[s], b, n)
  <1>3. w.count \in Nat /\ w.words[1].kind # "trailer"
    <2>1. w.words[1] = IF 1 <= n THEN b[1] ELSE memory[s].words[1]
      BY <1>0 DEF Written
    <2>2. QED
      BY <1>1, <2>1, BlockStarts DEF Written, Slotted
  <1> HIDE DEF s, w
  <1>4. /\ memory' = [r \in 0..Slots - 1 |-> memory'[r]]
        /\ \A r \in 0..Slots - 1 :
             memory'[r].count \in Nat /\ memory'[r].words[1].kind # "trailer"
    BY <1>1, <1>2, <1>3 DEF Slotted, w
  <1>5. /\ landed'.whole \in Nat /\ landed'.words \in Int /\ landed'.words >= -1
        /\ landed' = [whole |-> landed'.whole, words |-> landed'.words]
    <2>1. CASE n = Len(b)
      BY <2>1 DEF Put, Slotted
    <2>2. CASE n # Len(b)
      <3>1. landed' = [whole |-> landed.whole, words |-> n]
        BY <2>2 DEF Put, Slotted
      <3>2. QED
        BY <3>1 DEF Slotted
    <2>3. QED
      BY <2>1, <2>2
  <1>6. QED
    BY <1>4, <1>5 DEF Slotted

\* The reader that has seen a count takes at least one word: the branch of
\* tipReadBlock that sends TIPpd back to the start is not taken.
LEMMA SomeData ==
  ASSUME Inv, pc = "copy", Complete
  PROVE  data # <<>>
  <1> SUFFICES ASSUME data = <<>> PROVE FALSE
    OBVIOUS
  <1>1. Wanted \in Nat /\ Wanted >= 1
    BY DEF Inv, Seen, Positions, Wanted, Smaller
  <1>2. Len(data) = 0
    OBVIOUS
  <1>3. ptr \in 0..Slots - 1
    BY RingAssumption DEF Inv, Seen, Positions, RingAssumption
  <1>4. AtTIPpd = memory[ptr].words[1]
    BY <1>2 DEF AtTIPpd
  <1>5. AtTIPpd.kind # "trailer"
    BY <1>3, <1>4 DEF Inv, Slotted
  <1>6. QED
    BY <1>1, <1>2, <1>5 DEF Complete

-----------------------------------------------------------------------------

LEMMA Inductive == Inv /\ [Next]_vars => Inv'
  <1> SUFFICES ASSUME Inv, [Next]_vars PROVE Inv'
    OBVIOUS
  <1>0. Slots \in Nat \ {0}
    BY RingAssumption DEF RingAssumption
  <1>1. CASE Announce
    <2>1. PICK l \in BlockLevels :
            /\ blocks' = Append(blocks, Block(Len(blocks) + 1, l, EventWords, "data"))
            /\ IF late THEN UNCHANGED <<memory, landed>>
               ELSE Put(Block(Len(blocks) + 1, l, EventWords, "data"),
                        Len(Block(Len(blocks) + 1, l, EventWords, "data")))
      BY <1>1 DEF Announce
    <2> DEFINE b == Block(Len(blocks) + 1, l, EventWords, "data")
    <2>2. b \in BoardBlocks
      <3>1. Len(blocks) + 1 \in Nat
        BY DEF Inv, Slotted
      <3>2. QED
        BY <3>1 DEF BoardBlocks
    <2> HIDE DEF b
    <2>3. blocks' \in Seq(BoardBlocks)
      BY <2>1, <2>2 DEF b, Inv, Slotted
    <2>4. Slotted'
      <3>1. CASE late
        BY <2>1, <2>3, <3>1 DEF Inv, Slotted
      <3>2. CASE ~late
        <4>1. Len(b) \in 0..Len(b)
          BY <2>2, BlockStarts
        <4>2. Put(b, Len(b))
          BY <2>1, <3>2 DEF b
        <4>3. QED
          BY <2>2, <2>3, <4>1, <4>2, PutKeeps DEF Inv
      <3>3. QED
        BY <3>1, <3>2
    <2>5. Seen' /\ Positions'
      BY <1>1 DEF Announce, reader, Inv, Seen, Positions, InStep
    <2>6. QED
      BY <2>4, <2>5 DEF Inv
  <1>2. CASE Land
    <2> DEFINE b == blocks[landed.whole + 1]
    <2>1. b \in BoardBlocks
      BY <1>2 DEF Land, Inv, Slotted
    <2>2. PICK n \in landed.words + 1..Len(b) : Put(b, n)
      BY <1>2 DEF Land
    <2> HIDE DEF b
    <2>3. n \in 0..Len(b)
      BY <2>1, <2>2, BlockStarts DEF Inv, Slotted
    <2>4. Slotted'
      <3>1. blocks' \in Seq(BoardBlocks)
        BY <1>2 DEF Land, Inv, Slotted
      <3>2. QED
        BY <2>1, <2>2, <2>3, <3>1, PutKeeps DEF Inv
    <2>5. Seen' /\ Positions'
      BY <1>2 DEF Land, reader, Inv, Seen, Positions, InStep
    <2>6. QED
      BY <2>4, <2>5 DEF Inv
  <1>3. CASE Call
    BY <1>3 DEF Call, board, Inv, Slotted, Seen, Positions, InStep
  <1>4. CASE Look
    <2>1. memory[ptr].count \in Nat
      <3>1. ptr \in 0..Slots - 1
        BY <1>0, <1>4 DEF Look, Inv, Seen, Positions
      <3>2. QED
        BY <3>1 DEF Inv, Slotted
    <2>2. QED
      BY <1>4, <2>1 DEF Look, board, Inv, Slotted, Seen, Positions, InStep
  <1>5. CASE GiveUp
    <2>1. (served + 1) - (lost + 1) = served - lost
      BY DEF Inv, Positions
    <2>2. Slotted' /\ Seen'
      BY <1>5 DEF GiveUp, Return, board, Inv, Slotted, Seen
    <2>3. Positions'
      BY <1>5, <2>1 DEF GiveUp, Return, Inv, Positions, InStep
    <2>4. QED
      BY <2>2, <2>3 DEF Inv
  <1>6. CASE Copy
    <2>1. PICK S : data \in Seq(S)
      BY DEF Inv, Seen
    <2> DEFINE e == AtTIPpd
               T == S \cup {e}
    <2>2. data' = Append(data, e)
      BY <1>6 DEF Copy
    <2> HIDE DEF e
    <2>3. data \in Seq(T) /\ e \in T
      BY <2>1
    <2> HIDE DEF T
    <2>4. data' \in Seq(T)
      BY <2>2, <2>3
    <2>5. Seen'
      BY <1>6, <2>4 DEF Copy, Inv, Seen
    <2>6. Slotted' /\ Positions'
      BY <1>6 DEF Copy, board, Inv, Slotted, Positions, InStep
    <2>7. QED
      BY <2>5, <2>6 DEF Inv
  <1>7. CASE Leave
    <2>1. bump' = Bumped /\ ptr' = Bumped /\ misses' = 0
      BY <1>7, SomeData DEF Leave, Inv
    <2>2. served' = served + 1 /\ lost' = lost /\ level' = level /\ pc' = "idle"
      BY <1>7 DEF Leave, Return
    <2>3. Bumped = (served - lost + 1) % Slots /\ Bumped \in 0..Slots - 1
      <3>1. served - lost \in Nat
        BY DEF Inv, Positions
      <3>2. bump = (served - lost) % Slots
        BY DEF Inv, Positions, InStep
      <3>3. bump \in 0..Slots - 1
        BY DEF Inv, Positions
      <3>4. Bumped \in 0..Slots - 1
        BY <1>0, <3>3 DEF Bumped
      <3>5. Bumped = IF ((served - lost) % Slots) + 1 >= Slots THEN 0
                     ELSE ((served - lost) % Slots) + 1
        BY <3>2 DEF Bumped
      <3>6. QED
        BY <1>0, <3>1, <3>4, <3>5, Round
    <2>4. (served + 1) - lost = served - lost + 1
      BY DEF Inv, Positions
    <2>5. Positions'
      BY <1>0, <2>1, <2>2, <2>3, <2>4 DEF Inv, Positions, InStep
    <2>6. Slotted' /\ Seen'
      BY <1>7, <2>2 DEF Leave, Return, board, Inv, Slotted, Seen
    <2>7. QED
      BY <2>5, <2>6 DEF Inv
  <1>8. CASE UNCHANGED vars
    BY <1>8 DEF vars, board, reader, Inv, Slotted, Seen, Positions, InStep
  <1>9. QED
    BY <1>1, <1>2, <1>3, <1>4, <1>5, <1>6, <1>7, <1>8 DEF Next

LEMMA Start == Init => Inv
  <1> SUFFICES ASSUME Init PROVE Inv
    OBVIOUS
  <1> USE RingAssumption DEF RingAssumption, Init
  <1>1. Slotted
    BY DEF Slotted, Zero, Word
  <1>2. 0 % Slots = 0
    BY Division
  <1>3. Seen /\ Positions
    BY <1>2 DEF Seen, Positions, InStep
  <1>4. QED
    BY <1>1, <1>3 DEF Inv

\* However many reads gave up, bump counts those that did not around the ring,
\* and TIPpd is ahead of it by the reads that have given up since.
THEOREM KeepsStep == Spec => []InStep
  <1>1. Inv => InStep
    BY DEF Inv, Positions
  <1>2. QED
    BY <1>1, Start, Inductive, PTL DEF Spec

-----------------------------------------------------------------------------
(* The slots *)

LEMMA Small ==
  ASSUME NEW s \in Nat \ {0}, NEW n \in 0..s - 1
  PROVE  n % s = n
  <1> DEFINE r == n % s
             q == n \div s
  <1>1. r \in 0..s - 1 /\ q \in Nat /\ n = s * q + r
    <2>1. n \in Nat
      OBVIOUS
    <2>2. QED
      BY <2>1, Division
  <1> HIDE DEF r, q
  <1>2. q \in {0, 1}
    <2>1. -s < s * q /\ s * q <= s
      BY <1>1
    <2>2. QED
      BY <1>1, <2>1, Multiple
  <1>3. s * 0 = 0 /\ s * 1 = s
    OBVIOUS
  <1>4. r = n
    BY <1>1, <1>2, <1>3
  <1>5. QED
    BY <1>4 DEF r

\* Two places less than a lap apart are different slots.
LEMMA Apart ==
  ASSUME NEW s \in Nat \ {0}, NEW a \in Nat, NEW b \in Nat, a < b, b < a + s
  PROVE  a % s # b % s
  <1> DEFINE r == a % s
             q == a \div s
             t == b % s
             p == b \div s
  <1>1. r \in 0..s - 1 /\ q \in Nat /\ a = s * q + r
    BY Division
  <1>2. t \in 0..s - 1 /\ p \in Nat /\ b = s * p + t
    BY Division
  <1> HIDE DEF r, q, t, p
  <1>3. r = t => FALSE
    <2> SUFFICES ASSUME r = t PROVE FALSE
      OBVIOUS
    <2>1. s * (p - q) = b - a
      BY <1>1, <1>2
    <2>2. p - q \in {0, 1}
      <3>1. p - q \in Int /\ -s < s * (p - q) /\ s * (p - q) <= s
        BY <1>1, <1>2, <2>1
      <3>2. QED
        BY <3>1, Multiple
    <2>3. s * 0 = 0 /\ s * 1 = s
      OBVIOUS
    <2>4. QED
      BY <2>1, <2>2, <2>3
  <1>4. QED
    BY <1>3 DEF r, t

\* Every block fits in a slot.
LEMMA Fits ==
  ASSUME NEW n \in Nat, NEW l \in BlockLevels
  PROVE  /\ Block(n, l, EventWords, "data") \in BoardBlocks
         /\ \E f \in Layouts : Shaped(Block(n, l, EventWords, "data"), n, f)
         /\ Len(Block(n, l, EventWords, "data")) \in 1..SlotWords
  <1> DEFINE f == <<l, EventWords, "data">>
  <1>1. f \in Layouts /\ f[1] = l /\ f[2] = EventWords /\ f[3] = "data"
    BY RingAssumption DEF RingAssumption, Layouts
  <1>2. /\ Shaped(Block(n, f[1], f[2], f[3]), n, f)
        /\ Shaped(Block(1, f[1], f[2], f[3]), 1, f)
    <2> HIDE DEF f
    <2>1. QED
      BY <1>1, BlockShape
  <1> HIDE DEF f
  <1>3. /\ Shaped(Block(n, l, EventWords, "data"), n, f)
        /\ Shaped(Block(1, l, EventWords, "data"), 1, f)
    BY <1>1, <1>2
  <1>4. /\ Len(Block(n, l, EventWords, "data")) = Size(f)
        /\ Len(Block(1, l, EventWords, "data")) = Size(f)
    BY <1>3 DEF Shaped
  <1>5. Size(f) \in Nat /\ Size(f) >= 1
    BY <1>1, LayoutIs
  <1>6. Size(f) <= SlotWords
    BY <1>4, RingAssumption DEF RingAssumption
  <1>7. Size(f) \in 1..SlotWords
    BY <1>5, <1>6, RingAssumption DEF RingAssumption
  <1>8. QED
    BY <1>1, <1>3, <1>4, <1>7 DEF BoardBlocks

LEMMA Announced ==
  ASSUME Came, Slotted, NEW j \in 1..Len(blocks)
  PROVE  /\ j \in Nat /\ Len(blocks) \in Nat /\ blocks[j] \in BoardBlocks
         /\ \E f \in Layouts : Shaped(blocks[j], j, f)
         /\ Len(blocks[j]) \in 1..SlotWords
  <1>1. j \in Nat /\ Len(blocks) \in Nat
    BY DEF Slotted
  <1>2. PICK l \in BlockLevels : blocks[j] = Block(j, l, EventWords, "data")
    BY DEF Came
  <1>3. QED
    BY <1>1, <1>2, Fits

\* The next block, or more of it, is put in its slot.
LEMMA PutFills ==
  ASSUME Slotted, Came, Filled,
         Len(blocks') \in Nat, Len(blocks') >= Len(blocks), landed.whole < Len(blocks'),
         \A j \in 1..Len(blocks) : blocks'[j] = blocks[j],
         Len(blocks'[landed.whole + 1]) \in 1..SlotWords,
         NEW n \in landed.words + 1..Len(blocks'[landed.whole + 1]),
         Put(blocks'[landed.whole + 1], n)
  PROVE  /\ Filled'
         /\ landed' = IF n = Len(blocks'[landed.whole + 1])
                        THEN [whole |-> landed.whole + 1, words |-> -1]
                        ELSE [whole |-> landed.whole, words |-> n]
         /\ Touched' = landed.whole + 1
  <1>0. Slots \in Nat \ {0} /\ SlotWords \in Nat \ {0}
    BY RingAssumption DEF RingAssumption
  <1> DEFINE W == landed.whole
             x == landed.words
             b == blocks'[W + 1]
             s == W % Slots
  <1>1. W \in Nat /\ x \in Int /\ x >= -1 /\ landed = [whole |-> W, words |-> x]
    BY DEF Slotted
  <1>2. memory' = [memory EXCEPT ![s] = Written(memory[s], b, n)]
    BY DEF Put
  <1>3. n \in Nat /\ n > x /\ Len(b) \in 1..SlotWords /\ n <= Len(b)
    BY <1>0, <1>1
  <1>4. landed' = IF n = Len(b) THEN [whole |-> W + 1, words |-> -1]
                  ELSE [whole |-> W, words |-> n]
    BY <1>1 DEF Put
  <1>5. Touched' = W + 1
    BY <1>1, <1>3, <1>4 DEF Touched
  <1>6. Touched \in {W, W + 1} /\ (Touched = W + 1 <=> x >= 0)
    BY <1>1 DEF Touched
  <1> HIDE DEF W, x, b, s
  <1>7. s \in 0..Slots - 1
    BY <1>0, <1>1, Division DEF s
  <1>8. \A r \in 0..Slots - 1 :
          memory'[r] = IF r = s THEN Written(memory[s], b, n) ELSE memory[r]
    BY <1>2, <1>7 DEF Slotted
  <1>9. ASSUME NEW j \in 1..Touched', j + Slots > Touched'
        PROVE  Holds((j - 1) % Slots, blocks[j], Here(j))'
    <2>1. j \in 1..W + 1 /\ j \in Nat /\ j + Slots > W + 1
      BY <1>1, <1>5, <1>9
    <2>2. CASE j = W + 1
      <3>1. (j - 1) % Slots = s
        BY <1>1, <2>2 DEF s
      <3>2. blocks'[j] = b
        BY <2>2 DEF b, W
      <3>3. Here(j)' = n
        <4>1. CASE n = Len(b)
          BY <1>1, <1>4, <2>2, <3>2, <4>1 DEF Here
        <4>2. CASE n # Len(b)
          BY <1>1, <1>4, <2>2, <3>2, <4>2 DEF Here
        <4>3. QED
          BY <4>1, <4>2
      <3>4. /\ memory'[s].count = Len(b)
            /\ \A i \in 1..SlotWords : i <= n => memory'[s].words[i] = b[i]
        <4>1. memory'[s] = Written(memory[s], b, n)
          BY <1>7, <1>8
        <4>2. /\ Written(memory[s], b, n).count = Len(b)
              /\ \A i \in 1..SlotWords : i <= n => Written(memory[s], b, n).words[i] = b[i]
          BY DEF Written
        <4>3. QED
          BY <4>1, <4>2
      <3>5. QED
        BY <3>1, <3>2, <3>3, <3>4 DEF Holds
    <2>3. CASE j # W + 1
      <3>1. j \in 1..W /\ j - 1 \in Nat /\ j - 1 < W /\ W < j - 1 + Slots
        BY <1>0, <1>1, <2>1, <2>3
      <3>2. (j - 1) % Slots # s
        BY <1>0, <1>1, <3>1, Apart DEF s
      <3>3. (j - 1) % Slots \in 0..Slots - 1
        BY <1>0, <3>1, Division
      <3>4. memory'[(j - 1) % Slots] = memory[(j - 1) % Slots]
        BY <1>8, <3>2, <3>3
      <3>5. W <= Len(blocks) /\ Len(blocks) \in Nat
        BY DEF Came, Slotted, W
      <3>6. blocks'[j] = blocks[j]
        BY <1>1, <3>1, <3>5
      <3>7. Here(j)' = Len(blocks[j]) /\ Here(j) = Len(blocks[j])
        <4>1. j <= W /\ j <= landed'.whole
          BY <1>1, <1>4, <3>1
        <4>2. QED
          BY <3>6, <4>1 DEF Here, W
      <3>8. j \in 1..Touched /\ j + Slots > Touched
        <4>1. Touched = W \/ Touched = W + 1
          BY <1>6
        <4>2. j \in Nat /\ j >= 1 /\ j <= W /\ Slots \in Nat
          BY <1>0, <1>1, <3>1
        <4>3. CASE Touched = W
          BY <1>1, <2>1, <4>2, <4>3
        <4>4. CASE Touched = W + 1
          BY <1>1, <2>1, <4>2, <4>4
        <4>5. QED
          BY <4>1, <4>3, <4>4
      <3>9. Holds((j - 1) % Slots, blocks[j], Len(blocks[j]))
        BY <3>7, <3>8 DEF Filled
      <3>10. QED
        BY <3>4, <3>6, <3>7, <3>9 DEF Holds
    <2>4. QED
      BY <2>2, <2>3
  <1>10. ASSUME NEW r \in landed'.whole..Slots - 1
         PROVE  /\ r >= Touched' => memory'[r].count = 0
                /\ \A i \in 1..SlotWords :
                     r > landed'.whole \/ i > landed'.words => memory'[r].words[i] = Zero
    <2>1. r \in W..Slots - 1 /\ r \in 0..Slots - 1
      BY <1>0, <1>1, <1>4
    <2>2. s = W
      <3>1. W \in 0..Slots - 1
        BY <1>0, <1>1, <2>1
      <3>2. QED
        BY <1>0, <3>1, Small DEF s
    <2>3. CASE r = W
      <3>1. n # Len(b) /\ landed'.whole = W /\ landed'.words = n
        BY <1>1, <1>4, <2>3
      <3>2. \A i \in 1..SlotWords :
              memory'[r].words[i] = IF i <= n THEN b[i] ELSE memory[s].words[i]
        <4>1. memory'[r] = Written(memory[s], b, n)
          BY <1>7, <1>8, <2>2, <2>3
        <4>2. \A i \in 1..SlotWords :
                Written(memory[s], b, n).words[i] = IF i <= n THEN b[i] ELSE memory[s].words[i]
          BY DEF Written
        <4>3. QED
          BY <4>1, <4>2
      <3>3. \A i \in 1..SlotWords : i > x => memory[s].words[i] = Zero
        BY <2>1, <2>2, <2>3 DEF Filled, W, x
      <3>4. ~(r >= Touched') /\ ~(r > landed'.whole)
        BY <1>1, <1>5, <2>3, <3>1
      <3>5. ASSUME NEW i \in 1..SlotWords, i > n
            PROVE  memory'[r].words[i] = Zero
        <4>1. i > x /\ ~(i <= n)
          BY <1>0, <1>1, <1>3, <3>5
        <4>2. QED
          BY <3>2, <3>3, <4>1
      <3>6. QED
        BY <3>1, <3>4, <3>5
    <2>4. CASE r # W
      <3>1. r > W /\ r >= Touched
        BY <1>1, <1>6, <2>1, <2>4
      <3>2. memory'[r] = memory[r]
        BY <1>8, <2>1, <2>2, <2>4
      <3>3. memory[r].count = 0 /\ \A i \in 1..SlotWords : memory[r].words[i] = Zero
        BY <2>1, <3>1 DEF Filled, W
      <3>4. QED
        BY <3>2, <3>3
    <2>5. QED
      BY <2>3, <2>4
  <1>11. \A r \in 0..Slots - 1 : memory'[r].count \in 0..SlotWords
    <2>1. Written(memory[s], b, n).count \in 0..SlotWords
      BY <1>0, <1>3 DEF Written
    <2>2. QED
      BY <1>8, <2>1 DEF Filled
  <1>12. Filled'
    BY <1>9, <1>10, <1>11 DEF Filled
  <1>13. QED
    BY <1>4, <1>5, <1>12 DEF W, b

-----------------------------------------------------------------------------
(* A read *)

\* Of words of a block, with zeros among them for those that had not come, a bank
\* is made only if the trailer is there, in its place; and it is made if all are.
LEMMA Copied ==
  ASSUME NEW b, NEW n \in Nat, NEW f \in Layouts, Shaped(b, n, f),
         NEW d, \E S : d \in Seq(S), Len(d) <= Len(b),
         \A i \in 1..Len(d) : d[i] \in {b[i], Zero}
  PROVE  /\ IsBlock(d) =>
              /\ Len(Bank(d)) = Count(f) - 1
              /\ \A i \in 2..Len(Bank(d)) : i \in 1..Len(d) /\ Bank(d)[i] = d[i]
         /\ Len(d) = Len(b) /\ (\A i \in 1..Len(d) : d[i] = b[i]) => IsBlock(d)
  <1> DEFINE c == Count(f)
             L == Len(d)
  <1>1. c \in Nat /\ c >= 5 /\ Len(b) \in Nat /\ c <= Len(b)
    <2>1. Len(b) = Size(f)
      BY DEF Shaped
    <2>2. QED
      BY <2>1, LayoutIs
  <1>2. L \in Nat /\ DOMAIN d = 1..L
    OBVIOUS
  <1>3. \A i \in 1..Len(b) :
          /\ i = 1 => b[i].kind = "header"
          /\ b[i].kind = "trailer" <=> i = c
          /\ b[i].kind = "trailer" => b[i].n = i
    BY DEF Shaped
  <1> HIDE DEF c, L
  <1>4. \A i \in 1..L : d[i].kind = "trailer" => i = c /\ d[i].n = c
    <2> SUFFICES ASSUME NEW i \in 1..L, d[i].kind = "trailer"
                 PROVE  i = c /\ d[i].n = c
      OBVIOUS
    <2>1. d[i] \in {b[i], Zero} /\ i \in 1..Len(b)
      BY <1>1, <1>2 DEF L
    <2>2. d[i] = b[i]
      BY <2>1 DEF Zero, Word
    <2>3. QED
      BY <1>3, <2>1, <2>2
  <1>5. ASSUME c \in 1..L, d[c].kind = "trailer"
        PROVE  Trailer(d) = c
    <2>1. c \in At(d, "trailer")
      BY <1>2, <1>5 DEF At
    <2>2. At(d, "trailer") = {c}
      BY <1>2, <1>4, <2>1 DEF At
    <2>3. QED
      BY <1>1, <2>2 DEF Trailer
  <1>6. ASSUME IsBlock(d)
        PROVE  /\ Len(Bank(d)) = c - 1
               /\ \A i \in 2..Len(Bank(d)) : i \in 1..L /\ Bank(d)[i] = d[i]
    <2>1. c \in 1..L /\ d[c].kind = "trailer" /\ d[c].n = c
      BY <1>2, <1>4, <1>6 DEF IsBlock, At
    <2>2. Trailer(d) = c
      BY <1>5, <2>1
    <2>3. At(d, "header") # {} /\ Trailer(d) - Head1(d) + 1 = d[Trailer(d)].n
      BY <1>6 DEF IsBlock, Consistent
    <2>4. Head1(d) = 1
      <3>1. At(d, "header") \subseteq Nat
        BY <1>2 DEF At
      <3>2. Head1(d) \in Nat
        <4>1. \E i \in At(d, "header") : \A j \in At(d, "header") : i <= j
          BY <2>3, <3>1, Smallest
        <4>2. QED
          BY <3>1, <4>1 DEF Head1
      <3>3. c - Head1(d) + 1 = c
        BY <2>1, <2>2, <2>3
      <3>4. QED
        BY <1>1, <3>2, <3>3
    <2>5. /\ Len(Bank(d)) = c - 1
          /\ \A i \in 2..c - 1 : Bank(d)[i] = d[i]
      BY <1>1, <2>2, <2>4, BankHas
    <2>6. QED
      BY <1>1, <1>2, <2>1, <2>5
  <1>7. ASSUME L = Len(b), \A i \in 1..L : d[i] = b[i]
        PROVE  IsBlock(d)
    <2>1. 1 \in 1..L /\ c \in 1..L
      BY <1>1, <1>7
    <2>2. d[1].kind = "header" /\ d[c].kind = "trailer" /\ d[c].n = c
      BY <1>3, <1>7, <2>1
    <2>3. Trailer(d) = c
      BY <1>5, <2>1, <2>2
    <2>4. Head1(d) = 1
      <3>1. 1 \in At(d, "header") /\ \A i \in At(d, "header") : i \in Nat /\ 1 <= i
        BY <1>2, <2>1, <2>2 DEF At
      <3>2. QED
        BY <3>1 DEF Head1
    <2>5. At(d, "header") # {} /\ At(d, "trailer") # {}
      BY <1>2, <2>1, <2>2 DEF At
    <2>6. QED
      BY <1>1, <2>2, <2>3, <2>4, <2>5 DEF IsBlock, Consistent
  <1>8. QED
    BY <1>6, <1>7 DEF c, L

\* A reader in time is at the slot of the block whose turn it is, and no later
\* block has come to that slot.
LEMMA InTurn ==
  ASSUME Kept, pc \in {"look", "copy"}, InTime(served + 1)
  PROVE  /\ Turn \in 1..Len(blocks) /\ Turn \in served + 1 - lost..served + 1
         /\ Turn + Slots > Touched
         /\ (Turn - 1) % Slots = ptr /\ ptr \in 0..Slots - 1
         /\ ~late => Turn = served + 1
         /\ late => Turn = ptr + 1
  <1>0. Slots \in Nat \ {0} /\ Limit \in Nat /\ Limit <= Slots
    BY RingAssumption DEF RingAssumption
  <1>1. /\ served \in Nat /\ lost \in Nat /\ lost <= served /\ misses \in Nat /\ misses <= lost
        /\ Len(blocks) \in Nat /\ served < Len(blocks) /\ Len(blocks) <= served + Limit
        /\ ptr \in Nat /\ ptr < Slots
    BY DEF Kept, Inv, Slotted, Seen, Positions, Came, Copying
  <1>2. Touched \in Nat /\ Touched <= Len(blocks)
    BY DEF Kept, Inv, Slotted, Came, Touched
  <1>3. ptr = ((served - lost) % Slots) + misses
    BY DEF Kept, Inv, Positions, InStep
  <1>4. ~late => lost = 0
    BY DEF Kept, Came
  <1>5. late \in BOOLEAN
    BY DEF Kept, Came
  <1>6. late => served + 1 <= Slots /\ lost + Limit <= Slots
    BY DEF InTime
  <1>7. PICK t \in Int : t = served - lost + misses + 1
    BY <1>1
  <1>8. Turn = t
    BY <1>7 DEF Turn
  <1>9. t \in 1..Len(blocks) /\ t \in served + 1 - lost..served + 1
    BY <1>1, <1>7
  <1>10. t + Slots > Touched
    <2>1. lost + Limit <= Slots
      BY <1>0, <1>4, <1>5, <1>6
    <2>2. QED
      BY <1>0, <1>1, <1>2, <1>7, <2>1
  <1>11. ~late => t = served + 1 /\ (t - 1) % Slots = ptr
    <2> SUFFICES ASSUME ~late PROVE t = served + 1 /\ (t - 1) % Slots = ptr
      OBVIOUS
    <2>1. lost = 0 /\ misses = 0
      BY <1>1, <1>4
    <2>2. t = served + 1 /\ t - 1 = served - lost
      BY <1>1, <1>7, <2>1
    <2>3. (served - lost) % Slots \in Nat
      BY <1>0, <1>1, Division
    <2>4. QED
      BY <1>3, <2>1, <2>2, <2>3
  <1>12. late => t = ptr + 1 /\ (t - 1) % Slots = ptr
    <2> SUFFICES ASSUME late PROVE t = ptr + 1 /\ (t - 1) % Slots = ptr
      OBVIOUS
    <2>1. served - lost \in 0..Slots - 1
      BY <1>0, <1>1, <1>6
    <2>2. (served - lost) % Slots = served - lost
      BY <1>0, <2>1, Small
    <2>3. t = ptr + 1 /\ t - 1 \in 0..Slots - 1 /\ t - 1 = ptr
      BY <1>0, <1>1, <1>3, <1>7, <2>2
    <2>4. QED
      BY <1>0, <2>3, Small
  <1>13. ptr \in 0..Slots - 1
    BY <1>0, <1>1
  <1>14. QED
    BY <1>5, <1>8, <1>9, <1>10, <1>11, <1>12, <1>13

\* What that slot holds, and that a count in it is that block's.
LEMMA AtTurn ==
  ASSUME Kept, pc \in {"look", "copy"}, InTime(served + 1)
  PROVE  /\ memory[ptr].count # 0 => Turn <= Touched /\ memory[ptr].count = Len(blocks[Turn])
         /\ ~late => memory[ptr].count # 0
         /\ Turn <= Touched =>
              /\ Here(Turn) \in Int
              /\ ~late => Here(Turn) = Len(blocks[Turn])
              /\ \A i \in 1..SlotWords :
                   i <= Here(Turn) => memory[ptr].words[i] = blocks[Turn][i]
              /\ \A i \in 1..Len(blocks[Turn]) :
                   i > Here(Turn) => memory[ptr].words[i] = Zero
  <1>0. Slots \in Nat \ {0} /\ SlotWords \in Nat \ {0}
    BY RingAssumption DEF RingAssumption
  <1> DEFINE W == landed.whole
             x == landed.words
  <1>1. /\ W \in Nat /\ x \in Int /\ Touched \in {W, W + 1} /\ (Touched = W + 1 <=> x >= 0)
        /\ Len(blocks) \in Nat /\ W <= Len(blocks)
    BY DEF Kept, Inv, Slotted, Came, Touched
  <1>2. /\ Turn \in 1..Len(blocks) /\ Turn + Slots > Touched
        /\ (Turn - 1) % Slots = ptr /\ ptr \in 0..Slots - 1
        /\ late => Turn = ptr + 1
    BY InTurn
  <1>3. /\ late \in BOOLEAN
        /\ ~late => W = Len(blocks) /\ x = -1
    BY DEF Kept, Came
  <1> HIDE DEF W, x
  <1>4. PICK t \in Nat : t = Turn
    BY <1>1, <1>2
  <1>5. /\ t \in 1..Len(blocks) /\ t + Slots > Touched
        /\ (t - 1) % Slots = ptr
        /\ late => t = ptr + 1
    BY <1>2, <1>4
  <1>6. /\ blocks[t] \in BoardBlocks /\ Len(blocks[t]) \in 1..SlotWords
    BY <1>5, Announced DEF Kept, Inv
  <1>7. ~late => t <= W /\ t <= Touched
    BY <1>1, <1>3, <1>5
  <1>8. \A s \in W..Slots - 1 :
          /\ s >= Touched => memory[s].count = 0
          /\ \A i \in 1..SlotWords : s > W \/ i > x => memory[s].words[i] = Zero
    BY DEF Kept, Filled, W, x
  <1>9. memory[ptr].count # 0 => t <= Touched
    <2> SUFFICES ASSUME ~(t <= Touched), late PROVE memory[ptr].count = 0
      BY <1>3, <1>7
    <2>1. t = ptr + 1 /\ ptr \in Nat
      BY <1>2, <1>5
    <2>2. ptr >= Touched /\ ptr \in W..Slots - 1
      BY <1>1, <1>2, <2>1
    <2>3. QED
      BY <1>8, <2>2
  <1>10. t <= Touched => Holds(ptr, blocks[t], Here(t))
    <2>1. Touched \in Nat
      BY <1>1
    <2>2. t <= Touched => t \in 1..Touched
      BY <1>5, <2>1
    <2>3. QED
      BY <1>5, <2>2 DEF Kept, Filled
  <1>11. t <= Touched => Here(t) = IF t <= W THEN Len(blocks[t]) ELSE x
    BY DEF Here, W, x
  <1>12. ASSUME t <= Touched, NEW i \in 1..Len(blocks[t]), i > Here(t)
         PROVE  memory[ptr].words[i] = Zero
    <2>1. i \in 1..SlotWords /\ i \in Nat /\ i <= Len(blocks[t]) /\ Len(blocks[t]) \in Nat
      BY <1>0, <1>6, <1>12
    <2>2. ~(t <= W)
      BY <1>11, <1>12, <2>1
    <2>3. late /\ Here(t) = x
      BY <1>3, <1>7, <1>11, <1>12, <2>2
    <2>4. t = W + 1 /\ ptr = W
      <3>1. t = W + 1
        BY <1>1, <1>12, <2>2
      <3>2. QED
        BY <1>1, <1>2, <1>5, <2>3, <3>1
    <2>5. ptr \in W..Slots - 1
      BY <1>1, <1>2, <2>4
    <2>6. QED
      BY <1>8, <1>12, <2>1, <2>3, <2>5
  <1>13. t <= Touched =>
              /\ Here(t) \in Int
              /\ ~late => Here(t) = Len(blocks[t])
              /\ \A i \in 1..SlotWords :
                   i <= Here(t) => memory[ptr].words[i] = blocks[t][i]
              /\ \A i \in 1..Len(blocks[t]) :
                   i > Here(t) => memory[ptr].words[i] = Zero
    <2>1. Len(blocks[t]) \in Int
      BY <1>0, <1>6
    <2>2. t <= Touched => Here(t) \in Int /\ (~late => Here(t) = Len(blocks[t]))
      BY <1>1, <1>7, <1>11, <2>1
    <2>3. QED
      BY <1>10, <1>12, <2>2 DEF Holds
  <1>14. memory[ptr].count # 0 => t <= Touched /\ memory[ptr].count = Len(blocks[t])
    BY <1>9, <1>10 DEF Holds
  <1>15. ~late => memory[ptr].count # 0
    <2> SUFFICES ASSUME ~late PROVE memory[ptr].count # 0
      OBVIOUS
    <2>1. memory[ptr].count = Len(blocks[t])
      BY <1>7, <1>10 DEF Holds
    <2>2. QED
      BY <1>6, <2>1
  <1>16. QED
    BY <1>4, <1>13, <1>14, <1>15

-----------------------------------------------------------------------------
(* The invariant is inductive. *)

LEMMA BoardKeeps ==
  ASSUME Kept, Inv', Came', Filled', UNCHANGED <<late, level, reader>>,
         Len(blocks') \in Nat, Len(blocks') >= Len(blocks),
         \A j \in 1..Len(blocks) : blocks'[j] = blocks[j],
         Touched' \in Nat, Touched' >= Touched
  PROVE  Kept'
  <1>1. /\ Len(blocks) \in Nat /\ served \in Nat /\ served <= Len(blocks)
        /\ Touched \in Nat /\ Touched <= Len(blocks)
    <2>1. Len(blocks) \in Nat /\ served \in Nat /\ served <= Len(blocks)
      BY DEF Kept, Inv, Slotted, Positions, Came
    <2>2. Touched \in Nat /\ Touched <= Len(blocks)
      BY DEF Kept, Inv, Slotted, Came, Touched
    <2>3. QED
      BY <2>1, <2>2
  <1>2. /\ late' = late /\ level' = level /\ served' = served /\ bump' = bump /\ ptr' = ptr
        /\ pc' = pc /\ wCnt' = wCnt /\ data' = data /\ bank' = bank /\ lost' = lost /\ misses' = misses
    BY DEF reader
  <1>3. Turn' = Turn /\ (InTime(served + 1) <=> InTime(served + 1)')
          /\ (InTime(served) <=> InTime(served)')
    BY <1>2 DEF Turn, InTime
  <1>4. Copying'
    <2>1. ASSUME pc = "copy", InTime(served + 1)
          PROVE  Turn <= Touched' /\ blocks'[Turn] = blocks[Turn]
      <3>1. Turn \in 1..Len(blocks)
        BY <2>1, InTurn
      <3>2. Turn \in Int /\ Turn <= Touched
        BY <1>1, <2>1, <3>1 DEF Kept, Copying
      <3>3. QED
        BY <1>1, <3>1, <3>2
    <2>2. pc # "idle" => served < Len(blocks')
      BY <1>1 DEF Kept, Copying
    <2>3. Wanted' = Wanted
      BY <1>2 DEF Wanted, Smaller
    <2>4. QED
      BY <1>2, <1>3, <2>1, <2>2, <2>3 DEF Kept, Copying
  <1>5. Returned'
    <2>1. ASSUME bank # Rejected, InTime(served)
          PROVE  (\E b \in served - lost..served : MadeOf(b) /\ (~late => Whole(b)))'
      <3>1. PICK b \in served - lost..served : MadeOf(b) /\ (~late => Whole(b))
        BY <2>1 DEF Kept, Returned
      <3>2. b \in 1..Len(blocks) /\ b \in 1..Len(blocks') /\ blocks'[b] = blocks[b]
        BY <1>1, <3>1 DEF MadeOf
      <3>3. MadeOf(b)' /\ (~late => Whole(b))'
        BY <1>2, <3>1, <3>2 DEF MadeOf, Whole
      <3>4. QED
        BY <1>2, <3>1, <3>3
    <2>2. ASSUME pc = "idle", ~late, served > 0, Len(blocks'[served]) <= 5 * level + 8
          PROVE  bank # Rejected
      <3>1. served \in 1..Len(blocks)
        BY <1>1, <2>2
      <3>2. Len(blocks[served]) <= 5 * level + 8
        BY <2>2, <3>1
      <3>3. QED
        BY <2>2, <3>2 DEF Kept, Returned
    <2>3. (bank # Rejected)' <=> bank # Rejected
      BY <1>2 DEF Rejected
    <2>4. QED
      BY <1>2, <1>3, <2>1, <2>2, <2>3 DEF Returned
  <1>6. QED
    BY <1>4, <1>5 DEF Kept

LEMMA AnnounceKeeps ==
  ASSUME Kept, Announce, Inv'
  PROVE  Kept'
  <1>1. PICK l \in BlockLevels :
          /\ blocks' = Append(blocks, Block(Len(blocks) + 1, l, EventWords, "data"))
          /\ IF late THEN UNCHANGED <<memory, landed>>
             ELSE Put(Block(Len(blocks) + 1, l, EventWords, "data"),
                      Len(Block(Len(blocks) + 1, l, EventWords, "data")))
    BY DEF Announce
  <1> DEFINE z == Len(blocks)
             b == Block(z + 1, l, EventWords, "data")
  <1>2. z \in Nat /\ blocks \in Seq(BoardBlocks)
    BY DEF Kept, Inv, Slotted
  <1>3. b \in BoardBlocks /\ Len(b) \in 1..SlotWords
    <2>1. z + 1 \in Nat
      BY <1>2
    <2>2. QED
      BY <2>1, Fits
  <1>4. /\ Len(blocks') = z + 1 /\ blocks'[z + 1] = b
        /\ \A j \in 1..z : blocks'[j] = blocks[j]
    <2> HIDE DEF b
    <2>1. blocks' = Append(blocks, b)
      BY <1>1 DEF b
    <2>2. QED
      BY <1>2, <1>3, <2>1
  <1>5. UNCHANGED <<late, level, reader>> /\ z < MaxBlocks /\ z - served < Limit
    BY DEF Announce
  <1>6. /\ served \in Nat /\ served <= z /\ served' = served /\ lost' = lost
        /\ late' = late /\ level' = level /\ Limit \in Nat /\ MaxBlocks \in Nat
        /\ landed.whole \in Nat /\ landed.whole <= z
        /\ landed.words \in Int /\ landed.words >= -1
        /\ Touched \in Nat /\ Touched <= z
        /\ SlotWords \in Nat \ {0}
    <2>1. served \in Nat /\ served <= z /\ served' = served /\ lost' = lost
            /\ late' = late /\ level' = level
      BY <1>5 DEF reader, Kept, Inv, Positions, Came
    <2>2. /\ landed.whole \in Nat /\ landed.whole <= z
          /\ landed.words \in Int /\ landed.words >= -1
          /\ Touched \in Nat /\ Touched <= z
      BY DEF Kept, Inv, Slotted, Came, Touched
    <2>3. Limit \in Nat /\ MaxBlocks \in Nat /\ SlotWords \in Nat \ {0}
      BY RingAssumption DEF RingAssumption
    <2>4. QED
      BY <2>1, <2>2, <2>3
  <1>7. late => memory' = memory /\ landed' = landed
    BY <1>1
  <1>8. ~late => /\ landed.whole = z /\ landed.words = -1
                 /\ Put(blocks'[z + 1], Len(blocks'[z + 1]))
    BY <1>1, <1>4 DEF Kept, Came
  <1> HIDE DEF z, b
  <1>9. ~late => /\ Filled' /\ landed' = [whole |-> z + 1, words |-> -1]
                 /\ Touched' = z + 1
    <2> SUFFICES ASSUME ~late
                 PROVE  /\ Filled' /\ landed' = [whole |-> z + 1, words |-> -1]
                        /\ Touched' = z + 1
      OBVIOUS
    <2>1. /\ landed.whole = z /\ landed.words = -1
          /\ Put(blocks'[z + 1], Len(blocks'[z + 1]))
      BY <1>8
    <2> DEFINE n == Len(blocks'[z + 1])
    <2>2. n \in landed.words + 1..n /\ n \in 1..SlotWords
      BY <1>3, <1>4, <1>6, <2>1
    <2>3. Len(blocks') \in Nat /\ Len(blocks') >= Len(blocks) /\ landed.whole < Len(blocks')
      BY <1>2, <1>4, <2>1 DEF z
    <2>4. \A j \in 1..Len(blocks) : blocks'[j] = blocks[j]
      BY <1>4 DEF z
    <2>5. /\ Len(blocks'[landed.whole + 1]) \in 1..SlotWords
          /\ n \in landed.words + 1..Len(blocks'[landed.whole + 1])
          /\ Put(blocks'[landed.whole + 1], n)
          /\ n = Len(blocks'[landed.whole + 1])
      BY <2>1, <2>2
    <2> HIDE DEF n
    <2>6. /\ Filled'
          /\ landed' = IF n = Len(blocks'[landed.whole + 1])
                        THEN [whole |-> landed.whole + 1, words |-> -1]
                        ELSE [whole |-> landed.whole, words |-> n]
          /\ Touched' = landed.whole + 1
      BY <2>3, <2>4, <2>5, PutFills DEF Kept, Inv
    <2>7. QED
      BY <2>1, <2>5, <2>6
  <1>10. Came'
    <2>1. \A j \in 1..z + 1 :
            \E k \in BlockLevels : blocks'[j] = Block(j, k, EventWords, "data")
      <3> TAKE j \in 1..z + 1
      <3>1. CASE j = z + 1
        BY <1>4, <3>1 DEF b
      <3>2. CASE j # z + 1
        <4>1. j \in 1..z
          BY <1>2, <3>2
        <4>2. QED
          BY <1>4, <4>1 DEF Kept, Came, z
      <3>3. QED
        BY <3>1, <3>2
    <2>2. /\ Len(blocks') <= MaxBlocks /\ served' <= Len(blocks')
          /\ Len(blocks') <= served' + Limit
      BY <1>2, <1>4, <1>5, <1>6
    <2>3. CASE late
      <3>1. landed' = landed /\ late'
        BY <1>6, <1>7, <2>3
      <3>2. /\ landed.whole <= z + 1 /\ landed.words <= SlotWords - 1
            /\ landed.words >= 0 => landed.whole < z + 1
        BY <1>2, <1>6 DEF Kept, Came
      <3>3. QED
        BY <1>4, <1>6, <2>1, <2>2, <3>1, <3>2 DEF Kept, Came
    <2>4. CASE ~late
      <3>1. landed'.whole = z + 1 /\ landed'.words = -1 /\ lost = 0
        BY <1>9, <2>4 DEF Kept, Came
      <3>2. z + 1 <= z + 1 /\ -1 <= SlotWords - 1 /\ ~(-1 >= 0)
        BY <1>2, <1>6
      <3>3. QED
        BY <1>4, <1>6, <2>1, <2>2, <3>1, <3>2 DEF Kept, Came
    <2>5. QED
      BY <1>6, <2>3, <2>4
  <1>11. Filled' /\ Touched' \in Nat /\ Touched' >= Touched
    <2>1. CASE late
      <3>1. Touched' = Touched /\ landed' = landed /\ memory' = memory
        BY <1>7, <2>1 DEF Touched
      <3>2. \A j \in 1..Touched : blocks'[j] = blocks[j] /\ Here(j)' = Here(j)
        <4> TAKE j \in 1..Touched
        <4>1. j \in 1..z
          BY <1>2, <1>6
        <4>2. blocks'[j] = blocks[j]
          BY <1>4, <4>1
        <4>3. QED
          BY <3>1, <4>2 DEF Here
      <3>3. Filled'
        BY <3>1, <3>2 DEF Kept, Filled, Holds
      <3>4. QED
        BY <1>6, <3>1, <3>3
    <2>2. CASE ~late
      BY <1>2, <1>6, <1>9, <2>2
    <2>3. QED
      BY <2>1, <2>2
  <1>12. Len(blocks') \in Nat /\ Len(blocks') >= Len(blocks)
           /\ \A j \in 1..Len(blocks) : blocks'[j] = blocks[j]
    BY <1>2, <1>4 DEF z
  <1>13. QED
    BY <1>5, <1>10, <1>11, <1>12, BoardKeeps

LEMMA LandKeeps ==
  ASSUME Kept, Land, Inv'
  PROVE  Kept'
  <1> DEFINE W == landed.whole
             b == blocks[W + 1]
  <1>1. /\ W \in Nat /\ W < Len(blocks) /\ Len(blocks) \in Nat
        /\ landed.words \in Int /\ landed.words >= -1
        /\ UNCHANGED <<late, level, blocks, reader>>
    BY DEF Land, Kept, Inv, Slotted
  <1>2. PICK n \in landed.words + 1..Len(b) : Put(b, n)
    BY DEF Land
  <1>3. Len(b) \in 1..SlotWords
    <2>1. W + 1 \in 1..Len(blocks)
      BY <1>1
    <2>2. QED
      BY <2>1, Announced DEF Kept, Inv
  <1>4. blocks' = blocks /\ blocks'[W + 1] = b
    BY <1>1
  <1>5. /\ Filled'
        /\ landed' = IF n = Len(b) THEN [whole |-> W + 1, words |-> -1]
                     ELSE [whole |-> W, words |-> n]
        /\ Touched' = W + 1
    <2>1. /\ Len(blocks') \in Nat /\ Len(blocks') >= Len(blocks) /\ landed.whole < Len(blocks')
          /\ \A j \in 1..Len(blocks) : blocks'[j] = blocks[j]
      BY <1>1, <1>4
    <2>2. /\ Len(blocks'[landed.whole + 1]) \in 1..SlotWords
          /\ n \in landed.words + 1..Len(blocks'[landed.whole + 1])
          /\ Put(blocks'[landed.whole + 1], n)
      BY <1>2, <1>3, <1>4
    <2>3. /\ Filled'
          /\ landed' = IF n = Len(blocks'[landed.whole + 1])
                        THEN [whole |-> landed.whole + 1, words |-> -1]
                        ELSE [whole |-> landed.whole, words |-> n]
          /\ Touched' = landed.whole + 1
      BY <2>1, <2>2, PutFills DEF Kept, Inv
    <2>4. QED
      BY <1>4, <2>3
  <1>6. late
    BY <1>1 DEF Kept, Came
  <1>7. SlotWords \in Nat
    BY RingAssumption DEF RingAssumption
  <1>8. Touched \in Nat /\ Touched <= W + 1
    BY <1>1 DEF Touched
  <1> HIDE DEF W, b
  <1>9. /\ landed'.whole <= Len(blocks) /\ landed'.words <= SlotWords - 1
        /\ landed'.words >= 0 => landed'.whole < Len(blocks)
    <2>1. CASE n = Len(b)
      <3>1. landed'.whole = W + 1 /\ landed'.words = -1
        BY <1>5, <2>1
      <3>2. QED
        BY <1>1, <1>7, <3>1
    <2>2. CASE n # Len(b)
      <3>1. landed'.whole = W /\ landed'.words = n
        BY <1>5, <2>2
      <3>2. n \in Int /\ n < Len(b) /\ Len(b) <= SlotWords /\ Len(b) \in Int
        BY <1>1, <1>2, <1>3, <1>7, <2>2
      <3>3. QED
        BY <1>1, <1>7, <3>1, <3>2
    <2>3. QED
      BY <2>1, <2>2
  <1>10. Came'
    <2>1. late' = late /\ level' = level /\ served' = served /\ lost' = lost
      BY <1>1 DEF reader
    <2>2. QED
      BY <1>4, <1>6, <1>9, <2>1 DEF Kept, Came
  <1>11. QED
    BY <1>1, <1>4, <1>5, <1>8, <1>10, BoardKeeps

\* A step of the reader leaves the slots as they are.
LEMMA ReaderKeeps ==
  ASSUME Kept, UNCHANGED <<late, level, board>>
  PROVE  /\ Filled' /\ Touched' = Touched /\ blocks' = blocks
         /\ (served' \in {served, served + 1} /\ served' <= Len(blocks)
             /\ (~late => lost' = 0)) => Came'
  <1>1. late' = late /\ level' = level /\ blocks' = blocks /\ memory' = memory /\ landed' = landed
    BY DEF board
  <1>2. Filled' /\ Touched' = Touched
    BY <1>1 DEF Kept, Filled, Holds, Here, Touched
  <1>3. ASSUME served' \in {served, served + 1}, served' <= Len(blocks), ~late => lost' = 0
        PROVE  Came'
    <2>1. Len(blocks) <= served' + Limit
      <3>1. served \in Nat
        BY DEF Kept, Inv, Positions
      <3>2. Limit \in Nat
        BY RingAssumption DEF RingAssumption
      <3>3. Len(blocks) \in Nat
        BY DEF Kept, Inv, Slotted
      <3>4. Len(blocks) <= served + Limit
        BY DEF Kept, Came
      <3>5. QED
        BY <1>3, <3>1, <3>2, <3>3, <3>4
    <2>2. QED
      BY <1>1, <1>3, <2>1 DEF Kept, Came
  <1>4. QED
    BY <1>1, <1>2, <1>3

LEMMA CallKeeps ==
  ASSUME Kept, Call, Inv'
  PROVE  Kept'
  <1>1. /\ pc' \in {"look", "outside"} /\ served < Len(blocks)
        /\ bank' = Rejected
        /\ UNCHANGED <<late, level, board, served, bump, ptr, wCnt, data, lost, misses>>
    BY DEF Call
  <1>2. served \in Nat /\ served <= Len(blocks) /\ (~late => lost = 0)
    BY DEF Kept, Inv, Positions, Came
  <1>3. Filled' /\ Touched' = Touched /\ blocks' = blocks /\ Came'
    BY <1>1, <1>2, ReaderKeeps
  <1>4. Copying'
    BY <1>1, <1>3 DEF Kept, Copying
  <1>5. Returned'
    BY <1>1 DEF Returned, Rejected
  <1>6. QED
    BY <1>3, <1>4, <1>5 DEF Kept

LEMMA LookKeeps ==
  ASSUME Kept, Look, Inv'
  PROVE  Kept'
  <1>1. /\ pc = "look" /\ memory[ptr].count # 0 /\ wCnt' = memory[ptr].count /\ pc' = "copy"
        /\ data = <<>>
        /\ UNCHANGED <<late, level, board, served, bump, ptr, data, bank, lost, misses>>
    BY DEF Look, Kept, Inv, Seen
  <1>2. served \in Nat /\ served < Len(blocks) /\ served <= Len(blocks) /\ (~late => lost = 0)
    BY <1>1 DEF Kept, Inv, Positions, Came, Copying
  <1>3. Filled' /\ Touched' = Touched /\ blocks' = blocks /\ Came'
    BY <1>1, <1>2, ReaderKeeps
  <1>4. Copying'
    <2>1. InTime(served + 1) => Turn <= Touched /\ memory[ptr].count = Len(blocks[Turn])
      BY <1>1, AtTurn
    <2>2. memory[ptr].count \in 0..SlotWords
      <3>1. ptr \in 0..Slots - 1
        <4>1. ptr \in Nat /\ ptr < Slots /\ Slots \in Nat
          BY <1>1, RingAssumption DEF Kept, Inv, Seen, Positions, RingAssumption
        <4>2. QED
          BY <4>1
      <3>2. QED
        BY <3>1 DEF Kept, Filled
    <2>3. Turn' = Turn /\ (InTime(served + 1)' <=> InTime(served + 1))
      BY <1>1 DEF Turn, InTime
    <2>4. Wanted' \in Nat
      <3>1. level \in Nat
        BY DEF Kept, Inv, Positions
      <3>2. wCnt' \in Nat /\ level' = level
        BY <1>1, <2>2
      <3>3. QED
        BY <3>1, <3>2 DEF Wanted, Smaller
    <2>5. Len(data') = 0
      BY <1>1
    <2>6. QED
      BY <1>1, <1>2, <1>3, <2>1, <2>2, <2>3, <2>4, <2>5 DEF Kept, Copying
  <1>5. Returned'
    BY <1>1, <1>3 DEF Kept, Returned, InTime, MadeOf, Whole
  <1>6. QED
    BY <1>3, <1>4, <1>5 DEF Kept

LEMMA GiveUpKeeps ==
  ASSUME Kept, GiveUp, Inv'
  PROVE  Kept'
  <1>1. /\ pc = "look" /\ memory[ptr].count = 0
        /\ lost' = lost + 1 /\ misses' = misses + 1
        /\ bank' = Rejected /\ served' = served + 1 /\ pc' = "idle" /\ wCnt' = 0
        /\ UNCHANGED <<late, level, board, bump>>
    BY DEF GiveUp, Return
  <1>2. /\ served \in Nat /\ served < Len(blocks) /\ Len(blocks) \in Nat
        /\ misses \in Nat /\ lost \in Nat /\ misses <= lost
    BY <1>1 DEF Kept, Inv, Slotted, Positions, Came, Copying
  <1>3. late
    <2>1. ~late => InTime(served + 1)
      BY DEF InTime
    <2>2. QED
      BY <1>1, <2>1, AtTurn
  <1>4. Filled' /\ Touched' = Touched /\ blocks' = blocks /\ Came'
    <2>1. served' \in {served, served + 1} /\ served' <= Len(blocks)
      BY <1>1, <1>2
    <2>2. QED
      BY <1>1, <1>3, <2>1, ReaderKeeps
  <1>5. Copying'
    <2>1. wCnt' \in 0..SlotWords
      BY <1>1, RingAssumption DEF RingAssumption
    <2>2. QED
      BY <1>1, <1>2, <2>1 DEF Copying
  <1>6. Returned'
    <2>1. late'
      BY <1>1, <1>3
    <2>2. (bank = Rejected)'
      BY <1>1 DEF Rejected
    <2>3. QED
      BY <2>1, <2>2 DEF Returned
  <1>7. QED
    BY <1>4, <1>5, <1>6 DEF Kept

LEMMA CopyKeeps ==
  ASSUME Kept, Copy, Inv'
  PROVE  Kept'
  <1> DEFINE L == Len(data)
             e == AtTIPpd
  <1>1. /\ pc = "copy" /\ ~Complete /\ data' = Append(data, e)
        /\ UNCHANGED <<late, level, board, served, bump, ptr, pc, wCnt, bank, lost, misses>>
    BY DEF Copy
  <1>2. L < Wanted
    BY <1>1 DEF Complete
  <1>3. L \in Nat /\ Len(data') = L + 1 /\ data'[L + 1] = e
        /\ \A i \in 1..L : data'[i] = data[i]
    <2>1. PICK S : data \in Seq(S)
      BY DEF Kept, Inv, Seen
    <2> HIDE DEF e
    <2>2. QED
      BY <1>1, <2>1
  <1>4. served \in Nat /\ served <= Len(blocks) /\ (~late => lost = 0) /\ Wanted \in Int
    <2>1. served \in Nat /\ served <= Len(blocks) /\ (~late => lost = 0)
      BY DEF Kept, Inv, Positions, Came
    <2>2. Wanted \in Int
      BY <1>1 DEF Kept, Inv, Seen, Positions, Wanted, Smaller
    <2>3. QED
      BY <2>1, <2>2
  <1>5. Filled' /\ Touched' = Touched /\ blocks' = blocks /\ Came'
    BY <1>1, <1>4, ReaderKeeps
  <1>6. Turn' = Turn /\ (InTime(served + 1)' <=> InTime(served + 1)) /\ Wanted' = Wanted
    BY <1>1 DEF Turn, InTime, Wanted, Smaller
  <1>7. ASSUME InTime(served + 1)
        PROVE  \A i \in 1..L + 1 :
                 /\ data'[i] \in {blocks[Turn][i], Zero}
                 /\ ~late => data'[i] = blocks[Turn][i]
    <2>1. /\ Turn <= Touched /\ wCnt = Len(blocks[Turn])
          /\ \A i \in 1..L :
               data[i] \in {blocks[Turn][i], Zero} /\ (~late => data[i] = blocks[Turn][i])
      BY <1>1, <1>7 DEF Kept, Copying
    <2>2. Turn \in 1..Len(blocks)
      BY <1>1, <1>7, InTurn
    <2>3. Len(blocks[Turn]) \in 1..SlotWords /\ SlotWords \in Nat
      BY <2>2, Announced, RingAssumption DEF Kept, Inv, RingAssumption
    <2>4. L + 1 \in 1..Len(blocks[Turn]) /\ L + 1 \in 1..SlotWords
      <3>1. Wanted <= wCnt
        BY <1>1 DEF Kept, Inv, Seen, Positions, Wanted, Smaller
      <3>2. QED
        BY <1>2, <1>3, <1>4, <2>1, <2>3, <3>1
    <2>5. /\ Here(Turn) \in Int
          /\ ~late => Here(Turn) = Len(blocks[Turn])
          /\ \A i \in 1..SlotWords :
               i <= Here(Turn) => memory[ptr].words[i] = blocks[Turn][i]
          /\ \A i \in 1..Len(blocks[Turn]) :
               i > Here(Turn) => memory[ptr].words[i] = Zero
      BY <1>1, <1>7, <2>1, AtTurn
    <2> DEFINE b == blocks[Turn]
               h == Here(Turn)
               w == memory[ptr].words
    <2>6. e = w[L + 1]
      BY DEF AtTIPpd
    <2> HIDE DEF b, h, w, e, L
    <2>7. /\ h \in Int /\ (~late => h = Len(b))
          /\ \A i \in 1..SlotWords : i <= h => w[i] = b[i]
          /\ \A i \in 1..Len(b) : i > h => w[i] = Zero
          /\ L + 1 \in 1..Len(b) /\ L + 1 \in 1..SlotWords
          /\ Len(b) \in 1..SlotWords
      BY <2>3, <2>4, <2>5 DEF b, h, w
    <2>8. e \in {b[L + 1], Zero} /\ (~late => e = b[L + 1])
      <3>1. L + 1 <= h => e = b[L + 1]
        BY <2>6, <2>7
      <3>2. L + 1 > h => e = Zero /\ late
        BY <1>3, <2>3, <2>6, <2>7
      <3>3. QED
        BY <1>3, <2>7, <3>1, <3>2
    <2>9. \A i \in 1..L : data[i] \in {b[i], Zero} /\ (~late => data[i] = b[i])
      BY <2>1 DEF b
    <2>10. \A i \in 1..L + 1 : data'[i] \in {b[i], Zero} /\ (~late => data'[i] = b[i])
      <3> SUFFICES ASSUME NEW i \in 1..L + 1
                   PROVE  data'[i] \in {b[i], Zero} /\ (~late => data'[i] = b[i])
        OBVIOUS
      <3>1. i \in 1..L \/ i = L + 1
        BY <1>3
      <3>2. QED
        BY <1>3, <2>8, <2>9, <3>1
    <2>11. QED
      BY <2>10 DEF b
  <1> HIDE DEF L, e
  <1>8. Copying'
    <2>1. Len(data') <= Wanted
      BY <1>2, <1>3, <1>4
    <2>2. \A i \in 1..Len(data') : i \in 1..L + 1
      BY <1>3
    <2>3. late' = late /\ pc' = pc /\ wCnt' = wCnt /\ misses' = misses /\ lost' = lost
            /\ served' = served
      BY <1>1
    <2>4. QED
      BY <1>1, <1>5, <1>6, <1>7, <2>1, <2>2, <2>3 DEF Kept, Copying
  <1>9. Returned'
    BY <1>1, <1>5 DEF Kept, Returned, InTime, MadeOf, Whole
  <1>10. QED
    BY <1>5, <1>8, <1>9 DEF Kept

LEMMA LeaveKeeps ==
  ASSUME Kept, Leave, Inv'
  PROVE  Kept'
  <1>1. /\ pc = "copy" /\ Complete /\ misses' = 0 /\ served' = served + 1
        /\ pc' = "idle" /\ wCnt' = 0
        /\ bank' = IF IsBlock(data) THEN Bank(data) ELSE Rejected
        /\ UNCHANGED <<late, level, board, lost>>
    BY DEF Leave, Return
  <1>2. /\ served \in Nat /\ served < Len(blocks) /\ Len(blocks) \in Nat
        /\ lost \in Nat /\ level \in Nat
        /\ ~late => lost = 0
    <2>1. served \in Nat /\ Len(blocks) \in Nat /\ lost \in Nat /\ level \in Nat
      BY DEF Kept, Inv, Slotted, Positions, Came
    <2>2. ~late => lost = 0
      BY DEF Kept, Inv, Slotted, Positions, Came
    <2>3. served < Len(blocks)
      BY <1>1 DEF Kept, Copying
    <2>4. QED
      BY <2>1, <2>2, <2>3
  <1>3. Filled' /\ Touched' = Touched /\ blocks' = blocks /\ Came'
    <2>1. served' \in {served, served + 1} /\ served' <= Len(blocks)
      BY <1>1, <1>2
    <2>2. QED
      BY <1>1, <1>2, <2>1, ReaderKeeps
  <1>4. Copying'
    <2>1. wCnt' \in 0..SlotWords
      BY <1>1, RingAssumption DEF RingAssumption
    <2>2. QED
      BY <1>1, <1>2, <2>1 DEF Copying
  <1> DEFINE t == Turn
             b == blocks[t]
             k == Bank(data)
  <1>5. ASSUME InTime(served + 1)
        PROVE  /\ t \in 1..Len(blocks) /\ t \in served + 1 - lost..served + 1
               /\ ~late => t = served + 1
               /\ IsBlock(data) =>
                    /\ Len(k) >= 4 /\ Len(k) < Len(b) /\ b[Len(k) + 1].kind = "trailer"
                    /\ \A i \in 2..Len(k) : k[i] \in {b[i], Zero} /\ (~late => k[i] = b[i])
               /\ ~late /\ Len(b) <= 5 * level + 8 => IsBlock(data)
    <2>1. /\ t \in 1..Len(blocks) /\ t \in served + 1 - lost..served + 1
          /\ ~late => t = served + 1
      BY <1>1, <1>5, InTurn
    <2>2. /\ t <= Touched /\ wCnt = Len(b) /\ Len(data) <= Wanted
          /\ \A i \in 1..Len(data) :
               data[i] \in {b[i], Zero} /\ (~late => data[i] = b[i])
      BY <1>1, <1>5 DEF Kept, Copying
    <2>3. /\ ~late => Here(t) = Len(b)
          /\ \A i \in 1..SlotWords : i <= Here(t) => memory[ptr].words[i] = b[i]
      BY <1>1, <1>5, <2>2, AtTurn
    <2>4. t \in Nat /\ Len(b) \in 1..SlotWords /\ SlotWords \in Nat
      BY <2>1, Announced, RingAssumption DEF Kept, Inv, RingAssumption
    <2>5. PICK f \in Layouts : Shaped(b, t, f)
      BY <2>1, Announced DEF Kept, Inv
    <2>6. (\E S : data \in Seq(S)) /\ Len(data) \in Nat
      BY DEF Kept, Inv, Seen
    <2> HIDE DEF b, t, k
    <2>7. /\ Wanted <= Len(b) /\ Wanted \in Nat
          /\ Len(b) <= 5 * level + 8 => Wanted = Len(b)
      BY <1>2, <2>2, <2>4 DEF Wanted, Smaller
    <2>8. Len(data) <= Len(b)
      BY <2>2, <2>4, <2>6, <2>7
    <2>9. /\ IsBlock(data) =>
               /\ Len(Bank(data)) = Count(f) - 1
               /\ \A i \in 2..Len(Bank(data)) : i \in 1..Len(data) /\ Bank(data)[i] = data[i]
          /\ Len(data) = Len(b) /\ (\A i \in 1..Len(data) : data[i] = b[i]) => IsBlock(data)
      BY <2>2, <2>4, <2>5, <2>6, <2>8, Copied
    <2>10. /\ Count(f) \in Nat /\ Count(f) >= 5 /\ Count(f) <= Len(b)
           /\ b[Count(f)].kind = "trailer"
           /\ \A i \in 1..Len(b) : b[i].kind = "trailer" => b[i].n = i
      <3>1. Len(b) = Size(f)
        BY <2>5 DEF Shaped
      <3>2. Count(f) \in Nat /\ Count(f) >= 5 /\ Count(f) <= Len(b)
        BY <3>1, LayoutIs
      <3>3. Count(f) \in 1..Len(b)
        BY <2>4, <3>2
      <3>4. QED
        BY <2>5, <3>2, <3>3 DEF Shaped
    <2>11. ASSUME IsBlock(data)
           PROVE  /\ Len(k) >= 4 /\ Len(k) < Len(b) /\ b[Len(k) + 1].kind = "trailer"
                  /\ \A i \in 2..Len(k) : k[i] \in {b[i], Zero} /\ (~late => k[i] = b[i])
      <3>1. /\ Len(k) = Count(f) - 1
            /\ \A i \in 2..Len(k) : i \in 1..Len(data) /\ k[i] = data[i]
        BY <2>9, <2>11 DEF k
      <3>2. Len(k) >= 4 /\ Len(k) < Len(b) /\ Len(k) + 1 = Count(f)
        BY <2>4, <2>10, <3>1
      <3>3. QED
        BY <2>2, <2>10, <3>1, <3>2
    <2>12. ASSUME ~late, Len(b) <= 5 * level + 8
           PROVE  IsBlock(data)
      <3>1. ASSUME Len(data) < Wanted PROVE FALSE
        <4>1. Len(data) + 1 \in 1..Len(b) /\ Len(data) + 1 \in 1..SlotWords
          BY <2>4, <2>6, <2>7, <3>1
        <4>2. AtTIPpd = b[Len(data) + 1]
          BY <2>3, <2>12, <4>1 DEF AtTIPpd
        <4>3. AtTIPpd.kind = "trailer" /\ AtTIPpd.n = Len(data)
          BY <1>1, <3>1 DEF Complete
        <4>4. AtTIPpd.n = Len(data) + 1
          BY <2>10, <4>1, <4>2, <4>3
        <4>5. QED
          BY <2>6, <4>3, <4>4
      <3>2. Len(data) = Len(b)
        BY <2>2, <2>6, <2>7, <2>12, <3>1
      <3>3. QED
        BY <2>2, <2>9, <2>12, <3>2
    <2>13. QED
      BY <2>1, <2>11, <2>12
  <1> HIDE DEF t, b, k
  <1>6. Returned'
    <2>1. late' = late /\ level' = level /\ lost' = lost /\ served' = served + 1
            /\ blocks' = blocks
      BY <1>1, <1>3
    <2>2. InTime(served)' <=> InTime(served + 1)
      BY <2>1 DEF InTime
    <2>3. bank' = IF IsBlock(data) THEN k ELSE Rejected
      BY <1>1 DEF k
    <2>4. ASSUME (bank # Rejected)', InTime(served + 1)
          PROVE  (\E a \in served - lost..served : MadeOf(a) /\ (~late => Whole(a)))'
      <3>1. IsBlock(data) /\ bank' = k
        BY <2>3, <2>4 DEF Rejected
      <3>2. PICK a \in 1..Len(blocks) : a = t
        BY <1>5, <2>4
      <3>3. /\ a \in served + 1 - lost..served + 1
            /\ Len(k) < Len(b) /\ b[Len(k) + 1].kind = "trailer"
            /\ \A i \in 2..Len(k) : k[i] \in {b[i], Zero} /\ (~late => k[i] = b[i])
        BY <1>5, <2>4, <3>1, <3>2
      <3>4. blocks'[a] = b
        BY <2>1, <3>2 DEF b
      <3>5. MadeOf(a)' /\ (~late => Whole(a))'
        BY <2>1, <3>1, <3>2, <3>3, <3>4 DEF MadeOf, Whole
      <3>6. a \in served' - lost'..served'
        BY <1>2, <2>1, <3>3
      <3>7. QED
        BY <3>5, <3>6
    <2>5. ASSUME ~late, Len(blocks[served + 1]) <= 5 * level + 8
          PROVE  (bank # Rejected)'
      <3>1. InTime(served + 1)
        BY <2>5 DEF InTime
      <3>2. b = blocks[served + 1]
        BY <1>5, <2>5, <3>1 DEF b
      <3>3. IsBlock(data) /\ Len(k) >= 4
        BY <1>5, <2>5, <3>1, <3>2
      <3>4. bank' = k /\ Len(<<>>) = 0
        BY <2>3, <3>3
      <3>5. k # <<>>
        BY <3>3, <3>4
      <3>6. QED
        BY <3>4, <3>5 DEF Rejected
    <2>6. QED
      BY <2>1, <2>2, <2>4, <2>5 DEF Returned
  <1>7. QED
    BY <1>3, <1>4, <1>6 DEF Kept

LEMMA KeptInductive == Kept /\ [Next]_vars => Kept'
  <1> SUFFICES ASSUME Kept, [Next]_vars PROVE Kept'
    OBVIOUS
  <1>1. Inv'
    BY Inductive DEF Kept
  <1>2. CASE UNCHANGED vars
    BY <1>1, <1>2 DEF vars, board, reader, Kept, Came, Filled, Holds, Here, Touched, Copying,
       Wanted, Smaller, Turn, InTime, Returned, MadeOf, Whole
  <1>3. QED
    BY <1>1, <1>2, AnnounceKeeps, LandKeeps, CallKeeps, LookKeeps, GiveUpKeeps, CopyKeeps,
       LeaveKeeps DEF Next

LEMMA KeptStart == Init => Inv /\ Kept
  <1> SUFFICES ASSUME Init PROVE Inv /\ Kept
    OBVIOUS
  <1> USE RingAssumption DEF RingAssumption, Init
  <1>1. Inv
    BY Start
  <1>2. Came
    BY DEF Came
  <1>3. Touched = 0
    BY DEF Touched
  <1>4. Filled
    BY <1>3 DEF Filled
  <1>5. Copying /\ Returned
    BY DEF Copying, Returned
  <1>6. QED
    BY <1>1, <1>2, <1>4, <1>5 DEF Kept

\* Whatever the ring, the blocks and their delays: every variable has its type, and
\* the strengthening holds that the other properties rest on.
THEOREM RingCorrect == Spec => [](TypeOK /\ Kept)
  <1>1. Kept => TypeOK
    <2> SUFFICES ASSUME Kept PROVE TypeOK
      OBVIOUS
    <2>1. Slots \in Nat \ {0} /\ MaxBlocks \in Nat
      BY RingAssumption DEF RingAssumption
    <2>2. /\ served \in Nat /\ lost \in 0..served /\ misses \in Nat /\ misses <= lost
          /\ Len(blocks) \in Nat /\ served <= Len(blocks) /\ Len(blocks) <= MaxBlocks
          /\ bump \in 0..Slots - 1 /\ ptr = bump + misses
      BY DEF Kept, Inv, Slotted, Positions, InStep, Came, Copying
    <2>3. /\ landed.whole \in Nat /\ landed.words \in Int /\ landed.words >= -1
          /\ landed.whole <= Len(blocks) /\ landed.words <= SlotWords - 1
          /\ SlotWords \in Nat
      BY RingAssumption DEF Kept, Inv, Slotted, Came, RingAssumption
    <2>4. /\ late \in BOOLEAN /\ level \in KnownLevels
          /\ \A s \in 0..Slots - 1 : memory[s].count \in 0..SlotWords
          /\ pc \in {"idle", "look", "copy", "outside"} /\ wCnt \in 0..SlotWords
      BY DEF Kept, Came, Filled, Copying
    <2>5. ptr \in 0..Slots - 1 + MaxBlocks /\ misses \in 0..lost
      BY <2>1, <2>2
    <2>6. served \in 0..Len(blocks) /\ landed.whole \in 0..Len(blocks)
            /\ landed.words \in -1..SlotWords - 1
      BY <2>2, <2>3
    <2>7. Len(data) \in 0..SlotWords
      <3>1. Len(data) \in Nat /\ (pc # "copy" => Len(data) = 0)
        BY DEF Kept, Inv, Seen
      <3>2. pc = "copy" => Len(data) <= wCnt
        <4> SUFFICES ASSUME pc = "copy" PROVE Len(data) <= wCnt
          OBVIOUS
        <4>1. Len(data) <= Wanted
          BY DEF Kept, Copying
        <4>2. wCnt \in Nat /\ level \in Nat
          BY DEF Kept, Inv, Seen, Positions
        <4>3. QED
          BY <3>1, <4>1, <4>2 DEF Wanted, Smaller
      <3>3. QED
        BY <2>3, <2>4, <3>1, <3>2
    <2>8. QED
      BY <2>2, <2>4, <2>5, <2>6, <2>7 DEF TypeOK
  <1>2. QED
    BY <1>1, KeptStart, KeptInductive, PTL DEF Spec

\* For any ring and any block lengths: when blocks are in memory before they are
\* announced, a bank is the block that the read was for, word for word, however
\* many laps round.
THEOREM ReadsRightBlock == Spec => []RightBlock
  <1>1. Kept => RightBlock
    <2> SUFFICES ASSUME Kept, bank # Rejected, ~late PROVE Whole(served)
      BY DEF RightBlock
    <2>1. InTime(served) /\ lost = 0 /\ served \in Nat
      BY DEF InTime, Kept, Came, Inv, Positions
    <2>2. PICK b \in served - lost..served : Whole(b)
      BY <2>1 DEF Kept, Returned
    <2>3. b = served
      BY <2>1, <2>2
    <2>4. QED
      BY <2>2, <2>3
  <1>2. QED
    BY <1>1, RingCorrect, PTL

\* A block that is in memory when it is announced, and no longer than the library
\* expects, is returned, lap after lap.
THEOREM ReturnsBlocks == Spec => []NothingLost
  <1>1. Kept => NothingLost
    BY DEF Kept, Returned, NothingLost
  <1>2. QED
    BY <1>1, RingCorrect, PTL

\* In the first lap a bank is of one block, with zeros where its words came too late
\* to be copied, and that block is as many reads old at most as reads have given up,
\* if those and the blocks that may be ready fit in the ring.
THEOREM BehindAtMost == Spec => []BehindByGiveUps
  <1>1. Kept => BehindByGiveUps
    BY DEF Kept, Returned, BehindByGiveUps, InTime
  <1>2. QED
    BY <1>1, RingCorrect, PTL

=============================================================================
