--------------------------- MODULE TipFifoProofs ---------------------------
(***************************************************************************)
(* Proofs about TipFifo, for any block levels, formats and number of       *)
(* retries, and event words that may look like headers but, by             *)
(* FifoAssumption, not like a trailer: nothing in the code sees to that.   *)
(* The words of the FIFO are laid out in blocks; the reader's data are,    *)
(* but for the words read from an empty FIFO, a piece of them that starts  *)
(* where a block starts, once the parser is past the bank header; so a     *)
(* trailer that counts the words of data is the trailer of that block, and *)
(* no word was read from an empty FIFO.                                    *)
(***************************************************************************)
EXTENDS TipFifo, TipBankProofs

Formats == BlockLevels \X EventWords \X DataKinds

\* block n is in t, after its first s words
Placed(t, n, f, s) ==
  LET b == Block(n, f[1], f[2], f[3])
  IN /\ s + Len(b) <= Len(t)
     /\ \A q \in 1..Len(b) : t[s + q] = b[q]

\* Each word of the stream is in its place in a block that is there as a whole;
\* the blocks are in order, and none is missing.
Laid ==
  /\ stream \in Seq(Words)
  /\ announced \in 0..MaxBlocks
  /\ \A i \in 1..Len(stream) :
       /\ stream[i].blk \in 1..announced /\ stream[i].pos \in 1..i
       /\ \E f \in Formats :
            /\ stream[i].pos \in 1..Len(Block(stream[i].blk, f[1], f[2], f[3]))
            /\ Placed(stream, stream[i].blk, f, i - stream[i].pos)
  /\ \A i, j \in 1..Len(stream) :
       /\ i < j => stream[i].blk <= stream[j].blk
       /\ stream[i].blk = stream[j].blk => i - stream[i].pos = j - stream[j].pos
  /\ \A n \in 1..announced :
       \E j \in 1..Len(stream) : stream[j].kind = "trailer" /\ stream[j].blk = n

\* The blocks ready are those whose trailer has not been taken.
Counted ==
  /\ taken \in Nat /\ arrived \in Nat /\ taken <= arrived /\ arrived <= Len(stream)
  /\ late \in BOOLEAN /\ (~late => arrived = Len(stream))
  /\ ready \in 0..announced
  /\ \A j \in 1..Len(stream) :
       stream[j].kind = "trailer" => (j <= taken <=> stream[j].blk <= announced - ready)

\* The reader's variables; what it counts down has not come to its end.
Local ==
  /\ pc \in {"idle", "header", "bank", "event", "words", "trailer", "filler",
             "check", "failed"}
  /\ data \in Seq(Words) /\ events \in Nat /\ words \in Nat
  /\ tried \in 0..MaxTries + 1
  /\ pc = "event" => events > 0 /\ tried <= MaxTries
  /\ pc = "words" => events > 0 /\ words > 0 /\ tried <= MaxTries
  /\ pc \in {"idle", "header"} => data = <<>>
  /\ pc \in {"idle", "header", "bank"} => tried = 0
  /\ bank \in Seq(Items) /\ banks \in Seq(1..announced)

\* Of the words of data, those that the FIFO had are the ones from s to e.
Follows(s, e) ==
  /\ s < e /\ e <= taken
  /\ stream[s + 1].pos = 1 /\ data[1] = stream[s + 1]
  /\ e - s <= Len(data)
  /\ e - s = Len(data) => \A i \in 1..Len(data) : data[i] = stream[s + i]
  /\ \A i \in DOMAIN banks : banks[i] < stream[s + 1].blk

\* Past the bank header the data start where a block starts.
Segment ==
  /\ pc = "bank" =>
       /\ taken > 0 /\ Len(data) = 1
       /\ data[1].kind = "header" /\ data[1] = stream[taken]
  /\ pc \in {"event", "words", "trailer"} => \E s \in Nat : Follows(s, taken)
  /\ pc = "check" /\ Len(data) <= 1 => Len(data) = 1 /\ data[1].kind # "header"
  /\ (pc = "filler" \/ (pc = "check" /\ Len(data) > 1)) =>
       \E s \in Nat, e \in Nat :
         /\ Follows(s, e) /\ Len(data) > 1
         /\ data[Len(data)] = stream[e] /\ stream[e].kind = "trailer"

\* What is still to come is later than every block returned.
Order ==
  /\ BanksInOrder
  /\ \A j \in (IF pc = "bank" THEN taken ELSE taken + 1)..Len(stream) :
       \A i \in DOMAIN banks :
         /\ banks[i] <= stream[j].blk
         /\ banks[i] = stream[j].blk => stream[j].pos > 1

Inv == Laid /\ Counted /\ Local /\ Segment /\ Order /\ BankIsOneBlock

\* With the words in time, the parser is where the block has it.
InPlace(f) ==
  /\ pc = "bank" => Len(data) = 1
  /\ pc = "event" =>
       \E k \in 0..f[1] - 1 : Len(data) = 2 + k * (f[2] + 1) /\ events = f[1] - k
  /\ pc = "words" =>
       /\ words <= f[2]
       /\ \E k \in 0..f[1] - 1 :
            Len(data) = 3 + k * (f[2] + 1) + (f[2] - words) /\ events = f[1] - k
  /\ pc = "trailer" => Len(data) = Count(f) - 1
  /\ pc \in {"filler", "check"} => Len(data) = Count(f)
  /\ pc = "filler" => Count(f) % 2 = 1

InBlock(f, s, n) ==
  /\ Placed(stream, n, f, s) /\ InPlace(f) /\ pc # "failed"
  /\ Len(data) > 0
  /\ \A i \in 1..Len(data) : data[i] = stream[s + i]
  /\ taken = IF pc = "check" THEN s + Size(f) ELSE s + Len(data)
  /\ n = IF pc \in {"filler", "check"} THEN announced - ready ELSE announced - ready + 1
  /\ banks = [i \in 1..n - 1 |-> i]

Exact ==
  ~late =>
    IF pc \in {"idle", "header"}
      THEN /\ taken < Len(stream) => stream[taken + 1].pos = 1
           /\ pc = "header" => ready > 0
           /\ banks = [i \in 1..announced - ready |-> i]
      ELSE \E f \in Formats, s \in Nat, n \in 1..announced : InBlock(f, s, n)

-----------------------------------------------------------------------------
(* A block *)

LEMMA FormatsAreLayouts == Formats \subseteq Layouts
  BY FifoAssumption DEF FifoAssumption, Formats, Layouts

LEMMA Formatted ==
  ASSUME NEW f \in Formats
  PROVE  /\ f[1] \in Nat \ {0} /\ f[2] \in Nat \ {0} /\ f[3] \in {"data", "header", "event"}
         /\ Count(f) \in Nat /\ Count(f) >= 5
         /\ Size(f) \in Nat /\ Size(f) \in {Count(f), Count(f) + 1}
  BY FormatsAreLayouts, LayoutIs

LEMMA BlockIs ==
  ASSUME NEW n \in Nat, NEW f \in Formats
  PROVE  Shaped(Block(n, f[1], f[2], f[3]), n, f)
  BY FormatsAreLayouts, BlockShape

-----------------------------------------------------------------------------
(* The stream of words *)

\* What a word of the stream says of itself, and of those before it.
LEMMA StreamIs ==
  ASSUME Laid, NEW i \in 1..Len(stream)
  PROVE  /\ stream[i] \in Words /\ stream[i].kind # "empty"
         /\ stream[i].pos = 1 => stream[i].kind = "header"
         /\ stream[i].kind = "bank" <=> stream[i].pos = 2
         /\ stream[i].kind = "trailer" => stream[i].n = stream[i].pos /\ stream[i].pos >= 5
         /\ stream[i].kind \in {"bank", "event"} => stream[i].n > 0
         /\ \A p \in 1..stream[i].pos :
              /\ i - stream[i].pos + p \in 1..Len(stream)
              /\ stream[i - stream[i].pos + p].pos = p
              /\ stream[i - stream[i].pos + p].blk = stream[i].blk
         /\ \A j \in 1..Len(stream) :
              stream[i].kind = "trailer" /\ stream[j].kind = "trailer"
                /\ stream[i].blk = stream[j].blk => i = j
  <1>1. /\ stream[i] \in Words /\ stream[i].blk \in Nat /\ stream[i].pos \in Nat
        /\ i \in Nat /\ Len(stream) \in Nat
    BY WordOf DEF Laid
  <1>2. \A k \in 1..Len(stream) : \E f \in Formats :
            /\ stream[k].pos \in 1..Len(Block(stream[k].blk, f[1], f[2], f[3]))
            /\ Placed(stream, stream[k].blk, f, k - stream[k].pos)
    BY DEF Laid
  <1>3. PICK f \in Formats :
            /\ stream[i].pos \in 1..Len(Block(stream[i].blk, f[1], f[2], f[3]))
            /\ Placed(stream, stream[i].blk, f, i - stream[i].pos)
    BY <1>2
  <1> DEFINE b == Block(stream[i].blk, f[1], f[2], f[3])
             s == i - stream[i].pos
  <1>4. /\ f[1] \in Nat \ {0} /\ f[2] \in Nat \ {0}
        /\ Count(f) \in Nat /\ Count(f) >= 5 /\ Size(f) \in {Count(f), Count(f) + 1}
    BY Formatted
  <1> HIDE DEF b
  <1>5. /\ b \in Seq(Words) /\ Len(b) = Size(f)
        /\ \A q \in 1..Len(b) :
              /\ b[q].blk = stream[i].blk /\ b[q].pos = q
              /\ b[q].kind # "empty"
              /\ q = 1 => b[q].kind = "header" /\ b[q].n = f[1]
              /\ b[q].kind = "bank" <=> q = 2
              /\ b[q].kind = "bank" => b[q].n = f[1]
              /\ b[q].kind = "trailer" <=> q = Count(f)
              /\ b[q].kind = "trailer" => b[q].n = q
              /\ b[q].kind = "event" => b[q].n = f[2]
    <2>1. Shaped(b, stream[i].blk, f)
      BY <1>1, BlockIs DEF b
    <2>2. QED
      BY <2>1 DEF Shaped
  <1>6. /\ s \in Nat /\ stream[i].pos \in 1..Len(b) /\ s + Len(b) <= Len(stream)
        /\ \A q \in 1..Len(b) : stream[s + q] = b[q]
    <2>1. stream[i].pos \in 1..i /\ i \in Nat
      BY <1>1 DEF Laid
    <2>2. QED
      BY <1>3, <2>1 DEF Placed, b
  <1>7. stream[i] = b[stream[i].pos] /\ s + stream[i].pos = i
    BY <1>1, <1>6
  <1>8. \A p \in 1..stream[i].pos :
              /\ s + p \in 1..Len(stream)
              /\ stream[s + p].pos = p
              /\ stream[s + p].blk = stream[i].blk
    <2> TAKE p \in 1..stream[i].pos
    <2>1. p \in 1..Len(b)
      BY <1>1, <1>4, <1>5, <1>6
    <2>2. s + p \in 1..Len(stream)
      <3>1. s + p <= i /\ s + p >= 1 /\ s + p \in Nat
        <4>1. s \in Nat /\ stream[i].pos \in Nat /\ s + stream[i].pos = i
          BY <1>1, <1>6, <1>7
        <4> HIDE DEF s
        <4>2. QED
          BY <4>1
      <3>2. i <= Len(stream) /\ Len(stream) \in Nat
        BY WordOf DEF Laid
      <3>3. QED
        BY <3>1, <3>2
    <2>3. stream[s + p] = b[p]
      BY <1>6, <2>1
    <2>4. QED
      BY <1>5, <2>1, <2>2, <2>3
  <1>9. ASSUME NEW j \in 1..Len(stream), stream[i].kind = "trailer",
               stream[j].kind = "trailer", stream[i].blk = stream[j].blk
        PROVE  i = j
    <2>1. PICK g \in Formats :
            /\ stream[j].pos \in 1..Len(Block(stream[j].blk, g[1], g[2], g[3]))
            /\ Placed(stream, stream[j].blk, g, j - stream[j].pos)
      BY <1>2
    <2> DEFINE c == Block(stream[j].blk, g[1], g[2], g[3])
    <2>2. stream[j].pos \in Nat /\ i - stream[i].pos = j - stream[j].pos
      BY <1>9, WordOf DEF Laid
    <2>3. /\ c \in Seq(Words) /\ Len(c) = Size(g)
          /\ Count(g) \in Nat /\ Count(g) >= 5 /\ Size(g) \in {Count(g), Count(g) + 1}
          /\ \A q \in 1..Len(c) : c[q].pos = q /\ (c[q].kind = "trailer" <=> q = Count(g))
      <3>1. stream[j].blk \in Nat
        BY WordOf DEF Laid
      <3>2. /\ Count(g) \in Nat /\ Count(g) >= 5 /\ Size(g) \in {Count(g), Count(g) + 1}
        BY Formatted
      <3>3. /\ c \in Seq(Words) /\ Len(c) = Size(g)
            /\ \A q \in 1..Len(c) : c[q].pos = q /\ (c[q].kind = "trailer" <=> q = Count(g))
        <4>1. Shaped(c, stream[j].blk, g)
          BY <3>1, BlockIs
        <4>2. QED
          BY <4>1 DEF Shaped
      <3>4. QED
        BY <3>2, <3>3
    <2>4. /\ stream[j].pos \in 1..Len(c)
          /\ \A q \in 1..Len(c) : stream[s + q] = c[q]
      BY <2>1, <2>2 DEF Placed
    <2> HIDE DEF c
    <2>5. stream[j] = c[stream[j].pos]
      <3>1. s + stream[j].pos = j
        BY <1>1, <2>2
      <3>2. QED
        BY <2>4, <3>1
    <2>6. stream[i].pos = Count(f) /\ stream[j].pos = Count(g)
      <3>1. stream[i].pos = Count(f)
        BY <1>5, <1>6, <1>7, <1>9
      <3>2. stream[j].pos = Count(g)
        BY <1>9, <2>3, <2>4, <2>5
      <3>3. QED
        BY <3>1, <3>2
    <2>7. CASE Count(f) \in 1..Len(c)
      <3>1. stream[i] = c[stream[i].pos]
        BY <1>7, <2>4, <2>6, <2>7
      <3>2. QED
        BY <1>1, <1>9, <2>2, <2>3, <2>6, <2>7, <3>1
    <2>8. CASE Count(g) \in 1..Len(b)
      <3>1. stream[j] = b[stream[j].pos]
        <4>1. s + stream[j].pos = j
          BY <1>1, <2>2
        <4>2. QED
          BY <1>6, <2>6, <2>8, <4>1
      <3>2. Count(f) = Count(g)
        BY <1>5, <1>9, <2>6, <2>8, <3>1
      <3>3. QED
        BY <1>1, <2>2, <2>6, <3>2
    <2>9. QED
      BY <1>4, <1>5, <2>3, <2>7, <2>8
  <1>10. QED
    <2> DEFINE p == stream[i].pos
    <2>1. /\ p \in 1..Len(b) /\ stream[i] = b[p]
      BY <1>6, <1>7
    <2> HIDE DEF p
    <2>2. /\ b[p].kind # "empty"
          /\ p = 1 => b[p].kind = "header"
          /\ b[p].kind = "bank" <=> p = 2
          /\ b[p].kind = "bank" => b[p].n = f[1]
          /\ b[p].kind = "trailer" <=> p = Count(f)
          /\ b[p].kind = "trailer" => b[p].n = p
          /\ b[p].kind = "event" => b[p].n = f[2]
      BY <1>5, <2>1
    <2>3. /\ stream[i].kind # "empty"
          /\ p = 1 => stream[i].kind = "header"
          /\ stream[i].kind = "bank" <=> p = 2
          /\ stream[i].kind = "trailer" => stream[i].n = p /\ p >= 5
          /\ stream[i].kind \in {"bank", "event"} => stream[i].n > 0
      BY <1>4, <2>1, <2>2
    <2>4. QED
      BY <1>1, <1>8, <1>9, <2>3 DEF p

\* The board appends a whole block.
LEMMA AnnounceLays ==
  ASSUME Laid, Announce
  PROVE  /\ Laid'
         /\ Len(stream') > Len(stream)
         /\ \A i \in 1..Len(stream) : stream'[i] = stream[i]
         /\ \A i \in Len(stream) + 1..Len(stream') :
              /\ stream'[i].blk = announced + 1
              /\ stream'[i].pos = i - Len(stream)
  <1>1. PICK level \in BlockLevels, w \in EventWords, kind \in DataKinds :
          stream' = stream \o Block(announced + 1, level, w, kind)
    BY DEF Announce
  <1> DEFINE f == <<level, w, kind>>
             n == announced + 1
             b == Block(n, f[1], f[2], f[3])
             z == Len(stream)
  <1>2. f \in Formats
    BY DEF Formats
  <1>3. n \in Nat /\ n \in 1..MaxBlocks /\ announced' = n /\ announced \in Nat
    BY FifoAssumption DEF FifoAssumption, Announce, Laid
  <1>4. /\ b \in Seq(Words) /\ Len(b) = Size(f)
        /\ Count(f) \in Nat /\ Count(f) >= 5 /\ Size(f) \in {Count(f), Count(f) + 1}
        /\ \A q \in 1..Len(b) :
              /\ b[q].blk = n /\ b[q].pos = q
              /\ b[q].kind = "trailer" <=> q = Count(f)
    <2> HIDE DEF f, n
    <2>1. /\ b \in Seq(Words) /\ Len(b) = Size(f)
          /\ \A q \in 1..Len(b) :
                /\ b[q].blk = n /\ b[q].pos = q
                /\ b[q].kind = "trailer" <=> q = Count(f)
      BY <1>2, <1>3, BlockIs DEF Shaped
    <2>2. QED
      BY <1>2, <2>1, Formatted
  <1>5. stream' = stream \o b
    BY <1>1
  <1> HIDE DEF b, f, n
  <1>6. stream \in Seq(Words) /\ z \in Nat
    BY DEF Laid
  <1>7. /\ stream' \in Seq(Words)
        /\ Len(stream') = z + Len(b) /\ Len(b) \in Nat /\ Len(b) >= 5
        /\ \A i \in 1..z : stream'[i] = stream[i]
        /\ \A q \in 1..Len(b) : stream'[z + q] = b[q]
    <2>1. Len(b) >= 5 /\ z = Len(stream)
      BY <1>4
    <2> HIDE DEF z
    <2>2. QED
      BY <1>4, <1>5, <1>6, <2>1, Joined
  <1>8. \A i \in z + 1..Len(stream') :
          stream'[i] = b[i - z] /\ stream'[i].blk = n /\ stream'[i].pos = i - z
            /\ i - z \in 1..Len(b)
    <2> SUFFICES ASSUME NEW i \in z + 1..Len(stream')
                 PROVE  /\ stream'[i] = b[i - z] /\ stream'[i].blk = n /\ stream'[i].pos = i - z
                        /\ i - z \in 1..Len(b)
      OBVIOUS
    <2>0. z \in Nat /\ Len(stream') = z + Len(b) /\ Len(b) \in Nat /\ z + 1 \in Nat /\ z + Len(b) \in Nat
      BY <1>6, <1>7
    <2> HIDE DEF z
    <2>1. PICK q \in Int : q = i - z
      BY <2>0
    <2>2. q \in 1..Len(b) /\ z + q = i
      BY <2>0, <2>1
    <2>3. stream'[i] = b[q] /\ b[q].blk = n /\ b[q].pos = q
      BY <1>4, <1>7, <2>2
    <2>4. QED
      BY <2>1, <2>2, <2>3
  <1>9. ASSUME NEW k \in Nat, NEW g \in Formats, NEW s \in Nat, Placed(stream, k, g, s)
        PROVE  Placed(stream', k, g, s)
    <2> DEFINE c == Block(k, g[1], g[2], g[3])
    <2>1. c \in Seq(Words)
      BY BlockIs DEF Shaped
    <2>2. s + Len(c) <= z /\ \A q \in 1..Len(c) : stream[s + q] = c[q]
      BY <1>9 DEF Placed
    <2>3. s + Len(c) <= Len(stream') /\ \A q \in 1..Len(c) : stream'[s + q] = c[q]
      <3> HIDE DEF c
      <3>1. Len(c) \in Nat
        BY <2>1
      <3>2. \A q \in 1..Len(c) : s + q \in 1..z
        BY <1>6, <2>2, <3>1
      <3>3. QED
        BY <1>6, <1>7, <2>2, <3>1, <3>2
    <2>4. QED
      BY <2>3 DEF Placed
  <1>10. Placed(stream', n, f, z)
    <2>1. z + Len(b) <= Len(stream') /\ \A q \in 1..Len(b) : stream'[z + q] = b[q]
      BY <1>6, <1>7
    <2>2. QED
      BY <2>1 DEF Placed, b
  <1>11. \A i \in 1..Len(stream') : i \in 1..z \/ i \in z + 1..Len(stream')
    BY <1>6, <1>7
  <1>12. \A i \in 1..z : stream[i].blk \in 1..announced /\ stream[i].pos \in 1..i
    BY DEF Laid
  <1>13. ASSUME NEW i \in 1..Len(stream')
         PROVE  /\ stream'[i].blk \in 1..n /\ stream'[i].pos \in 1..i
                /\ \E g \in Formats :
                     /\ stream'[i].pos \in 1..Len(Block(stream'[i].blk, g[1], g[2], g[3]))
                     /\ Placed(stream', stream'[i].blk, g, i - stream'[i].pos)
    <2>1. CASE i \in 1..z
      <3>1. stream'[i] = stream[i]
        BY <1>7, <2>1
      <3>2. PICK g \in Formats :
              /\ stream[i].pos \in 1..Len(Block(stream[i].blk, g[1], g[2], g[3]))
              /\ Placed(stream, stream[i].blk, g, i - stream[i].pos)
        BY <2>1 DEF Laid
      <3>3. i - stream[i].pos \in Nat /\ stream[i].blk \in Nat
        BY <1>12, <2>1
      <3>4. Placed(stream', stream[i].blk, g, i - stream[i].pos)
        BY <1>9, <3>2, <3>3
      <3>5. stream'[i].blk \in 1..n /\ stream'[i].pos \in 1..i
        BY <1>3, <1>12, <2>1, <3>1 DEF n
      <3>6. /\ stream'[i].pos \in 1..Len(Block(stream'[i].blk, g[1], g[2], g[3]))
            /\ Placed(stream', stream'[i].blk, g, i - stream'[i].pos)
        BY <3>1, <3>2, <3>4
      <3>7. QED
        BY <3>5, <3>6
    <2>2. CASE i \in z + 1..Len(stream')
      <3>1. stream'[i].blk = n /\ stream'[i].pos = i - z /\ i - z \in 1..Len(b)
        BY <1>8, <2>2
      <3>2. i - stream'[i].pos = z /\ i - z \in 1..i
        BY <1>6, <2>2, <3>1
      <3>3. /\ stream'[i].pos \in 1..Len(Block(stream'[i].blk, f[1], f[2], f[3]))
            /\ Placed(stream', stream'[i].blk, f, i - stream'[i].pos)
        BY <1>10, <3>1, <3>2 DEF b
      <3>4. stream'[i].blk \in 1..n /\ stream'[i].pos \in 1..i
        BY <1>3, <3>1, <3>2
      <3>5. QED
        BY <1>2, <3>3, <3>4
    <2>3. QED
      BY <1>11, <2>1, <2>2
  <1>14. ASSUME NEW i \in 1..Len(stream'), NEW j \in 1..Len(stream')
         PROVE  /\ i < j => stream'[i].blk <= stream'[j].blk
                /\ stream'[i].blk = stream'[j].blk => i - stream'[i].pos = j - stream'[j].pos
    <2>1. CASE i \in 1..z /\ j \in 1..z
      <3>1. /\ i < j => stream[i].blk <= stream[j].blk
            /\ stream[i].blk = stream[j].blk => i - stream[i].pos = j - stream[j].pos
        BY <2>1 DEF Laid
      <3>2. stream'[i] = stream[i] /\ stream'[j] = stream[j]
        BY <1>7, <2>1
      <3>3. QED
        BY <3>1, <3>2
    <2>2. CASE i \in 1..z /\ j \in z + 1..Len(stream')
      <3>1. stream'[i].blk \in 1..announced /\ stream'[j].blk = n
        BY <1>7, <1>8, <1>12, <2>2
      <3>2. QED
        BY <1>3, <3>1 DEF n
    <2>3. CASE i \in z + 1..Len(stream') /\ j \in 1..z
      <3>1. stream'[j].blk \in 1..announced /\ stream'[i].blk = n
        BY <1>7, <1>8, <1>12, <2>3
      <3>2. QED
        BY <1>3, <1>6, <2>3, <3>1 DEF n
    <2>4. CASE i \in z + 1..Len(stream') /\ j \in z + 1..Len(stream')
      <3>1. /\ stream'[i].blk = n /\ stream'[j].blk = n
            /\ stream'[i].pos = i - z /\ stream'[j].pos = j - z
        BY <1>8, <2>4
      <3>2. QED
        BY <1>3, <1>6, <2>4, <3>1
    <2>5. QED
      BY <1>11, <2>1, <2>2, <2>3, <2>4
  <1>15. ASSUME NEW k \in 1..n
         PROVE  \E j \in 1..Len(stream') : stream'[j].kind = "trailer" /\ stream'[j].blk = k
    <2>1. CASE k \in 1..announced
      <3>1. PICK j \in 1..z : stream[j].kind = "trailer" /\ stream[j].blk = k
        BY <2>1 DEF Laid
      <3>2. j \in 1..Len(stream') /\ stream'[j] = stream[j]
        BY <1>6, <1>7
      <3>3. QED
        BY <3>1, <3>2
    <2>2. CASE k = n
      <3>1. Count(f) \in 1..Len(b)
        BY <1>4
      <3>2. /\ z + Count(f) \in 1..Len(stream')
            /\ stream'[z + Count(f)] = b[Count(f)]
        BY <1>6, <1>7, <3>1
      <3>3. b[Count(f)].kind = "trailer" /\ b[Count(f)].blk = n
        BY <1>4, <3>1
      <3>4. QED
        BY <2>2, <3>2, <3>3
    <2>3. QED
      BY <1>3, <2>1, <2>2 DEF n
  <1>16. Laid'
    <2>1. announced' \in 0..MaxBlocks
      BY <1>3
    <2>2. QED
      BY <1>3, <1>7, <1>13, <1>14, <1>15, <2>1 DEF Laid
  <1>17. QED
    BY <1>3, <1>6, <1>7, <1>8, <1>16 DEF n
-----------------------------------------------------------------------------
(* Reading a word *)

\* The trailer read is that of the first block that is ready.
LEMMA TakeIs ==
  ASSUME Laid, Counted, Take
  PROVE  /\ Laid' /\ Counted'
         /\ stream' = stream /\ arrived' = arrived /\ announced' = announced /\ late' = late
         /\ Val \in Words
         /\ taken < arrived => taken + 1 \in 1..Len(stream) /\ Val = stream[taken + 1]
                                /\ taken' = taken + 1 /\ Val.kind # "empty"
         /\ ~(taken < arrived) => taken' = taken /\ Val.kind = "empty"
         /\ ready' = IF Val.kind = "trailer" THEN ready - 1 ELSE ready
         /\ taken \in Nat /\ taken' \in Nat
  <1>1. stream' = stream /\ arrived' = arrived /\ announced' = announced /\ late' = late
    BY DEF Take, board
  <1>2. Laid'
    BY <1>1 DEF Laid
  <1>3. /\ taken \in Nat /\ arrived \in Nat /\ arrived <= Len(stream) /\ Len(stream) \in Nat
        /\ announced \in Nat /\ ready \in 0..announced
    BY WordOf DEF Counted, Laid
  <1>4. taken < arrived => taken + 1 \in 1..Len(stream) /\ Val = stream[taken + 1]
    BY <1>3 DEF Val
  <1>5. ~(taken < arrived) => Val = Empty
    BY DEF Val
  <1>6. Empty \in Words /\ Empty.kind = "empty"
    BY DEF Empty, Word, Words, Kinds
  <1>7. taken < arrived => Val \in Words /\ Val.kind # "empty"
    BY <1>4, StreamIs
  <1>8. taken' = IF taken < arrived THEN taken + 1 ELSE taken
    BY DEF Take
  <1>9. ready' = IF Val.kind = "trailer" THEN ready - 1 ELSE ready
    BY DEF Take
  <1>10. Counted'
    <2>1. CASE Val.kind = "trailer"
      <3> DEFINE m == announced - ready
                 t == taken + 1
      <3>1. t \in 1..Len(stream) /\ Val = stream[t] /\ taken < arrived
        BY <1>4, <1>5, <1>6, <2>1
      <3>2. \A j \in 1..Len(stream) :
              stream[j].kind = "trailer" => (j <= taken <=> stream[j].blk <= m)
        BY DEF Counted
      <3>3. \A j \in 1..Len(stream) : stream[j].blk \in 1..announced
        BY DEF Laid
      <3>4. m \in Nat /\ m < announced
        <4>1. stream[t].blk > m /\ stream[t].blk <= announced
          BY <1>3, <2>1, <3>1, <3>2, <3>3
        <4>2. QED
          BY <1>3, <3>1, <3>3, <4>1
      <3>5. stream[t].blk = m + 1
        <4>1. PICK j \in 1..Len(stream) : stream[j].kind = "trailer" /\ stream[j].blk = m + 1
          <5>1. m + 1 \in 1..announced
            BY <1>3, <3>4
          <5>2. QED
            BY <5>1 DEF Laid
        <4>2. j >= t
          BY <1>3, <3>2, <3>4, <4>1
        <4>3. stream[t].blk <= stream[j].blk
          BY <1>3, <3>1, <3>3, <4>1, <4>2 DEF Laid
        <4>4. stream[t].blk > m
          BY <1>3, <2>1, <3>1, <3>2, <3>3
        <4>5. QED
          BY <3>1, <3>3, <3>4, <4>1, <4>3, <4>4
      <3>6. \A j \in 1..Len(stream) :
              stream[j].kind = "trailer" => (j <= t <=> stream[j].blk <= m + 1)
        <4> SUFFICES ASSUME NEW j \in 1..Len(stream), stream[j].kind = "trailer"
                     PROVE  j <= t <=> stream[j].blk <= m + 1
          OBVIOUS
        <4>1. stream[j].blk = m + 1 => j = t
          BY <2>1, <3>1, <3>5, StreamIs
        <4>2. j <= taken <=> stream[j].blk <= m
          BY <3>2
        <4>3. stream[j].blk \in Nat
          BY <3>3
        <4>4. QED
          BY <1>3, <3>1, <3>4, <3>5, <4>1, <4>2, <4>3
      <3>7. announced - (ready - 1) = m + 1 /\ ready - 1 \in 0..announced
        BY <1>3, <3>4
      <3>8. taken' = t /\ ready' = ready - 1 /\ t \in Nat /\ t <= arrived
        BY <1>3, <1>8, <1>9, <2>1, <3>1
      <3>9. QED
        BY <1>1, <3>6, <3>7, <3>8 DEF Counted
    <2>2. CASE Val.kind # "trailer"
      <3>1. \A j \in 1..Len(stream) :
              stream[j].kind = "trailer" => (j <= taken' <=> j <= taken)
        BY <1>3, <1>4, <1>8, <2>2
      <3>2. taken' \in Nat /\ taken' <= arrived
        BY <1>3, <1>8 DEF Counted
      <3>3. QED
        BY <1>1, <1>9, <2>2, <3>1, <3>2 DEF Counted
    <2>3. QED
      BY <2>1, <2>2
  <1>11. QED
    BY <1>1, <1>2, <1>3, <1>4, <1>5, <1>6, <1>7, <1>8, <1>9, <1>10

LEMMA StoreIs ==
  ASSUME Laid, Counted, Store, data \in Seq(Words)
  PROVE  /\ data' \in Seq(Words) /\ Len(data') = Len(data) + 1 /\ Len(data) \in Nat
         /\ \A i \in 1..Len(data) : data'[i] = data[i]
         /\ data'[Len(data) + 1] = Val
  <1>1. data' = Append(data, Val) /\ Val \in Words
    BY TakeIs DEF Store
  <1>2. QED
    BY <1>1

LEMMA StoreFollows ==
  ASSUME Laid, Counted, Store, data \in Seq(Words), UNCHANGED banks,
         NEW s \in Nat, Follows(s, taken)
  PROVE  Follows(s, taken)'
  <1>1. Take
    BY DEF Store
  <1>2. /\ data' \in Seq(Words) /\ Len(data') = Len(data) + 1 /\ Len(data) \in Nat
        /\ \A i \in 1..Len(data) : data'[i] = data[i]
        /\ data'[Len(data) + 1] = Val
    BY StoreIs
  <1>3. /\ s < taken /\ stream[s + 1].pos = 1 /\ data[1] = stream[s + 1]
        /\ taken - s <= Len(data)
        /\ taken - s = Len(data) => \A i \in 1..Len(data) : data[i] = stream[s + i]
        /\ \A i \in DOMAIN banks : banks[i] < stream[s + 1].blk
    BY DEF Follows
  <1>4. /\ stream' = stream /\ taken \in Nat
        /\ \/ taken' = taken + 1 /\ Val = stream[taken + 1]
           \/ taken' = taken
    BY <1>1, TakeIs
  <1>5. s < taken' /\ data'[1] = stream[s + 1] /\ taken' - s <= Len(data')
    BY <1>2, <1>3, <1>4
  <1>6. ASSUME taken' - s = Len(data'), NEW i \in 1..Len(data')
        PROVE  data'[i] = stream[s + i]
    <2>1. taken' = taken + 1 /\ Val = stream[taken + 1] /\ taken - s = Len(data)
      BY <1>2, <1>3, <1>4, <1>6
    <2>2. CASE i \in 1..Len(data)
      BY <1>2, <1>3, <2>1, <2>2
    <2>3. CASE i = Len(data) + 1
      <3>1. s + i = taken + 1
        BY <1>2, <1>4, <2>1, <2>3
      <3>2. QED
        BY <1>2, <2>1, <2>3, <3>1
    <2>4. QED
      BY <1>2, <2>2, <2>3
  <1>7. QED
    BY <1>3, <1>4, <1>5, <1>6 DEF Follows
-----------------------------------------------------------------------------
(* What tipReadTriggerBlock accepts *)

\* The header is the first word of data, the trailer the last: so the count it
\* carries makes data the words of one block, from its first to its trailer.
LEMMA Accepted ==
  ASSUME Inv, pc = "check", IsBlock(data)
  PROVE  /\ Head1(data) = 1 /\ Trailer(data) = Len(data) /\ Len(data) \in Nat /\ Len(data) >= 5
         /\ \E s \in Nat :
              /\ s + Len(data) <= taken
              /\ stream[s + 1].pos = 1
              /\ \A i \in 1..Len(data) : data[i] = stream[s + i]
              /\ stream[s + Len(data)].kind = "trailer"
              /\ stream[s + Len(data)].pos = Len(data)
              /\ \A i \in DOMAIN banks : banks[i] < stream[s + 1].blk
  <1> DEFINE L == Len(data)
  <1>1. data \in Seq(Words) /\ L \in Nat /\ DOMAIN data = 1..L
    BY DEF Inv, Local
  <1>2. L > 1
    <2>1. ASSUME L <= 1 PROVE FALSE
      <3>1. L = 1 /\ data[1].kind # "header"
        BY <2>1 DEF Inv, Segment
      <3>2. At(data, "header") = {}
        BY <1>1, <3>1 DEF At
      <3>3. QED
        BY <3>2 DEF IsBlock
    <2>2. QED
      BY <1>1, <2>1
  <1>3. PICK s \in Nat, e \in Nat :
          Follows(s, e) /\ data[L] = stream[e] /\ stream[e].kind = "trailer"
    BY <1>2 DEF Inv, Segment
  <1>4. /\ s < e /\ e <= taken
        /\ stream[s + 1].pos = 1 /\ data[1] = stream[s + 1]
        /\ e - s <= L
        /\ e - s = L => \A i \in 1..L : data[i] = stream[s + i]
        /\ \A i \in DOMAIN banks : banks[i] < stream[s + 1].blk
    BY <1>3 DEF Follows
  <1>5. /\ taken \in Nat /\ Len(stream) \in Nat /\ e \in 1..Len(stream) /\ s + 1 \in 1..Len(stream)
    <2>1. taken \in Nat /\ arrived \in Nat /\ taken <= arrived /\ arrived <= Len(stream)
      BY DEF Inv, Counted
    <2>2. Len(stream) \in Nat
      BY WordOf DEF Inv, Laid
    <2>3. QED
      BY <1>4, <2>1, <2>2
  <1>6. stream[s + 1].kind = "header"
    BY <1>4, <1>5, StreamIs DEF Inv
  <1>7. Head1(data) = 1
    <2>1. 1 \in At(data, "header") /\ \A i \in At(data, "header") : i \in Nat /\ 1 <= i
      BY <1>1, <1>2, <1>4, <1>6 DEF At
    <2>2. QED
      BY <2>1 DEF Head1
  <1>8. Trailer(data) = L
    <2>1. L \in At(data, "trailer") /\ \A i \in At(data, "trailer") : i \in Nat /\ i <= L
      BY <1>1, <1>2, <1>3 DEF At
    <2>2. QED
      BY <1>1, <2>1 DEF Trailer
  <1>9. stream[e].pos = L /\ L >= 5
    <2>1. Trailer(data) - Head1(data) + 1 = data[Trailer(data)].n
      BY DEF IsBlock, Consistent
    <2>2. stream[e].n = L
      BY <1>1, <1>3, <1>7, <1>8, <2>1
    <2>3. stream[e].n = stream[e].pos /\ stream[e].pos >= 5
      BY <1>3, <1>5, StreamIs DEF Inv
    <2>4. QED
      BY <2>2, <2>3
  <1>10. e - s = L
    <2> DEFINE p == s + 1 - (e - L)
    <2>1. p \in 1..L /\ e - L + p = s + 1
      BY <1>1, <1>4, <1>5
    <2>2. \A q \in 1..stream[e].pos : stream[e - stream[e].pos + q].pos = q
      BY <1>5, StreamIs DEF Inv
    <2>3. stream[e - L + p].pos = p
      BY <1>9, <2>1, <2>2
    <2>4. p = 1
      BY <1>4, <2>1, <2>3
    <2>5. QED
      BY <1>1, <1>5, <2>4
  <1>11. s + L = e
    BY <1>1, <1>5, <1>10
  <1>12. QED
    BY <1>1, <1>3, <1>4, <1>5, <1>7, <1>8, <1>9, <1>10, <1>11

-----------------------------------------------------------------------------
(* The invariant *)

\* A step that stores a word and leaves the banks alone: the next pc decides
\* what is to be shown.
LEMMA StoreKeeps ==
  ASSUME Inv, Store, UNCHANGED <<bank, banks>>, pc # "idle", pc' # "bank"
  PROVE  /\ Laid' /\ Counted' /\ Order' /\ BankIsOneBlock'
         /\ bank' \in Seq(Items) /\ banks' \in Seq(1..announced')
  <1>1. Laid /\ Counted /\ Take
    BY DEF Inv, Store
  <1>2. Laid' /\ Counted' /\ stream' = stream /\ announced' = announced
    BY <1>1, TakeIs
  <1>3. taken \in Nat /\ taken' \in Nat /\ taken' >= taken /\ Len(stream) \in Nat
    <2>1. taken' = taken + 1 \/ taken' = taken
      BY <1>1, TakeIs
    <2>2. taken \in Nat /\ taken' \in Nat
      BY <1>1, TakeIs
    <2>3. Len(stream) \in Nat
      BY <1>1 DEF Laid
    <2>4. QED
      BY <2>1, <2>2, <2>3
  <1>4. Order'
    <2>1. BanksInOrder'
      BY DEF Inv, Order, BanksInOrder
    <2>2. \A j \in taken + 1..Len(stream) : \A i \in DOMAIN banks :
            /\ banks[i] <= stream[j].blk
            /\ banks[i] = stream[j].blk => stream[j].pos > 1
      <3>1. taken + 1..Len(stream) \subseteq (IF pc = "bank" THEN taken ELSE taken + 1)..Len(stream)
        BY <1>3
      <3>2. QED
        BY <3>1 DEF Inv, Order
    <2>3. taken' + 1..Len(stream) \subseteq taken + 1..Len(stream)
      BY <1>3
    <2>4. QED
      BY <1>2, <2>1, <2>2, <2>3 DEF Order
  <1>5. BankIsOneBlock'
    BY <1>2 DEF Inv, BankIsOneBlock
  <1>6. QED
    BY <1>2, <1>4, <1>5 DEF Inv, Local

\* The board only adds words.
LEMMA AnnounceKeeps == Inv /\ Announce => Inv'
  <1> SUFFICES ASSUME Inv, Announce PROVE Inv'
    OBVIOUS
  <1>1. /\ Laid' /\ Len(stream') > Len(stream)
        /\ \A i \in 1..Len(stream) : stream'[i] = stream[i]
        /\ \A i \in Len(stream) + 1..Len(stream') :
              stream'[i].blk = announced + 1 /\ stream'[i].pos = i - Len(stream)
    BY AnnounceLays DEF Inv
  <1>2. Len(stream) \in Nat /\ Len(stream') \in Nat
    BY <1>1, WordOf DEF Inv, Laid
  <1>3. /\ UNCHANGED <<late, taken, pc, data, events, words, tried, bank, banks>>
        /\ announced' = announced + 1 /\ ready' = ready + 1 /\ announced \in Nat
        /\ arrived' = IF late THEN arrived ELSE Len(stream')
    BY DEF Announce, reader, Inv, Laid
  <1>4. /\ taken \in Nat /\ arrived \in Nat /\ taken <= arrived /\ arrived <= Len(stream)
        /\ ready \in 0..announced
    BY DEF Inv, Counted
  <1>5. Counted'
    <2>1. \A j \in 1..Len(stream') :
            stream'[j].kind = "trailer" => (j <= taken <=> stream'[j].blk <= announced - ready)
      <3> SUFFICES ASSUME NEW j \in 1..Len(stream'), stream'[j].kind = "trailer"
                   PROVE  j <= taken <=> stream'[j].blk <= announced - ready
        OBVIOUS
      <3>1. CASE j \in 1..Len(stream)
        BY <1>1, <3>1 DEF Inv, Counted
      <3>2. CASE j \in Len(stream) + 1..Len(stream')
        BY <1>1, <1>2, <1>3, <1>4, <3>2
      <3>3. QED
        BY <1>2, <3>1, <3>2
    <2>2. announced' - ready' = announced - ready /\ ready' \in 0..announced'
      BY <1>3, <1>4
    <2>3. /\ taken' \in Nat /\ arrived' \in Nat /\ taken' <= arrived' /\ arrived' <= Len(stream')
          /\ late' \in BOOLEAN /\ (~late' => arrived' = Len(stream'))
      BY <1>1, <1>2, <1>3, <1>4 DEF Inv, Counted
    <2>4. QED
      BY <1>3, <2>1, <2>2, <2>3 DEF Counted
  <1>6. Local'
    <2>1. banks' \in Seq(1..announced')
      <3>1. banks \in Seq(1..announced) /\ 1..announced \subseteq 1..announced'
        BY <1>3 DEF Inv, Local
      <3>2. QED
        BY <1>3, <3>1
    <2>2. QED
      BY <1>3, <2>1 DEF Inv, Local
  <1>7. ASSUME NEW s \in Nat, NEW e \in Nat, Follows(s, e)
        PROVE  Follows(s, e)'
    <2>1. \A i \in 1..Len(data) : e - s = Len(data) => s + i \in 1..Len(stream)
      BY <1>2, <1>4, <1>7 DEF Follows
    <2>2. s + 1 \in 1..Len(stream)
      BY <1>2, <1>4, <1>7 DEF Follows
    <2>3. QED
      BY <1>1, <1>3, <1>7, <2>1, <2>2 DEF Follows
  <1>8. Segment'
    <2>1. taken > 0 => stream'[taken] = stream[taken]
      BY <1>1, <1>2, <1>4
    <2>2. \A s, e \in Nat : Follows(s, e) => e \in 1..Len(stream) /\ stream'[e] = stream[e]
      BY <1>1, <1>2, <1>4 DEF Follows
    <2>3. pc \in {"event", "words", "trailer"} => \E s \in Nat : Follows(s, taken)'
      BY <1>3, <1>4, <1>7 DEF Inv, Segment
    <2>4. (pc = "filler" \/ (pc = "check" /\ Len(data) > 1)) =>
            \E s \in Nat, e \in Nat :
              /\ Follows(s, e)' /\ Len(data) > 1
              /\ data[Len(data)] = stream'[e] /\ stream'[e].kind = "trailer"
      BY <1>7, <2>2 DEF Inv, Segment
    <2>5. QED
      BY <1>3, <2>1, <2>3, <2>4 DEF Inv, Segment
  <1>9. Order'
    <2>1. BanksInOrder'
      BY <1>3 DEF Inv, Order, BanksInOrder
    <2>2. ASSUME NEW j \in (IF pc = "bank" THEN taken ELSE taken + 1)..Len(stream'),
                 NEW i \in DOMAIN banks
          PROVE  /\ banks[i] <= stream'[j].blk
                 /\ banks[i] = stream'[j].blk => stream'[j].pos > 1
      <3>1. banks[i] \in 1..announced
        <4>1. banks \in Seq(1..announced)
          BY DEF Inv, Local
        <4>2. QED
          BY <4>1, ElementOf
      <3>2. pc = "bank" => taken > 0
        BY DEF Inv, Segment
      <3>3. CASE j <= Len(stream)
        BY <1>1, <1>2, <1>4, <3>2, <3>3 DEF Inv, Order
      <3>4. CASE j > Len(stream)
        <4>1. j \in Len(stream) + 1..Len(stream')
          BY <1>2, <1>4, <3>4
        <4>2. QED
          BY <1>1, <1>3, <3>1, <4>1
      <3>5. QED
        BY <1>2, <1>4, <3>3, <3>4
    <2>3. QED
      BY <1>3, <2>1, <2>2 DEF Order
  <1>10. BankIsOneBlock'
    <2> SUFFICES ASSUME bank # Rejected PROVE BankIsOneBlock'
      BY <1>3 DEF BankIsOneBlock
    <2> DEFINE n == Len(bank)
    <2>1. n \in Nat
      BY DEF Inv, Local
    <2>2. PICK s \in 0..Len(stream) - n - 1 :
            /\ stream[s + 1].pos = 1
            /\ \A i \in 2..n : bank[i] = stream[s + i]
            /\ stream[s + n + 1].kind = "trailer" /\ stream[s + n + 1].pos = n + 1
      BY DEF Inv, BankIsOneBlock
    <2>3. /\ \A i \in 1..n + 1 : s + i \in 1..Len(stream)
          /\ s \in 0..Len(stream') - n - 1 /\ s + n + 1 = s + (n + 1)
          /\ 1 \in 1..n + 1 /\ n + 1 \in 1..n + 1
      BY <1>1, <1>2, <2>1
    <2>4. /\ stream'[s + 1].pos = 1
          /\ \A i \in 2..n : bank[i] = stream'[s + i]
          /\ stream'[s + n + 1].kind = "trailer" /\ stream'[s + n + 1].pos = n + 1
      BY <1>1, <2>1, <2>2, <2>3
    <2>5. QED
      BY <1>3, <2>3, <2>4 DEF BankIsOneBlock
  <1>11. QED
    BY <1>1, <1>5, <1>6, <1>8, <1>9, <1>10 DEF Inv
\* What the reader returns is the block its data started with, and that one is
\* later than all it has returned.
LEMMA FinishKeeps == Inv /\ Finish => Inv'
  <1> SUFFICES ASSUME Inv, Finish PROVE Inv'
    OBVIOUS
  <1>1. /\ UNCHANGED <<late, stream, arrived, announced, taken, ready>>
        /\ pc \in {"check", "failed"} /\ pc' = "idle"
        /\ data' = <<>> /\ events' = 0 /\ words' = 0 /\ tried' = 0
    BY DEF Finish, board
  <1>2. Laid' /\ Counted'
    BY <1>1 DEF Inv, Laid, Counted
  <1>3. Segment'
    BY <1>1 DEF Segment
  <1>4. taken \in Nat /\ Len(stream) \in Nat /\ taken <= Len(stream)
    BY WordOf DEF Inv, Counted, Laid
  <1>5. CASE pc = "check" /\ IsBlock(data)
    <2> DEFINE L == Len(data)
    <2>1. bank' = Bank(data) /\ banks' = Append(banks, data[Head1(data)].blk)
      BY <1>5 DEF Finish
    <2>2. Head1(data) = 1 /\ Trailer(data) = L /\ L \in Nat /\ L >= 5
      BY <1>5, Accepted
    <2>3. PICK s \in Nat :
              /\ s + L <= taken
              /\ stream[s + 1].pos = 1
              /\ \A i \in 1..L : data[i] = stream[s + i]
              /\ stream[s + L].kind = "trailer"
              /\ stream[s + L].pos = L
              /\ \A i \in DOMAIN banks : banks[i] < stream[s + 1].blk
      BY <1>5, Accepted
    <2>4. bank' \in Seq(Items) /\ Len(bank') = L - 1 /\ \A i \in 2..L - 1 : bank'[i] = data[i]
      <3>1. data \in Seq(Words)
        BY DEF Inv, Local
      <3>2. QED
        BY <2>1, <2>2, <3>1, BankIs
    <2> DEFINE k == stream[s + 1].blk
    <2>5. s + 1 \in 1..Len(stream) /\ k \in 1..announced
      <3>1. s + 1 \in 1..Len(stream)
        BY <1>4, <2>2, <2>3
      <3>2. QED
        BY <3>1 DEF Inv, Laid
    <2>6. banks' = Append(banks, k)
      BY <2>1, <2>2, <2>3
    <2>7. banks \in Seq(1..announced) /\ Len(banks) \in Nat /\ DOMAIN banks = 1..Len(banks)
      BY ElementOf DEF Inv, Local
    <2>8. /\ \A i \in DOMAIN banks : banks[i] < k
          /\ \A i \in DOMAIN banks : banks[i] \in 1..announced
      BY <2>3, <2>7, ElementOf
    <2>9. \A j \in taken + 1..Len(stream) :
            k <= stream[j].blk /\ (k = stream[j].blk => stream[j].pos > 1)
      <3> SUFFICES ASSUME NEW j \in taken + 1..Len(stream)
                   PROVE  k <= stream[j].blk /\ (k = stream[j].blk => stream[j].pos > 1)
        OBVIOUS
      <3>1. PICK h \in Nat : h = s + 1
        OBVIOUS
      <3>2. h \in 1..Len(stream) /\ j \in 1..Len(stream) /\ h < j
        BY <1>4, <2>2, <2>3, <2>5, <3>1
      <3>3. /\ stream[h].blk <= stream[j].blk
            /\ stream[h].blk = stream[j].blk => h - stream[h].pos = j - stream[j].pos
        BY <3>2 DEF Inv, Laid
      <3>4. stream[j].pos \in Nat /\ k = stream[h].blk /\ stream[h].pos = 1
        BY <2>3, <3>1, <3>2, WordOf DEF Inv, Laid
      <3>5. QED
        BY <3>2, <3>3, <3>4
    <2> HIDE DEF k
    <2>10. /\ banks' \in Seq(1..announced) /\ Len(banks') = Len(banks) + 1
           /\ \A i \in 1..Len(banks) : banks'[i] = banks[i]
           /\ banks'[Len(banks) + 1] = k
           /\ DOMAIN banks' = 1..Len(banks) + 1
      BY <2>5, <2>6, <2>7
    <2>11. Local'
      <3>1. <<>> \in Seq(Words)
        OBVIOUS
      <3>2. 0 \in 0..MaxTries + 1 /\ 0 \in Nat
        BY FifoAssumption DEF FifoAssumption
      <3>3. bank' \in Seq(Items) /\ banks' \in Seq(1..announced')
        BY <1>1, <2>4, <2>10
      <3>4. QED
        BY <1>1, <3>1, <3>2, <3>3 DEF Local
    <2>12. BanksInOrder'
      <3> SUFFICES ASSUME NEW i \in 1..Len(banks) + 1, NEW j \in 1..Len(banks) + 1, i < j
                   PROVE  banks'[i] < banks'[j]
        BY <2>10 DEF BanksInOrder
      <3>1. i \in 1..Len(banks)
        BY <2>7
      <3>2. CASE j \in 1..Len(banks)
        BY <2>7, <2>10, <3>1, <3>2 DEF Inv, Order, BanksInOrder
      <3>3. CASE j = Len(banks) + 1
        BY <2>7, <2>8, <2>10, <3>1, <3>3
      <3>4. QED
        BY <2>7, <3>2, <3>3
    <2>13. Order'
      <3> SUFFICES ASSUME NEW j \in taken + 1..Len(stream), NEW i \in 1..Len(banks) + 1
                   PROVE  /\ banks'[i] <= stream[j].blk
                          /\ banks'[i] = stream[j].blk => stream[j].pos > 1
        BY <1>1, <2>10, <2>12 DEF Order
      <3>1. CASE i \in 1..Len(banks)
        BY <1>5, <2>7, <2>10, <3>1 DEF Inv, Order
      <3>2. CASE i = Len(banks) + 1
        BY <2>9, <2>10, <3>2
      <3>3. QED
        BY <2>7, <3>1, <3>2
    <2>14. BankIsOneBlock'
      <3>1. s \in 0..Len(stream) - (L - 1) - 1 /\ s + (L - 1) + 1 = s + L /\ (L - 1) + 1 = L
        BY <1>4, <2>2, <2>3
      <3>2. \A i \in 2..L - 1 : bank'[i] = stream[s + i]
        BY <2>2, <2>3, <2>4
      <3>3. QED
        BY <1>1, <2>3, <2>4, <3>1, <3>2 DEF BankIsOneBlock
    <2>15. QED
      BY <1>2, <1>3, <2>11, <2>13, <2>14 DEF Inv
  <1>6. CASE ~(pc = "check" /\ IsBlock(data))
    <2>1. bank' = Rejected /\ UNCHANGED banks
      BY <1>6 DEF Finish
    <2>2. Local'
      <3>1. Rejected \in Seq(Items)
        BY DEF Rejected
      <3>2. <<>> \in Seq(Words)
        OBVIOUS
      <3>3. 0 \in 0..MaxTries + 1
        BY FifoAssumption DEF FifoAssumption
      <3>4. QED
        BY <1>1, <2>1, <3>1, <3>2, <3>3 DEF Inv, Local
    <2>3. Order'
      BY <1>1, <2>1 DEF Inv, Order, BanksInOrder
    <2>4. BankIsOneBlock'
      BY <2>1 DEF BankIsOneBlock
    <2>5. QED
      BY <1>2, <1>3, <2>2, <2>3, <2>4 DEF Inv
  <1>7. QED
    BY <1>5, <1>6

LEMMA Inductive == Inv /\ [Next]_vars => Inv'
  <1> SUFFICES ASSUME Inv, [Next]_vars PROVE Inv'
    OBVIOUS
  <1>0. /\ MaxTries \in Nat /\ Laid /\ Counted /\ Local
        /\ data \in Seq(Words) /\ Len(data) \in Nat
    BY FifoAssumption DEF FifoAssumption, Inv, Local
  <1>1. CASE Announce
    BY <1>1, AnnounceKeeps
  <1>2. CASE Arrive
    <2>1. Counted'
      BY <1>2, WordOf DEF Arrive, Inv, Counted, Laid
    <2>2. Laid' /\ Local'
      BY <1>2 DEF Arrive, reader, Inv, Laid, Local
    <2>3. Segment'
      BY <1>2 DEF Arrive, reader, Inv, Segment, Follows
    <2>4. Order' /\ BankIsOneBlock'
      BY <1>2 DEF Arrive, reader, Inv, Order, BanksInOrder, BankIsOneBlock
    <2>5. QED
      BY <2>1, <2>2, <2>3, <2>4 DEF Inv
  <1>3. CASE Call
    <2>1. Laid' /\ Counted'
      BY <1>3 DEF Call, board, Inv, Laid, Counted
    <2>2. Local'
      <3>1. Rejected \in Seq(Items) /\ <<>> \in Seq(Words)
        BY DEF Rejected
      <3>2. QED
        BY <1>0, <1>3, <3>1 DEF Call, board, Inv, Local
    <2>3. Segment'
      BY <1>3 DEF Call, Segment
    <2>4. Order' /\ BankIsOneBlock'
      BY <1>3 DEF Call, board, Inv, Order, BanksInOrder, BankIsOneBlock
    <2>5. QED
      BY <2>1, <2>2, <2>3, <2>4 DEF Inv
  <1>4. CASE ReadHeader
    <2>1. Store /\ pc = "header" /\ data = <<>> /\ tried = 0
      BY <1>4 DEF ReadHeader, Inv, Local
    <2>2. /\ data' \in Seq(Words) /\ Len(data') = 1 /\ data'[1] = Val
      BY <1>0, <2>1, StoreIs
    <2>3. /\ Laid' /\ Counted' /\ stream' = stream /\ announced' = announced
          /\ taken \in Nat
          /\ Val.kind = "header" => taken' = taken + 1 /\ Val = stream[taken + 1]
          /\ taken' \in Nat /\ (taken' = taken + 1 \/ taken' = taken)
      BY <1>0, <2>1, TakeIs DEF Store
    <2>4. /\ UNCHANGED <<events, words, tried, bank, banks>>
          /\ pc' = IF Val.kind = "header" THEN "bank" ELSE "check"
      BY <1>4 DEF ReadHeader
    <2>5. Local'
      BY <1>0, <2>1, <2>2, <2>3, <2>4 DEF Local
    <2>6. Segment'
      BY <2>2, <2>3, <2>4 DEF Segment
    <2>7. Order'
      <3>1. BanksInOrder'
        BY <2>4 DEF Inv, Order, BanksInOrder
      <3>2. (IF pc' = "bank" THEN taken' ELSE taken' + 1)..Len(stream) \subseteq taken + 1..Len(stream)
        BY <1>0, <2>3, <2>4, WordOf DEF Laid
      <3>3. QED
        BY <2>1, <2>3, <2>4, <3>1, <3>2 DEF Inv, Order
    <2>8. BankIsOneBlock'
      BY <2>3, <2>4 DEF Inv, BankIsOneBlock
    <2>9. QED
      BY <2>3, <2>5, <2>6, <2>7, <2>8 DEF Inv
  <1>5. CASE ReadBank
    <2>1. /\ Store /\ UNCHANGED <<words, tried, bank, banks>> /\ pc = "bank" /\ tried = 0
          /\ IF Val.kind = "bank" THEN events' = Val.n /\ pc' = "event"
             ELSE pc' = "failed" /\ UNCHANGED events
      BY <1>5 DEF ReadBank, Inv, Local
    <2>2. /\ Laid' /\ Counted' /\ Order' /\ BankIsOneBlock'
          /\ bank' \in Seq(Items) /\ banks' \in Seq(1..announced')
      BY <2>1, StoreKeeps
    <2>3. /\ data' \in Seq(Words) /\ Len(data') = Len(data) + 1
          /\ \A i \in 1..Len(data) : data'[i] = data[i]
          /\ data'[Len(data) + 1] = Val
      BY <1>0, <2>1, StoreIs
    <2>4. CASE Val.kind # "bank"
      <3>1. pc' = "failed" /\ events' = events
        BY <2>1, <2>4
      <3>2. Local' /\ Segment'
        BY <1>0, <2>1, <2>2, <2>3, <3>1 DEF Local, Segment
      <3>3. QED
        BY <2>2, <3>2 DEF Inv
    <2>5. CASE Val.kind = "bank"
      <3> DEFINE t == taken + 1
      <3>1. /\ taken \in Nat /\ t \in 1..Len(stream) /\ Val = stream[t] /\ taken' = t
            /\ stream' = stream
        BY <1>0, <2>1, <2>5, TakeIs DEF Store
      <3> HIDE DEF t
      <3>2. /\ stream[t].pos = 2 /\ stream[t].n > 0 /\ stream[t].n \in Nat
            /\ stream[t - 2 + 1].pos = 1
        <4>1. stream[t].pos = 2 /\ stream[t].n > 0
          BY <1>0, <2>5, <3>1, StreamIs
        <4>2. stream[t - stream[t].pos + 1].pos = 1
          <5>1. 1 \in 1..stream[t].pos
            BY <4>1
          <5>2. QED
            BY <1>0, <3>1, <5>1, StreamIs
        <4>3. stream[t].n \in Nat
          BY <1>0, <3>1, WordOf DEF Laid
        <4>4. QED
          BY <4>1, <4>2, <4>3
      <3>3. t - 2 + 1 = taken /\ taken - 1 + 1 = taken /\ taken > 0 /\ taken - 1 \in Nat
        <4>1. taken > 0
          BY <2>1 DEF Inv, Segment
        <4>2. QED
          BY <3>1, <4>1 DEF t
      <3>4. /\ Len(data) = 1 /\ data[1] = stream[taken] /\ stream[taken].pos = 1
        BY <2>1, <3>2, <3>3 DEF Inv, Segment
      <3>5. \A i \in DOMAIN banks : banks[i] < stream[taken].blk
        <4> SUFFICES ASSUME NEW i \in DOMAIN banks PROVE banks[i] < stream[taken].blk
          OBVIOUS
        <4>1. taken \in taken..Len(stream)
          BY <3>1 DEF t
        <4>2. /\ banks[i] <= stream[taken].blk
              /\ banks[i] = stream[taken].blk => stream[taken].pos > 1
          BY <2>1, <4>1 DEF Inv, Order
        <4>3. banks[i] \in Nat
          <5>1. banks[i] \in 1..announced
            BY <1>0, ElementOf DEF Local
          <5>2. QED
            BY <5>1
        <4>4. stream[taken].blk \in Nat
          <5>1. taken \in 1..Len(stream)
            BY <3>1, <3>3 DEF t
          <5>2. QED
            BY <1>0, <5>1, WordOf DEF Laid
        <4>5. QED
          BY <3>4, <4>2, <4>3, <4>4
      <3>6. PICK s \in Nat : s = taken - 1
        BY <3>3
      <3>7. Follows(s, taken)'
        <4>1. s < t /\ t - s = 2 /\ Len(data') = 2 /\ s + 1 = taken /\ s + 2 = t
          BY <2>3, <3>1, <3>3, <3>4, <3>6 DEF t
        <4>2. data'[1] = stream[s + 1] /\ data'[2] = stream[s + 2]
          BY <2>3, <3>1, <3>4, <4>1
        <4>3. \A i \in 1..Len(data') : i = 1 \/ i = 2
          BY <4>1
        <4>4. QED
          BY <2>1, <3>1, <3>4, <3>5, <4>1, <4>2, <4>3 DEF Follows
      <3>8. Segment'
        BY <2>1, <2>5, <3>7 DEF Segment
      <3>9. Local'
        <4>1. events' > 0 /\ events' \in Nat
          BY <2>1, <2>5, <3>1, <3>2
        <4>2. QED
          BY <1>0, <2>1, <2>2, <2>3, <2>5, <4>1 DEF Local
      <3>10. QED
        BY <2>2, <3>8, <3>9 DEF Inv
    <2>6. QED
      BY <2>4, <2>5
  <1>6. CASE ReadEvent
    <2>1. /\ Store /\ UNCHANGED <<events, bank, banks>> /\ pc = "event"
          /\ tried \in 0..MaxTries /\ events > 0
          /\ \/ /\ Val.kind = "event" /\ words' = Val.n /\ pc' = "words" /\ tried' = tried
             \/ /\ tried' = tried + 1 /\ words' = words
                /\ pc' = IF tried' > MaxTries THEN "failed" ELSE "event"
      BY <1>0, <1>6 DEF ReadEvent, Local
    <2>2. /\ Laid' /\ Counted' /\ Order' /\ BankIsOneBlock'
          /\ bank' \in Seq(Items) /\ banks' \in Seq(1..announced')
      BY <2>1, StoreKeeps
    <2>3. data' \in Seq(Words)
      BY <1>0, <2>1, StoreIs
    <2>4. Val.kind = "event" => Val.n \in Nat /\ Val.n > 0
      <3> SUFFICES ASSUME Val.kind = "event" PROVE Val.n \in Nat /\ Val.n > 0
        OBVIOUS
      <3> DEFINE t == taken + 1
      <3>1. t \in 1..Len(stream) /\ Val = stream[t]
        BY <1>0, <2>1, TakeIs DEF Store
      <3> HIDE DEF t
      <3>2. QED
        BY <1>0, <3>1, StreamIs, WordOf DEF Laid
    <2>5. Local'
      BY <1>0, <2>1, <2>2, <2>3, <2>4 DEF Local
    <2>6. Segment'
      <3>1. PICK s \in Nat : Follows(s, taken)
        BY <2>1 DEF Inv, Segment
      <3>2. Follows(s, taken)'
        BY <1>0, <2>1, <3>1, StoreFollows
      <3>3. QED
        BY <2>1, <3>2 DEF Segment
    <2>7. QED
      BY <2>2, <2>5, <2>6 DEF Inv
  <1>7. CASE ReadWord
    <2>1. /\ Store /\ UNCHANGED <<tried, bank, banks>> /\ pc = "words"
          /\ tried \in 0..MaxTries /\ events \in Nat \ {0} /\ words \in Nat \ {0}
          /\ words' = words - 1
          /\ \/ words' > 0 /\ events' = events /\ pc' = "words"
             \/ events' = events - 1 /\ pc' = IF events' > 0 THEN "event" ELSE "trailer"
      BY <1>0, <1>7 DEF ReadWord, Local
    <2>2. /\ Laid' /\ Counted' /\ Order' /\ BankIsOneBlock'
          /\ bank' \in Seq(Items) /\ banks' \in Seq(1..announced')
      BY <2>1, StoreKeeps
    <2>3. data' \in Seq(Words)
      BY <1>0, <2>1, StoreIs
    <2>4. Local'
      BY <1>0, <2>1, <2>2, <2>3 DEF Local
    <2>5. Segment'
      <3>1. PICK s \in Nat : Follows(s, taken)
        BY <2>1 DEF Inv, Segment
      <3>2. Follows(s, taken)'
        BY <1>0, <2>1, <3>1, StoreFollows
      <3>3. QED
        BY <2>1, <3>2 DEF Segment
    <2>6. QED
      BY <2>2, <2>4, <2>5 DEF Inv
  <1>8. CASE ReadTrailer
    <2>1. /\ Store /\ UNCHANGED <<events, words, tried, bank, banks>> /\ pc = "trailer"
          /\ pc' \in {"failed", "filler", "check"}
          /\ Val.kind # "trailer" => pc' = "failed"
      BY <1>8 DEF ReadTrailer
    <2>2. /\ Laid' /\ Counted' /\ Order' /\ BankIsOneBlock'
          /\ bank' \in Seq(Items) /\ banks' \in Seq(1..announced')
      BY <2>1, StoreKeeps
    <2>3. /\ data' \in Seq(Words) /\ Len(data') = Len(data) + 1 /\ data'[Len(data')] = Val
      BY <1>0, <2>1, StoreIs
    <2>4. Local'
      BY <1>0, <2>1, <2>2, <2>3 DEF Local
    <2>5. PICK s \in Nat : Follows(s, taken)
      BY <2>1 DEF Inv, Segment
    <2>6. Follows(s, taken)'
      BY <1>0, <2>1, <2>5, StoreFollows
    <2>7. Len(data') > 1
      <3>1. taken \in Nat /\ s < taken /\ taken - s <= Len(data)
        BY <1>0, <2>5 DEF Follows, Counted
      <3>2. QED
        BY <1>0, <2>3, <3>1
    <2>8. Val.kind = "trailer" => taken' \in Nat /\ data'[Len(data')] = stream'[taken']
      BY <1>0, <2>1, <2>3, TakeIs DEF Store
    <2>9. Segment'
      <3>1. pc' = "filler" \/ pc' = "check" =>
              taken' \in Nat /\ data'[Len(data')] = stream'[taken'] /\ stream'[taken'].kind = "trailer"
        BY <2>1, <2>3, <2>8
      <3>2. pc' = "filler" \/ pc' = "check" =>
              \E r \in Nat, e \in Nat :
                /\ Follows(r, e)'
                /\ data'[Len(data')] = stream'[e] /\ stream'[e].kind = "trailer"
        <4> SUFFICES ASSUME pc' = "filler" \/ pc' = "check"
                     PROVE  \E r \in Nat, e \in Nat :
                              /\ Follows(r, e)'
                              /\ data'[Len(data')] = stream'[e] /\ stream'[e].kind = "trailer"
          OBVIOUS
        <4>1. PICK e \in Nat : e = taken'
          BY <3>1
        <4>2. Follows(s, e)'
          BY <2>6, <4>1 DEF Follows
        <4>3. QED
          BY <3>1, <4>1, <4>2
      <3>3. Len(data') \in Nat
        BY <2>3
      <3>4. QED
        BY <2>1, <2>7, <3>2, <3>3 DEF Segment
    <2>10. QED
      BY <2>2, <2>4, <2>9 DEF Inv
  <1>9. CASE ReadFiller
    <2>1. /\ Take /\ UNCHANGED <<data, events, words, tried, bank, banks>>
          /\ pc = "filler" /\ pc' = "check"
      BY <1>9 DEF ReadFiller
    <2>2. /\ Laid' /\ Counted' /\ stream' = stream /\ announced' = announced
          /\ taken \in Nat /\ taken' \in Nat /\ (taken' = taken + 1 \/ taken' = taken)
      BY <1>0, <2>1, TakeIs
    <2>3. Local'
      BY <1>0, <2>1, <2>2 DEF Local
    <2>4. Segment'
      <3>1. PICK s \in Nat, e \in Nat :
              /\ Follows(s, e) /\ Len(data) > 1
              /\ data[Len(data)] = stream[e] /\ stream[e].kind = "trailer"
        BY <2>1 DEF Inv, Segment
      <3>2. Follows(s, e)'
        BY <2>1, <2>2, <3>1 DEF Follows
      <3>3. QED
        BY <1>0, <2>1, <2>2, <3>1, <3>2 DEF Segment
    <2>5. Order'
      <3>1. BanksInOrder'
        BY <2>1 DEF Inv, Order, BanksInOrder
      <3>2. taken' + 1..Len(stream) \subseteq taken + 1..Len(stream)
        BY <1>0, <2>2, WordOf DEF Laid
      <3>3. QED
        BY <2>1, <2>2, <3>1, <3>2 DEF Inv, Order
    <2>6. BankIsOneBlock'
      BY <2>1, <2>2 DEF Inv, BankIsOneBlock
    <2>7. QED
      BY <2>2, <2>3, <2>4, <2>5, <2>6 DEF Inv
  <1>10. CASE Finish
    BY <1>10, FinishKeeps
  <1>11. CASE UNCHANGED vars
    <2>1. Laid' /\ Counted' /\ Local'
      BY <1>11 DEF vars, board, reader, Inv, Laid, Counted, Local
    <2>2. Segment' /\ Order' /\ BankIsOneBlock'
      BY <1>11 DEF vars, board, reader, Inv, Segment, Follows, Order, BanksInOrder, BankIsOneBlock
    <2>3. QED
      BY <2>1, <2>2 DEF Inv
  <1>12. QED
    BY <1>1, <1>2, <1>3, <1>4, <1>5, <1>6, <1>7, <1>8, <1>9, <1>10, <1>11 DEF Next, Read
LEMMA Start == Init => Inv
  <1> SUFFICES ASSUME Init PROVE Inv
    OBVIOUS
  <1> USE FifoAssumption DEF FifoAssumption, Init
  <1>1. stream = <<>> /\ <<>> \in Seq(Words) /\ Len(stream) = 0
    OBVIOUS
  <1>2. Laid /\ Counted
    BY <1>1 DEF Laid, Counted
  <1>3. Local
    BY <1>1 DEF Local, Rejected
  <1>4. Segment /\ Order /\ BankIsOneBlock
    BY <1>1 DEF Segment, Order, BanksInOrder, BankIsOneBlock
  <1>5. QED
    BY <1>2, <1>3, <1>4 DEF Inv

LEMMA Invariance == Spec => []Inv
  BY Start, Inductive, PTL DEF Spec

\* Every variable has its type: the counts of words never pass one another, and
\* no more blocks are ready than have been announced.
THEOREM WellTyped == Spec => []TypeOK
  <1>1. Inv => TypeOK
    <2> SUFFICES ASSUME Inv PROVE TypeOK
      OBVIOUS
    <2>1. \A i \in DOMAIN stream : stream[i].kind \in Kinds \ {"empty", "length"}
      <3> SUFFICES ASSUME NEW i \in DOMAIN stream
                   PROVE  stream[i].kind \in Kinds \ {"empty", "length"}
        OBVIOUS
      <3>1. i \in 1..Len(stream)
        BY DEF Inv, Laid
      <3>2. stream[i] \in Words /\ stream[i].kind # "empty"
        BY <3>1, StreamIs DEF Inv
      <3>3. QED
        BY <3>2 DEF Words
    <2>2. \A i \in DOMAIN data : data[i].kind \in Kinds \ {"length"}
      <3> SUFFICES ASSUME NEW i \in DOMAIN data
                   PROVE  data[i].kind \in Kinds \ {"length"}
        OBVIOUS
      <3>1. data[i] \in Words
        BY ElementOf DEF Inv, Local
      <3>2. QED
        BY <3>1 DEF Words
    <2>3. \A i \in DOMAIN banks : banks[i] \in 1..announced
      BY ElementOf DEF Inv, Local
    <2>4. QED
      BY <2>1, <2>2, <2>3 DEF TypeOK, Inv, Laid, Counted, Local
  <1>2. QED
    BY <1>1, Invariance, PTL

\* As long as no event word looks like a block trailer (FifoAssumption), a bank
\* that tipReadTriggerBlock returns, other than the one it makes up for an error,
\* is exactly one block of the board, every word in its place, however late.
THEOREM WholeBlocks == Spec => []BankIsOneBlock
  <1>1. Inv => BankIsOneBlock
    BY DEF Inv
  <1>2. QED
    BY <1>1, Invariance, PTL

\* tipReadTriggerBlock returns no block twice, and none after a later one.
THEOREM OrderedBanks == Spec => []BanksInOrder
  <1>1. Inv => BanksInOrder
    BY DEF Inv, Order
  <1>2. QED
    BY <1>1, Invariance, PTL
-----------------------------------------------------------------------------
(* What the other readers make of a bank *)

\* The length word counts the words after it.
LengthTold == bank # Rejected => bank[1].kind = "length" /\ bank[1].n = Len(bank) - 1

LEMMA LengthStays == Inv /\ LengthTold /\ [Next]_vars => LengthTold'
  <1> SUFFICES ASSUME Inv, LengthTold, [Next]_vars PROVE LengthTold'
    OBVIOUS
  <1>1. CASE Finish
    <2>1. CASE pc = "check" /\ IsBlock(data)
      <3>1. bank' = Bank(data)
        BY <1>1, <2>1 DEF Finish
      <3>2. Head1(data) = 1 /\ Trailer(data) = Len(data) /\ Len(data) \in Nat /\ Len(data) >= 5
        BY <2>1, Accepted
      <3>3. data \in Seq(Words)
        BY DEF Inv, Local
      <3>4. Len(bank') = Len(data) - 1 /\ bank'[1].kind = "length" /\ bank'[1].n = Len(data) - 2
        BY <3>1, <3>2, <3>3, BankIs
      <3>5. QED
        BY <3>2, <3>4 DEF LengthTold
    <2>2. CASE ~(pc = "check" /\ IsBlock(data))
      BY <1>1, <2>2 DEF Finish, LengthTold
    <2>3. QED
      BY <2>1, <2>2
  <1>2. CASE bank' = bank \/ bank' = Rejected
    BY <1>2 DEF LengthTold
  <1>3. ~Finish => bank' = bank \/ bank' = Rejected
    BY DEF Next, vars, reader, Announce, Arrive, Read, Call, ReadHeader, ReadBank,
           ReadEvent, ReadWord, ReadTrailer, ReadFiller
  <1>4. QED
    BY <1>1, <1>2, <1>3

LEMMA BankLaid ==
  ASSUME Inv, LengthTold, bank # Rejected
  PROVE  \E f \in Formats : Banked(bank, f)
  <1> DEFINE n == Len(bank)
  <1>1. bank \in Seq(Items) /\ n \in Nat /\ DOMAIN bank = 1..n
    BY DEF Inv, Local
  <1>2. Len(stream) \in Nat
    BY DEF Inv, Laid
  <1>3. PICK s \in 0..Len(stream) - n - 1 :
          /\ \A i \in 2..n : bank[i] = stream[s + i]
          /\ stream[s + n + 1].kind = "trailer" /\ stream[s + n + 1].pos = n + 1
    BY DEF Inv, BankIsOneBlock
  <1>4. PICK e \in 1..Len(stream) : e = s + n + 1 /\ e - (n + 1) = s /\ s \in Nat
    BY <1>1, <1>2
  <1>5. PICK f \in Formats :
          /\ stream[e].pos \in 1..Len(Block(stream[e].blk, f[1], f[2], f[3]))
          /\ Placed(stream, stream[e].blk, f, e - stream[e].pos)
    BY DEF Inv, Laid
  <1> DEFINE b == Block(stream[e].blk, f[1], f[2], f[3])
  <1>6. /\ n + 1 \in 1..Len(b)
        /\ \A q \in 1..Len(b) : stream[s + q] = b[q]
    BY <1>3, <1>4, <1>5 DEF Placed
  <1>7. Shaped(b, stream[e].blk, f)
    <2>1. stream[e].blk \in Nat
      BY WordOf DEF Inv, Laid
    <2>2. QED
      BY <2>1, BlockIs
  <1> HIDE DEF b
  <1>8. PICK c \in Nat : c = Count(f) /\ c >= 5
    BY Formatted
  <1>9. n + 1 = c
    <2>1. b[n + 1].kind = "trailer"
      <3>1. s + (n + 1) = e
        BY <1>1, <1>4
      <3>2. QED
        BY <1>3, <1>4, <1>6, <3>1
    <2>2. QED
      BY <1>6, <1>7, <1>8, <2>1 DEF Shaped
  <1>10. \A q \in 2..n : q \in 1..Len(b) /\ bank[q] = b[q]
    <2> SUFFICES ASSUME NEW q \in 2..n PROVE q \in 1..Len(b) /\ bank[q] = b[q]
      OBVIOUS
    <2>1. q \in 1..Len(b)
      <3>1. b \in Seq(Words)
        BY <1>7 DEF Shaped
      <3>2. Len(b) \in Nat
        BY <3>1
      <3>3. QED
        BY <1>1, <1>6, <3>2
    <2>2. QED
      BY <1>3, <1>6, <2>1
  <1>11. \A q \in 2..n :
           /\ bank[q].pos = q /\ bank[q].n \in Nat
           /\ bank[q].kind = "bank" <=> q = 2
           /\ bank[q].kind = "bank" => bank[q].n = f[1]
           /\ bank[q].kind = "event" => bank[q].n = f[2]
           /\ (q - 3) % (f[2] + 1) = 0 /\ q \in 3..Count(f) - 1 => bank[q].kind = "event"
    <2> SUFFICES ASSUME NEW q \in 2..n
                 PROVE  /\ bank[q].pos = q /\ bank[q].n \in Nat
                        /\ bank[q].kind = "bank" <=> q = 2
                        /\ bank[q].kind = "bank" => bank[q].n = f[1]
                        /\ bank[q].kind = "event" => bank[q].n = f[2]
                        /\ (q - 3) % (f[2] + 1) = 0 /\ q \in 3..Count(f) - 1 =>
                             bank[q].kind = "event"
      OBVIOUS
    <2>1. q \in 1..Len(b) /\ bank[q] = b[q]
      BY <1>10
    <2>2. b \in Seq(Words)
      BY <1>7 DEF Shaped
    <2>3. b[q].n \in Nat
      BY <2>1, <2>2, WordOf
    <2>4. QED
      BY <1>7, <2>1, <2>3 DEF Shaped
  <1>12. n = Count(f) - 1 /\ bank[1].kind = "length" /\ bank[1].n = Count(f) - 2
    BY <1>1, <1>8, <1>9 DEF LengthTold
  <1>13. Banked(bank, f)
    BY <1>1, <1>11, <1>12 DEF Banked
  <1>14. QED
    BY <1>13

\* tipCheckTriggerBlock and tipDecodeTriggerType read a bank that was accepted as
\* tipReadTriggerBlock meant it: the walks go from event header to event header,
\* whether the words between them look like data or like headers.
THEOREM BanksDecode == Spec => []BankDecodes
  <1>1. Init => LengthTold
    BY DEF Init, LengthTold
  <1>2. Inv /\ LengthTold => BankDecodes
    <2> SUFFICES ASSUME Inv, LengthTold, bank # Rejected
                 PROVE  /\ CheckTriggerBlock(bank)
                        /\ \A event \in 1..bank[2].n :
                             LET word == DecodeTriggerType(bank, event)
                             IN /\ word.kind = "event"
                                /\ word.pos = 3 + (event - 1) * (bank[3].n + 1)
      BY DEF BankDecodes
    <2>1. PICK f \in Formats : Banked(bank, f)
      BY BankLaid
    <2>2. f \in Layouts
      BY FormatsAreLayouts
    <2>3. CheckTriggerBlock(bank)
      BY <2>1, <2>2, CheckAccepts
    <2>4. PICK l \in Nat \ {0}, w \in Nat \ {0}, c \in Nat :
             l = f[1] /\ w = f[2] /\ c = Count(f) /\ c >= 5
      BY Formatted
    <2>5. bank[2].n = l
      <3>1. 2 \in 2..Len(bank)
        BY <2>1, <2>4 DEF Banked
      <3>2. QED
        BY <2>1, <2>4, <3>1 DEF Banked
    <2>6. bank[3].n = w
      <3>1. PICK k \in 0..l - 1 : k = 0
        BY <2>4
      <3>2. PICK p \in 3..Len(bank) : p = 3 + k * (w + 1) /\ bank[p].n = w
        BY <2>1, <2>2, <2>4, HeaderAt
      <3>3. p = 3
        BY <3>1, <3>2
      <3>4. QED
        BY <3>2, <3>3
    <2>7. ASSUME NEW event \in 1..l
          PROVE  /\ DecodeTriggerType(bank, event).kind = "event"
                 /\ DecodeTriggerType(bank, event).pos = 3 + (event - 1) * (w + 1)
      <3>1. DecodeTriggerType(bank, event) = bank[3 + (event - 1) * (w + 1)]
        BY <2>1, <2>2, <2>4, DecodeFinds
      <3>2. PICK k \in 0..l - 1 : k = event - 1
        OBVIOUS
      <3>3. PICK p \in 3..Len(bank) : p = 3 + k * (w + 1) /\ bank[p].kind = "event"
        BY <2>1, <2>2, <2>4, HeaderAt
      <3>4. bank[p].pos = p
        BY <2>1 DEF Banked
      <3>5. QED
        BY <3>1, <3>2, <3>3, <3>4
    <2>8. QED
      BY <2>3, <2>5, <2>6, <2>7
  <1>3. QED
    BY <1>1, <1>2, LengthStays, Invariance, PTL DEF Spec

-----------------------------------------------------------------------------
(* With every word in time *)

\* The word that comes next, when those before it are the first of a block.
LEMMA NextWord ==
  ASSUME Inv, ~late, NEW f \in Formats, NEW s \in Nat, NEW n \in 1..announced,
         Placed(stream, n, f, s),
         NEW p \in 1..Size(f), taken = s + p - 1
  PROVE  /\ taken < arrived /\ Val = stream[s + p] /\ s + p \in 1..Len(stream)
         /\ Val.blk = n
         /\ p = 2 => Val.kind = "bank" /\ Val.n = f[1]
         /\ Val.kind = "trailer" <=> p = Count(f)
         /\ p = Count(f) => Val.n = p
         /\ (p - 3) % (f[2] + 1) = 0 /\ p \in 3..Count(f) - 1 => Val.kind = "event" /\ Val.n = f[2]
  <1> DEFINE b == Block(n, f[1], f[2], f[3])
  <1>1. n \in Nat /\ Len(stream) \in Nat /\ taken \in Nat /\ arrived = Len(stream)
        /\ Count(f) \in Nat /\ Count(f) >= 5 /\ Size(f) \in {Count(f), Count(f) + 1}
    BY WordOf, Formatted DEF Inv, Laid, Counted
  <1>2. Shaped(b, n, f)
    BY <1>1, BlockIs
  <1>3. s + Len(b) <= Len(stream) /\ \A q \in 1..Len(b) : stream[s + q] = b[q]
    BY DEF Placed
  <1> HIDE DEF b
  <1>4. Len(b) = Size(f) /\ p \in 1..Len(b)
    BY <1>2 DEF Shaped
  <1>5. s + p <= Len(stream) /\ taken + 1 = s + p /\ s + p \in 1..Len(stream)
    BY <1>1, <1>3, <1>4
  <1>6. taken < arrived /\ Val = stream[s + p] /\ Val = b[p]
    BY <1>1, <1>3, <1>4, <1>5 DEF Val
  <1>7. /\ b[p].blk = n
        /\ p = 2 => b[p].kind = "bank" /\ b[p].n = f[1]
        /\ b[p].kind = "trailer" <=> p = Count(f)
        /\ p = Count(f) => b[p].n = p
        /\ (p - 3) % (f[2] + 1) = 0 /\ p \in 3..Count(f) - 1 => b[p].kind = "event" /\ b[p].n = f[2]
    BY <1>2, <1>4 DEF Shaped
  <1>8. QED
    BY <1>5, <1>6, <1>7

LEMMA StoreInBlock ==
  ASSUME Inv, Store, taken < arrived, NEW s \in Nat, taken = s + Len(data),
         \A i \in 1..Len(data) : data[i] = stream[s + i]
  PROVE  /\ Len(data') = Len(data) + 1 /\ Len(data) \in Nat
         /\ taken' = s + Len(data') /\ taken' = taken + 1
         /\ \A i \in 1..Len(data') : data'[i] = stream'[s + i]
         /\ stream' = stream /\ announced' = announced /\ late' = late
         /\ ready' = IF Val.kind = "trailer" THEN ready - 1 ELSE ready
  <1>1. /\ data' \in Seq(Words) /\ Len(data') = Len(data) + 1 /\ Len(data) \in Nat
        /\ \A i \in 1..Len(data) : data'[i] = data[i]
        /\ data'[Len(data) + 1] = Val
    BY StoreIs DEF Inv, Local
  <1>2. /\ stream' = stream /\ announced' = announced /\ late' = late
        /\ Val = stream[taken + 1] /\ taken' = taken + 1 /\ taken \in Nat
        /\ ready' = IF Val.kind = "trailer" THEN ready - 1 ELSE ready
    BY TakeIs DEF Inv, Store
  <1>3. taken + 1 = s + (Len(data) + 1)
    BY <1>1
  <1>4. \A i \in 1..Len(data') : i \in 1..Len(data) \/ i = Len(data) + 1
    BY <1>1
  <1>5. QED
    BY <1>1, <1>2, <1>3, <1>4

\* After the last word of a block comes the first of another.
LEMMA BlockEnds ==
  ASSUME Laid, NEW f \in Formats, NEW s \in Nat, NEW n \in 1..announced,
         Placed(stream, n, f, s), NEW i \in 1..Len(stream),
         i - 1 = s + Size(f)
  PROVE  stream[i].pos = 1
  <1> DEFINE b == Block(n, f[1], f[2], f[3])
  <1>1. /\ i \in Nat /\ s \in Nat
        /\ n \in Nat /\ Len(stream) \in Nat /\ stream[i].pos \in Nat /\ stream[i].blk \in Nat
        /\ Count(f) \in Nat /\ Count(f) >= 5 /\ Size(f) \in Nat /\ Size(f) \in {Count(f), Count(f) + 1}
    <2>1. n \in Nat /\ Len(stream) \in Nat /\ stream[i].pos \in Nat /\ stream[i].blk \in Nat
      BY WordOf DEF Laid
    <2>2. Count(f) \in Nat /\ Count(f) >= 5 /\ Size(f) \in Nat /\ Size(f) \in {Count(f), Count(f) + 1}
      BY Formatted
    <2>3. i \in Nat
      BY <2>1
    <2>4. QED
      BY <2>1, <2>2, <2>3
  <1>2. Shaped(b, n, f)
    BY <1>1, BlockIs
  <1>3. s + Len(b) <= Len(stream) /\ \A q \in 1..Len(b) : stream[s + q] = b[q]
    BY DEF Placed
  <1> HIDE DEF b
  <1>4. Len(b) = Size(f) /\ i - 1 = s + Len(b) /\ Len(b) \in Nat /\ Len(b) >= 5
    <2>1. Len(b) = Size(f)
      BY <1>2 DEF Shaped
    <2>2. i - 1 = s + Len(b) /\ Len(b) \in Nat /\ Len(b) >= 5
      BY <1>1, <2>1
    <2>3. QED
      BY <2>1, <2>2
  <1> SUFFICES ASSUME stream[i].pos # 1 PROVE FALSE
    OBVIOUS
  <1>5. stream[i].pos > 1
    <2>1. stream[i].pos \in 1..i
      BY DEF Laid
    <2>2. QED
      BY <1>1, <2>1
  <1>6. stream[i].blk = n
    <2> DEFINE p == stream[i].pos - 1
    <2>1. p \in 1..stream[i].pos /\ i - stream[i].pos + p = s + Len(b)
      <3>1. i - 1 = s + Len(b) /\ Len(b) \in Nat
        BY <1>4
      <3>2. PICK v \in Nat : v = stream[i].pos
        BY <1>1
      <3>3. v > 1
        BY <1>5, <3>2
      <3>4. v - 1 \in 1..v /\ i - v + (v - 1) = s + Len(b)
        BY <1>1, <3>1, <3>3
      <3>5. QED
        BY <3>2, <3>4
    <2>2. \A q \in 1..stream[i].pos : stream[i - stream[i].pos + q].blk = stream[i].blk
      BY StreamIs
    <2>3. stream[s + Len(b)].blk = stream[i].blk
      BY <2>1, <2>2
    <2>4. stream[s + Len(b)].blk = n
      BY <1>2, <1>3, <1>4 DEF Shaped
    <2>5. QED
      BY <2>3, <2>4
  <1>7. PICK g \in Formats :
          /\ stream[i].pos \in 1..Len(Block(stream[i].blk, g[1], g[2], g[3]))
          /\ Placed(stream, stream[i].blk, g, i - stream[i].pos)
    BY DEF Laid
  <1> DEFINE c == Block(n, g[1], g[2], g[3])
  <1>8. i - stream[i].pos = s
    <2>1. PICK h \in Nat : h = s + 1
      OBVIOUS
    <2>2. h \in 1..Len(stream) /\ stream[h] = b[1]
      BY <1>1, <1>3, <1>4, <2>1
    <2>3. stream[h].blk = n /\ stream[h].pos = 1
      BY <1>2, <1>4, <2>2 DEF Shaped
    <2>4. i - stream[i].pos = h - stream[h].pos
      <3>1. \A x, y \in 1..Len(stream) :
              stream[x].blk = stream[y].blk => x - stream[x].pos = y - stream[y].pos
        BY DEF Laid
      <3>2. QED
        BY <1>6, <2>2, <2>3, <3>1
    <2>5. QED
      BY <2>1, <2>3, <2>4
  <1>9. Shaped(c, n, g) /\ Count(g) \in Nat /\ Count(g) >= 5 /\ Size(g) \in {Count(g), Count(g) + 1}
    BY <1>1, BlockIs, Formatted
  <1>10. /\ stream[i].pos \in 1..Len(c) /\ \A q \in 1..Len(c) : stream[s + q] = c[q]
    BY <1>6, <1>7, <1>8 DEF Placed
  <1> HIDE DEF c
  <1>11. Len(c) = Size(g)
    BY <1>9 DEF Shaped
  <1>12. Count(f) \in 1..Len(c) /\ Count(f) \in 1..Len(b) /\ Len(b) < Len(c)
    <2>1. stream[i].pos = Len(b) + 1
      <3>1. i - 1 = s + Len(b) /\ Len(b) \in Nat
        BY <1>4
      <3>2. PICK v \in Nat : v = stream[i].pos
        BY <1>1
      <3>3. i - v = s
        BY <1>8, <3>2
      <3>4. v = Len(b) + 1
        BY <1>1, <3>1, <3>3
      <3>5. QED
        BY <3>2, <3>4
    <2>2. Len(b) >= Count(f)
      BY <1>1, <1>4
    <2>3. Len(c) \in Nat
      BY <1>9 DEF Shaped
    <2>4. Len(b) \in Nat
      BY <1>4
    <2>5. QED
      BY <1>1, <1>10, <2>1, <2>2, <2>3, <2>4
  <1>13. c[Count(f)] = b[Count(f)]
    BY <1>3, <1>10, <1>12
  <1>14. b[Count(f)].kind = "trailer"
    BY <1>2, <1>12 DEF Shaped
  <1>15. Count(f) = Count(g)
    BY <1>9, <1>12, <1>13, <1>14 DEF Shaped
  <1>16. QED
    <2>1. Size(f) = Size(g)
      BY <1>15 DEF Size
    <2>2. Len(b) = Len(c) /\ Len(b) \in Nat
      BY <1>4, <1>11, <2>1
    <2>3. QED
      BY <1>12, <2>2
\* The words before event k of a block, and those up to the event after it.
LEMMA EventAt ==
  ASSUME NEW f \in Formats, NEW k \in 0..f[1] - 1
  PROVE  \E m \in Nat, w \in Nat \ {0}, c \in Nat :
           /\ w = f[2] /\ c = Count(f) /\ m = k * (f[2] + 1) /\ m % (f[2] + 1) = 0
           /\ (k + 1) * (f[2] + 1) = m + w + 1
           /\ m + w + 4 <= c
           /\ k = f[1] - 1 => m + w + 4 = c
  BY FormatsAreLayouts, EventPlace

\* The reader goes through a block as the board made it, and ends where the next
\* one begins.

LEMMA ExactKept == Inv /\ Inv' /\ Exact /\ [Next]_vars => Exact'
  <1> SUFFICES ASSUME Inv, Inv', Exact, [Next]_vars, ~late' PROVE Exact'
    BY DEF Exact
  <1>0. /\ late' = late /\ ~late /\ arrived = Len(stream) /\ Len(stream) \in Nat
        /\ taken \in Nat /\ announced \in Nat /\ ready \in 0..announced
        /\ Laid /\ Counted /\ data \in Seq(Words) /\ Len(data) \in Nat
    <2>1. late' = late
      BY DEF Next, Announce, Arrive, Call, Read, ReadHeader, ReadBank, ReadEvent, ReadWord,
             ReadTrailer, ReadFiller, Finish, Store, Take, vars
    <2>2. QED
      BY <2>1, WordOf, ElementOf DEF Inv, Laid, Counted, Local
  <1>1. CASE Announce
    <2>1. /\ Len(stream') > Len(stream) /\ Len(stream') \in Nat
          /\ \A i \in 1..Len(stream) : stream'[i] = stream[i]
          /\ \A i \in Len(stream) + 1..Len(stream') : stream'[i].pos = i - Len(stream)
      BY <1>0, <1>1, AnnounceLays DEF Inv, Laid
    <2>2. /\ UNCHANGED <<taken, pc, data, events, words, tried, bank, banks>>
          /\ announced' = announced + 1 /\ ready' = ready + 1
          /\ taken <= Len(stream)
      BY <1>0, <1>1 DEF Announce, reader, Counted
    <2>3. announced' - ready' = announced - ready /\ announced' - ready' + 1 = announced - ready + 1
      BY <1>0, <2>2
    <2>4. CASE pc \in {"idle", "header"}
      <3>1. taken < Len(stream) => stream'[taken + 1].pos = 1
        <4>1. taken < Len(stream) => stream[taken + 1].pos = 1
          BY <1>0, <2>4 DEF Exact
        <4>2. taken < Len(stream) => taken + 1 \in 1..Len(stream)
          BY <1>0
        <4>3. QED
          BY <2>1, <4>1, <4>2
      <3>2. taken = Len(stream) => stream'[taken + 1].pos = 1
        BY <1>0, <2>1
      <3>3. QED
        BY <1>0, <2>2, <2>3, <2>4, <3>1, <3>2 DEF Exact
    <2>5. CASE pc \notin {"idle", "header"}
      <3>1. PICK f \in Formats, s \in Nat, n \in 1..announced : InBlock(f, s, n)
        BY <1>0, <2>5 DEF Exact
      <3>2. Placed(stream', n, f, s)
        <4> DEFINE c == Block(n, f[1], f[2], f[3])
        <4>1. c \in Seq(Words)
          <5>1. n \in Nat
            BY <1>0
          <5>2. QED
            BY <5>1, BlockIs DEF Shaped
        <4>2. s + Len(c) <= Len(stream) /\ \A q \in 1..Len(c) : stream[s + q] = c[q]
          BY <3>1 DEF InBlock, Placed
        <4> HIDE DEF c
        <4>3. s + Len(c) <= Len(stream') /\ \A q \in 1..Len(c) : stream'[s + q] = c[q]
          <5>1. Len(c) \in Nat
            BY <4>1
          <5>2. \A q \in 1..Len(c) : s + q \in 1..Len(stream)
            BY <1>0, <4>2, <5>1
          <5>3. \A q \in 1..Len(c) : stream'[s + q] = stream[s + q]
            BY <2>1, <5>2
          <5>4. s + Len(c) <= Len(stream')
            BY <1>0, <2>1, <4>2, <5>1
          <5>5. QED
            BY <4>2, <5>3, <5>4
        <4>4. QED
          BY <4>3 DEF Placed, c
      <3>3. InPlace(f)' /\ pc' # "failed" /\ Len(data') > 0
        BY <2>2, <3>1 DEF InBlock, InPlace
      <3>4. \A i \in 1..Len(data) : data[i] = stream'[s + i]
        <4>1. s + Len(data) <= taken
          BY <1>0, <3>1, Formatted DEF InBlock, InPlace
        <4>2. \A i \in 1..Len(data) : s + i \in 1..Len(stream)
          BY <1>0, <2>2, <4>1
        <4>3. QED
          BY <2>1, <3>1, <4>2 DEF InBlock
      <3>5. InBlock(f, s, n)'
        BY <2>2, <2>3, <3>1, <3>2, <3>3, <3>4 DEF InBlock
      <3>6. n \in 1..announced'
        BY <1>0, <2>2
      <3>7. QED
        BY <2>2, <2>5, <3>5, <3>6 DEF Exact
    <2>6. QED
      BY <2>4, <2>5
  <1>2. CASE Arrive
    BY <1>0, <1>2 DEF Arrive
  <1>3. CASE Call
    BY <1>0, <1>3 DEF Call, board, Exact
  <1>4. CASE ReadHeader
    <2>1. /\ pc = "header" /\ Store /\ UNCHANGED banks /\ data = <<>> /\ Len(data) = 0
          /\ pc' = IF Val.kind = "header" THEN "bank" ELSE "check"
      BY <1>4 DEF ReadHeader, Inv, Local
    <2>2. /\ ready > 0 /\ banks = [i \in 1..announced - ready |-> i]
          /\ taken < Len(stream) => stream[taken + 1].pos = 1
      BY <1>0, <2>1 DEF Exact
    <2> DEFINE n == announced - ready + 1
    <2>3. n \in 1..announced
      BY <1>0, <2>2
    <2>4. PICK j \in 1..Len(stream) : stream[j].kind = "trailer" /\ stream[j].blk = n
      BY <1>0, <2>3 DEF Laid
    <2>5. taken < j
      BY <1>0, <2>3, <2>4 DEF Counted
    <2>6. PICK i \in 1..Len(stream) : i = taken + 1
      BY <1>0, <2>4, <2>5
    <2>7. stream[i].pos = 1 /\ stream[i].kind = "header" /\ Val = stream[i] /\ i - 1 = taken
      <3>1. stream[i].pos = 1
        BY <1>0, <2>2, <2>6
      <3>2. Val = stream[i]
        BY <1>0, <2>6 DEF Val
      <3>3. QED
        BY <1>0, <2>6, <3>1, <3>2, StreamIs
    <2>8. PICK f \in Formats : Placed(stream, stream[i].blk, f, taken)
      BY <1>0, <2>7 DEF Laid
    <2>9. stream[i].blk = n
      <3> DEFINE k == stream[i].blk
                 b == Block(k, f[1], f[2], f[3])
      <3>1. k \in 1..announced /\ k <= n
        <4>1. i <= j
          BY <1>0, <2>5, <2>6
        <4>2. stream[i].blk \in 1..announced /\ stream[j].blk \in Nat
          BY <1>0, WordOf DEF Laid
        <4>3. stream[i].blk <= stream[j].blk
          <5>1. \A x, y \in 1..Len(stream) : x < y => stream[x].blk <= stream[y].blk
            BY <1>0 DEF Laid
          <5>2. i < j \/ i = j
            BY <1>0, <4>1
          <5>3. QED
            BY <2>4, <4>2, <5>1, <5>2
        <4>4. QED
          BY <2>4, <4>2, <4>3
      <3>2. Shaped(b, k, f) /\ Count(f) \in Nat /\ Count(f) >= 5
            /\ Size(f) \in Nat /\ Count(f) <= Size(f)
        BY <1>0, <3>1, BlockIs, Formatted
      <3>3. taken + Len(b) <= Len(stream) /\ \A q \in 1..Len(b) : stream[taken + q] = b[q]
        BY <2>8 DEF Placed
      <3> HIDE DEF b
      <3>4. Len(b) = Size(f) /\ Count(f) \in 1..Len(b)
        BY <3>2 DEF Shaped
      <3>5. stream[taken + Count(f)].kind = "trailer" /\ stream[taken + Count(f)].blk = k
        BY <3>2, <3>3, <3>4 DEF Shaped
      <3>6. taken + Count(f) \in 1..Len(stream) /\ ~(taken + Count(f) <= taken)
        BY <1>0, <3>2, <3>3, <3>4
      <3>7. ~(k <= announced - ready)
        BY <1>0, <3>5, <3>6 DEF Counted
      <3> HIDE DEF k
      <3>8. k = n
        BY <1>0, <3>1, <3>7
      <3>9. QED
        BY <3>8 DEF k
    <2>10. /\ Len(data') = 1 /\ taken' = taken + Len(data')
           /\ \A q \in 1..Len(data') : data'[q] = stream'[taken + q]
           /\ stream' = stream /\ announced' = announced /\ ready' = ready
      <3>1. taken < arrived /\ taken = taken + Len(data)
            /\ \A q \in 1..Len(data) : data[q] = stream[taken + q]
        BY <1>0, <2>1, <2>4, <2>5
      <3>2. PICK s \in Nat : s = taken
        BY <1>0
      <3>3. QED
        BY <2>1, <2>7, <3>1, <3>2, StoreInBlock
    <2>11. PICK s \in Nat : s = taken
      BY <1>0
    <2>12. InPlace(f)'
      BY <2>1, <2>7, <2>10 DEF InPlace
    <2>13. PICK r \in 1..announced : r = n
      BY <2>3
    <2>14. banks' = [i_1 \in 1..r - 1 |-> i_1] /\ r = announced' - ready' + 1
      BY <1>0, <2>1, <2>2, <2>10, <2>13
    <2>15. InBlock(f, s, r)'
      BY <2>1, <2>7, <2>8, <2>9, <2>10, <2>11, <2>12, <2>13, <2>14 DEF InBlock
    <2>16. QED
      BY <2>1, <2>7, <2>10, <2>15 DEF Exact
  <1>5. CASE ReadBank
    <2>1. PICK f \in Formats, s \in Nat, n \in 1..announced : InBlock(f, s, n)
      BY <1>0, <1>5 DEF Exact, ReadBank
    <2>2. /\ f[1] \in Nat \ {0} /\ f[2] \in Nat \ {0}
          /\ Count(f) \in Nat /\ Count(f) >= 5 /\ Size(f) \in Nat /\ Count(f) <= Size(f)
          /\ Size(f) <= Count(f) + 1
      BY Formatted
    <2>3. /\ Placed(stream, n, f, s) /\ InPlace(f)
          /\ \A i \in 1..Len(data) : data[i] = stream[s + i]
          /\ banks = [i \in 1..n - 1 |-> i]
      BY <2>1 DEF InBlock
    <2>4. /\ pc = "bank" /\ Store /\ UNCHANGED banks
          /\ Val.kind = "bank" => events' = Val.n /\ pc' = "event"
      BY <1>5 DEF ReadBank
    <2>5. Len(data) = 1 /\ taken = s + Len(data) /\ n = announced - ready + 1
      BY <2>1, <2>4 DEF InBlock, InPlace
    <2>6. 2 \in 1..Size(f) /\ taken = s + 2 - 1 /\ 2 # Count(f)
      BY <2>2, <2>5
    <2>7. taken < arrived /\ Val.kind = "bank" /\ Val.n = f[1] /\ Val.kind # "trailer"
      BY <1>0, <2>3, <2>6, NextWord
    <2>8. /\ Len(data') = 2 /\ taken' = s + Len(data')
          /\ \A i \in 1..Len(data') : data'[i] = stream'[s + i]
          /\ stream' = stream /\ announced' = announced /\ ready' = ready
      BY <1>0, <2>3, <2>4, <2>5, <2>7, StoreInBlock
    <2>9. InPlace(f)'
      <3>1. 0 \in 0..f[1] - 1 /\ Len(data') = 2 + 0 * (f[2] + 1) /\ f[1] = f[1] - 0
        BY <2>2, <2>8
      <3>2. \E k \in 0..f[1] - 1 : Len(data') = 2 + k * (f[2] + 1) /\ events' = f[1] - k
        BY <2>4, <2>7, <3>1
      <3>3. QED
        BY <2>4, <2>7, <3>2 DEF InPlace
    <2>10. InBlock(f, s, n)'
      BY <2>3, <2>4, <2>5, <2>7, <2>8, <2>9 DEF InBlock
    <2>11. QED
      BY <2>4, <2>7, <2>8, <2>10 DEF Exact
  <1>6. CASE ReadEvent
    <2>1. PICK f \in Formats, s \in Nat, n \in 1..announced : InBlock(f, s, n)
      BY <1>0, <1>6 DEF Exact, ReadEvent
    <2>2. /\ f[1] \in Nat \ {0} /\ f[2] \in Nat \ {0}
          /\ Count(f) \in Nat /\ Count(f) >= 5 /\ Size(f) \in Nat /\ Count(f) <= Size(f)
          /\ Size(f) <= Count(f) + 1
      BY Formatted
    <2>3. /\ Placed(stream, n, f, s) /\ InPlace(f)
          /\ \A i \in 1..Len(data) : data[i] = stream[s + i]
          /\ banks = [i \in 1..n - 1 |-> i]
      BY <2>1 DEF InBlock
    <2>4. /\ pc = "event" /\ Store /\ UNCHANGED <<events, banks>>
          /\ Val.kind = "event" => words' = Val.n /\ pc' = "words"
      BY <1>6 DEF ReadEvent
    <2>5. taken = s + Len(data) /\ n = announced - ready + 1
      BY <2>1, <2>4 DEF InBlock
    <2>6. PICK k \in 0..f[1] - 1 : Len(data) = 2 + k * (f[2] + 1) /\ events = f[1] - k
      BY <2>3, <2>4 DEF InPlace
    <2>7. PICK m \in Nat, w \in Nat \ {0}, c \in Nat :
            /\ w = f[2] /\ c = Count(f) /\ m = k * (f[2] + 1) /\ m % (f[2] + 1) = 0
            /\ m + w + 4 <= c
      BY EventAt
    <2>8. Len(data) = 2 + m
      BY <2>6, <2>7
    <2>9. PICK z \in Nat : z = Size(f) /\ c <= z
      BY <2>2, <2>7
    <2>10. m + w + 4 <= c
      BY <2>7
    <2>11. PICK p \in Nat : p = 3 + m
      OBVIOUS
    <2>12. p \in 1..z /\ p \in 3..c - 1 /\ p - 3 = m /\ p # c
      BY <2>9, <2>10, <2>11
    <2>13. taken = s + p - 1
      BY <2>5, <2>8, <2>11
    <2>14. p \in 1..Size(f) /\ p \in 3..Count(f) - 1 /\ p # Count(f) /\ (p - 3) % (f[2] + 1) = 0
      BY <2>7, <2>9, <2>12
    <2>15. taken < arrived /\ Val.kind = "event" /\ Val.n = f[2] /\ Val.kind # "trailer"
      BY <1>0, <2>3, <2>13, <2>14, NextWord
    <2>16. /\ Len(data') = Len(data) + 1 /\ taken' = s + Len(data')
           /\ \A i \in 1..Len(data') : data'[i] = stream'[s + i]
           /\ stream' = stream /\ announced' = announced /\ ready' = ready
      BY <1>0, <2>3, <2>4, <2>5, <2>15, StoreInBlock
    <2>17. InPlace(f)'
      <3>1. words' = w /\ Len(data') = 3 + m + (w - w)
        <4>1. words' = w
          BY <2>4, <2>7, <2>15
        <4>2. Len(data') = Len(data) + 1 /\ Len(data) = 2 + m
          BY <2>7, <2>8, <2>16
        <4>3. QED
          BY <4>1, <4>2
      <3>2. Len(data') = 3 + k * (f[2] + 1) + (f[2] - words') /\ words' <= f[2]
        BY <2>2, <2>7, <3>1
      <3>3. QED
        BY <2>4, <2>6, <2>15, <3>2 DEF InPlace
    <2>18. Len(data') > 0
      BY <1>0, <2>16
    <2>19. InBlock(f, s, n)'
      BY <2>3, <2>4, <2>5, <2>15, <2>16, <2>17, <2>18 DEF InBlock
    <2>20. QED
      BY <2>4, <2>15, <2>16, <2>19 DEF Exact
  <1>7. CASE ReadWord
    <2>1. PICK f \in Formats, s \in Nat, n \in 1..announced : InBlock(f, s, n)
      BY <1>0, <1>7 DEF Exact, ReadWord
    <2>2. /\ f[1] \in Nat \ {0} /\ f[2] \in Nat \ {0}
          /\ Count(f) \in Nat /\ Count(f) >= 5 /\ Size(f) \in Nat /\ Count(f) <= Size(f)
          /\ Size(f) <= Count(f) + 1
      BY Formatted
    <2>3. /\ Placed(stream, n, f, s) /\ InPlace(f)
          /\ \A i \in 1..Len(data) : data[i] = stream[s + i]
          /\ banks = [i \in 1..n - 1 |-> i]
      BY <2>1 DEF InBlock
    <2>4. /\ pc = "words" /\ Store /\ UNCHANGED banks /\ words' = words - 1
          /\ \/ words' > 0 /\ events' = events /\ pc' = "words"
             \/ /\ ~(words' > 0)
                /\ events' = events - 1 /\ pc' = IF events' > 0 THEN "event" ELSE "trailer"
          /\ words \in Nat /\ words > 0
      BY <1>7 DEF ReadWord, Inv, Local
    <2>5. taken = s + Len(data) /\ n = announced - ready + 1
      BY <2>1, <2>4 DEF InBlock
    <2>6. /\ words <= f[2]
          /\ \E k \in 0..f[1] - 1 :
               Len(data) = 3 + k * (f[2] + 1) + (f[2] - words) /\ events = f[1] - k
      BY <2>3, <2>4 DEF InPlace
    <2>7. PICK k \in 0..f[1] - 1 :
            Len(data) = 3 + k * (f[2] + 1) + (f[2] - words) /\ events = f[1] - k
      BY <2>6
    <2>8. PICK m \in Nat, w \in Nat \ {0}, c \in Nat :
            /\ w = f[2] /\ c = Count(f) /\ m = k * (f[2] + 1)
            /\ (k + 1) * (f[2] + 1) = m + w + 1
            /\ m + w + 4 <= c
            /\ k = f[1] - 1 => m + w + 4 = c
      BY EventAt
    <2>9. Len(data) = 3 + m + (w - words) /\ words <= w
      BY <2>6, <2>7, <2>8
    <2>10. PICK z \in Nat : z = Size(f) /\ c <= z
      BY <2>2, <2>8
    <2>11. m + w + 4 <= c
      BY <2>8
    <2>12. PICK p \in Nat : p = Len(data) + 1
      BY <1>0
    <2>13. p \in 1..z /\ p < c
      BY <2>4, <2>9, <2>10, <2>11, <2>12
    <2>14. taken = s + p - 1
      BY <1>0, <2>5, <2>12
    <2>15. p \in 1..Size(f) /\ p # Count(f)
      BY <2>8, <2>10, <2>13
    <2>16. taken < arrived /\ Val.kind # "trailer"
      BY <1>0, <2>3, <2>14, <2>15, NextWord
    <2>17. /\ Len(data') = Len(data) + 1 /\ taken' = s + Len(data')
           /\ \A i \in 1..Len(data') : data'[i] = stream'[s + i]
           /\ stream' = stream /\ announced' = announced /\ ready' = ready
      BY <1>0, <2>3, <2>4, <2>5, <2>16, StoreInBlock
    <2>18. InPlace(f)'
      <3>0. /\ words \in Nat /\ words > 0 /\ words' = words - 1
            /\ Len(data') = 4 + m + (w - words) /\ words <= w
        <4>1. Len(data') = Len(data) + 1
          BY <2>17
        <4>2. words \in Nat /\ words > 0 /\ words' = words - 1
          BY <2>4
        <4>3. QED
          BY <2>9, <4>1, <4>2
      <3>1. CASE words' > 0
        <4>1. Len(data') = 3 + m + (w - words') /\ words' <= w
          BY <3>0
        <4>2. Len(data') = 3 + k * (f[2] + 1) + (f[2] - words') /\ words' <= f[2]
          BY <2>8, <4>1
        <4>3. QED
          BY <2>4, <2>7, <3>1, <4>2 DEF InPlace
      <3>2. CASE ~(words' > 0)
        <4>1. words = 1 /\ Len(data') = 2 + (m + w + 1)
          BY <3>0, <3>2
        <4>2. events' = f[1] - (k + 1)
          BY <2>2, <2>4, <2>7, <3>2
        <4>3. CASE events' > 0
          <5>1. k + 1 \in 0..f[1] - 1 /\ pc' = "event"
            BY <2>2, <2>4, <3>2, <4>2, <4>3
          <5>2. Len(data') = 2 + (k + 1) * (f[2] + 1)
            BY <2>8, <4>1
          <5>3. QED
            BY <4>2, <5>1, <5>2 DEF InPlace
        <4>4. CASE ~(events' > 0)
          <5>1. k = f[1] - 1 /\ pc' = "trailer"
            BY <2>2, <2>4, <3>2, <4>2, <4>4
          <5>2. m + w + 4 = c
            BY <2>8, <5>1
          <5>3. Len(data') = c - 1
            BY <4>1, <5>2
          <5>4. QED
            BY <2>8, <5>1, <5>3 DEF InPlace
        <4>5. QED
          BY <4>3, <4>4
      <3>3. QED
        BY <3>1, <3>2
    <2>19. Len(data') > 0 /\ pc' \in {"words", "event", "trailer"}
      BY <1>0, <2>4, <2>17
    <2>20. InBlock(f, s, n)'
      BY <2>3, <2>4, <2>5, <2>17, <2>18, <2>19 DEF InBlock
    <2>21. QED
      BY <2>17, <2>19, <2>20 DEF Exact
  <1>8. CASE ReadTrailer
    <2>1. PICK f \in Formats, s \in Nat, n \in 1..announced : InBlock(f, s, n)
      BY <1>0, <1>8 DEF Exact, ReadTrailer
    <2>2. /\ f[1] \in Nat \ {0} /\ f[2] \in Nat \ {0}
          /\ Count(f) \in Nat /\ Count(f) >= 5 /\ Size(f) \in Nat /\ Count(f) <= Size(f)
          /\ Size(f) <= Count(f) + 1
      BY Formatted
    <2>3. /\ Placed(stream, n, f, s) /\ InPlace(f)
          /\ \A i \in 1..Len(data) : data[i] = stream[s + i]
          /\ banks = [i \in 1..n - 1 |-> i]
      BY <2>1 DEF InBlock
    <2>4. /\ pc = "trailer" /\ Store /\ UNCHANGED banks
          /\ pc' = IF Val.kind # "trailer" THEN "failed"
                   ELSE IF Len(data) % 2 = 0 THEN "filler" ELSE "check"
      BY <1>8 DEF ReadTrailer, HasFiller
    <2>5. Len(data) = Count(f) - 1 /\ taken = s + Len(data) /\ n = announced - ready + 1
      BY <2>1, <2>4 DEF InBlock, InPlace
    <2>6. PICK p \in Nat : p = Count(f)
      BY <2>2
    <2>7. p \in 1..Size(f) /\ taken = s + p - 1
      BY <2>2, <2>5, <2>6
    <2>8. taken < arrived /\ Val.kind = "trailer"
      BY <1>0, <2>3, <2>6, <2>7, NextWord
    <2>9. /\ Len(data') = Len(data) + 1 /\ taken' = s + Len(data')
          /\ \A i \in 1..Len(data') : data'[i] = stream'[s + i]
          /\ stream' = stream /\ announced' = announced /\ ready' = ready - 1
      BY <1>0, <2>3, <2>4, <2>5, <2>8, StoreInBlock
    <2>10. Len(data') = Count(f) /\ taken' = s + Count(f)
      BY <2>2, <2>5, <2>9
    <2>11. /\ pc' = IF Count(f) % 2 = 1 THEN "filler" ELSE "check"
           /\ Count(f) % 2 \in {0, 1}
      <3>1. PICK d \in Nat : d = Count(f) - 1
        BY <2>2
      <3>2. Count(f) = d + 1
        BY <2>2, <3>1
      <3>3. (d % 2 = 0 <=> (d + 1) % 2 = 1) /\ (d + 1) % 2 \in {0, 1}
        OBVIOUS
      <3>4. QED
        BY <2>4, <2>5, <2>8, <3>1, <3>2, <3>3
    <2>12. pc' = "check" => taken' = s + Size(f)
      BY <2>2, <2>10, <2>11 DEF Size
    <2>13. InPlace(f)'
      BY <2>10, <2>11 DEF InPlace
    <2>14. n = announced' - ready'
      BY <1>0, <2>5, <2>9
    <2>15. pc' \in {"filler", "check"} /\ Len(data') > 0
      BY <2>2, <2>10, <2>11
    <2>16. InBlock(f, s, n)'
      BY <2>3, <2>4, <2>9, <2>12, <2>13, <2>14, <2>15 DEF InBlock
    <2>17. QED
      BY <2>9, <2>15, <2>16 DEF Exact
  <1>9. CASE ReadFiller
    <2>1. PICK f \in Formats, s \in Nat, n \in 1..announced : InBlock(f, s, n)
      BY <1>0, <1>9 DEF Exact, ReadFiller
    <2>2. /\ f[1] \in Nat \ {0} /\ f[2] \in Nat \ {0}
          /\ Count(f) \in Nat /\ Count(f) >= 5 /\ Size(f) \in Nat /\ Count(f) <= Size(f)
          /\ Size(f) <= Count(f) + 1
      BY Formatted
    <2>3. /\ Placed(stream, n, f, s) /\ InPlace(f)
          /\ \A i \in 1..Len(data) : data[i] = stream[s + i]
          /\ banks = [i \in 1..n - 1 |-> i]
      BY <2>1 DEF InBlock
    <2>4. /\ pc = "filler" /\ pc' = "check" /\ Take /\ UNCHANGED <<data, banks>>
      BY <1>9 DEF ReadFiller
    <2>5. /\ Len(data) = Count(f) /\ taken = s + Len(data) /\ n = announced - ready
          /\ Count(f) % 2 = 1
      BY <2>1, <2>4 DEF InBlock, InPlace
    <2>6. Size(f) = Count(f) + 1
      BY <2>5 DEF Size
    <2>7. PICK p \in Nat : p = Count(f) + 1
      BY <2>2
    <2>8. p \in 1..Size(f) /\ taken = s + p - 1 /\ p # Count(f)
      BY <2>2, <2>5, <2>6, <2>7
    <2>9. taken < arrived /\ Val.kind # "trailer"
      BY <1>0, <2>3, <2>8, NextWord
    <2>10. /\ taken' = taken + 1
           /\ stream' = stream /\ announced' = announced /\ ready' = ready
      BY <1>0, <2>4, <2>9, TakeIs
    <2>11. taken' = s + Size(f)
      BY <2>2, <2>5, <2>6, <2>10
    <2>12. InPlace(f)'
      BY <2>4, <2>5 DEF InPlace
    <2>13. InBlock(f, s, n)'
      BY <2>1, <2>3, <2>4, <2>5, <2>10, <2>11, <2>12 DEF InBlock
    <2>14. QED
      BY <2>4, <2>10, <2>13 DEF Exact
  <1>10. CASE Finish
    <2>1. PICK f \in Formats, s \in Nat, n \in 1..announced : InBlock(f, s, n)
      BY <1>0, <1>10 DEF Exact, Finish
    <2>2. /\ f[1] \in Nat \ {0} /\ f[2] \in Nat \ {0}
          /\ Count(f) \in Nat /\ Count(f) >= 5 /\ Size(f) \in Nat /\ Count(f) <= Size(f)
          /\ Size(f) <= Count(f) + 1
      BY Formatted
    <2>3. /\ Placed(stream, n, f, s) /\ InPlace(f)
          /\ \A i \in 1..Len(data) : data[i] = stream[s + i]
          /\ banks = [i \in 1..n - 1 |-> i]
      BY <2>1 DEF InBlock
    <2>4. /\ pc \in {"check", "failed"} /\ pc' = "idle"
          /\ UNCHANGED <<stream, arrived, announced, taken, ready>>
          /\ pc = "check" /\ IsBlock(data) => banks' = Append(banks, data[Head1(data)].blk)
      BY <1>10 DEF Finish, board
    <2>5. /\ pc = "check" /\ Len(data) = Count(f) /\ taken = s + Size(f)
          /\ n = announced - ready
      BY <2>1, <2>4 DEF InBlock, InPlace
    <2> DEFINE b == Block(n, f[1], f[2], f[3])
    <2>6. Shaped(b, n, f)
      <3>1. n \in Nat
        BY <1>0
      <3>2. QED
        BY <3>1, BlockIs
    <2>7. s + Len(b) <= Len(stream) /\ \A q \in 1..Len(b) : stream[s + q] = b[q]
      BY <2>3 DEF Placed
    <2> HIDE DEF b
    <2> DEFINE L == Len(data)
    <2>8. Len(b) = Size(f) /\ L \in Nat /\ L >= 5 /\ DOMAIN data = 1..L
          /\ \A q \in 1..L : data[q] = b[q]
      <3>1. Len(b) = Size(f)
        BY <2>6 DEF Shaped
      <3>2. L \in Nat /\ L >= 5 /\ 1..L \subseteq 1..Len(b)
        BY <2>2, <2>5, <3>1
      <3>3. DOMAIN data = 1..L
        BY <1>0
      <3>4. QED
        BY <2>3, <2>7, <3>1, <3>2, <3>3
    <2>9. /\ data[1].kind = "header" /\ data[1].blk = n
          /\ data[L].kind = "trailer" /\ data[L].n = L
      <3>1. 1 \in 1..Len(b) /\ L \in 1..Len(b) /\ L = Count(f) /\ 1 \in 1..L /\ L \in 1..L
        BY <2>2, <2>5, <2>8
      <3>2. data[1] = b[1] /\ data[L] = b[L]
        BY <2>8, <3>1
      <3>3. QED
        BY <2>6, <3>1, <3>2 DEF Shaped
    <2>10. Head1(data) = 1
      <3>1. 1 \in At(data, "header") /\ \A i \in At(data, "header") : i \in Nat /\ 1 <= i
        BY <2>8, <2>9 DEF At
      <3>2. QED
        BY <3>1 DEF Head1
    <2>11. Trailer(data) = L
      <3>1. L \in At(data, "trailer") /\ \A i \in At(data, "trailer") : i \in Nat /\ i <= L
        BY <2>8, <2>9 DEF At
      <3>2. QED
        BY <2>8, <3>1 DEF Trailer
    <2>12. IsBlock(data)
      <3>1. At(data, "header") # {} /\ At(data, "trailer") # {}
        BY <2>8, <2>9 DEF At
      <3>2. Consistent(data)
        BY <2>8, <2>9, <2>10, <2>11 DEF Consistent
      <3>3. QED
        BY <3>1, <3>2 DEF IsBlock
    <2>13. banks' = Append(banks, n)
      BY <2>4, <2>5, <2>9, <2>10, <2>12
    <2>14. banks' = [i \in 1..n |-> i]
      <3>1. PICK v \in Nat : v = n - 1
        BY <1>0
      <3>2. n = v + 1 /\ banks = [i \in 1..v |-> i]
        BY <1>0, <2>3, <3>1
      <3>3. Append([i \in 1..v |-> i], v + 1) = [i \in 1..v + 1 |-> i]
        OBVIOUS
      <3>4. QED
        BY <2>13, <3>2, <3>3
    <2>15. taken < Len(stream) => stream[taken + 1].pos = 1
      <3> SUFFICES ASSUME taken < Len(stream) PROVE stream[taken + 1].pos = 1
        OBVIOUS
      <3>1. PICK i \in 1..Len(stream) : i = taken + 1
        BY <1>0
      <3>2. i - 1 = s + Size(f)
        BY <1>0, <2>5, <3>1
      <3>3. QED
        BY <1>0, <2>3, <3>1, <3>2, BlockEnds
    <2>16. QED
      BY <2>4, <2>5, <2>14, <2>15 DEF Exact
  <1>11. CASE UNCHANGED vars
    BY <1>11 DEF vars, board, reader, Exact, InBlock, InPlace
  <1>12. QED
    BY <1>1, <1>2, <1>3, <1>4, <1>5, <1>6, <1>7, <1>8, <1>9, <1>10, <1>11 DEF Next, Read

\* When every word of a block is in the FIFO before the block is announced,
\* between two calls each block that has left the board has been returned.
THEOREM EveryBlockReturned == Spec => []NothingLost
  <1>1. Init => Inv /\ Exact
    <2>1. Init => Exact
      BY DEF Init, Exact
    <2>2. QED
      BY <2>1, Start
  <1>2. (Inv /\ Exact) /\ [Next]_vars => (Inv /\ Exact)'
    BY Inductive, ExactKept
  <1>3. Inv /\ Exact => NothingLost
    BY DEF Exact, NothingLost
  <1>4. QED
    BY <1>1, <1>2, <1>3, PTL DEF Spec

=============================================================================
