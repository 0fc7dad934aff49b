---------------------------- MODULE TipBankProofs ----------------------------
(***************************************************************************)
(* Lemmas on blocks and banks, for any block level and event format: what  *)
(* the words of a block are, and what a bank has of them.                  *)
(***************************************************************************)
EXTENDS TipBank, WellFoundedInduction, TLAPS

Words == [kind : Kinds \ {"length"}, n : Nat, blk : Nat, pos : Nat]
Items == [kind : Kinds, n : Int, blk : Nat, pos : Nat]

\* A block's level, the words of an event of it, and what they look like.
Layouts == (Nat \ {0}) \X (Nat \ {0}) \X {"data", "header", "event"}

Count(f) == 3 + f[1] * (f[2] + 1)

Size(f) == Count(f) + (Count(f) % 2)

-----------------------------------------------------------------------------

LEMMA LayoutIs ==
  ASSUME NEW f \in Layouts
  PROVE  /\ f[1] \in Nat \ {0} /\ f[2] \in Nat \ {0} /\ f[3] \in {"data", "header", "event"}
         /\ Count(f) \in Nat /\ Count(f) >= 5
         /\ Size(f) \in Nat /\ Size(f) \in {Count(f), Count(f) + 1}
  <1>1. f[1] \in Nat \ {0} /\ f[2] \in Nat \ {0} /\ f[3] \in {"data", "header", "event"}
    BY DEF Layouts
  <1>2. f[1] * (f[2] + 1) \in Nat /\ f[1] * (f[2] + 1) >= 2
    <2>1. (f[1] - 1) * (f[2] + 1) >= 0
      BY <1>1
    <2>2. (f[1] - 1) * (f[2] + 1) = f[1] * (f[2] + 1) - (f[2] + 1)
      BY <1>1
    <2>3. f[1] * (f[2] + 1) \in Nat
      BY <1>1
    <2>4. QED
      BY <1>1, <2>1, <2>2, <2>3
  <1>3. Count(f) \in Nat /\ Count(f) >= 5
    BY <1>2 DEF Count
  <1>4. Size(f) \in Nat /\ Size(f) \in {Count(f), Count(f) + 1}
    <2> HIDE DEF Count
    <2>1. Count(f) % 2 \in {0, 1}
      BY <1>3
    <2>2. QED
      BY <1>3, <2>1 DEF Size
  <1>5. QED
    BY <1>1, <1>3, <1>4

LEMMA ElementOf ==
  ASSUME NEW S, NEW q \in Seq(S)
  PROVE  /\ DOMAIN q = 1..Len(q) /\ Len(q) \in Nat
         /\ \A i \in DOMAIN q : q[i] \in S
  OBVIOUS

LEMMA WordOf ==
  ASSUME NEW t \in Seq(Words), NEW i \in 1..Len(t)
  PROVE  /\ t[i] \in Words /\ Len(t) \in Nat /\ i \in Nat
         /\ t[i].kind \in Kinds /\ t[i].n \in Nat /\ t[i].blk \in Nat /\ t[i].pos \in Nat
  <1>1. t[i] \in Words /\ Len(t) \in Nat /\ i \in Nat
    OBVIOUS
  <1>2. QED
    BY <1>1 DEF Words

LEMMA Joined ==
  ASSUME NEW t \in Seq(Words), NEW b \in Seq(Words)
  PROVE  /\ t \o b \in Seq(Words)
         /\ Len(t \o b) = Len(t) + Len(b) /\ Len(t) \in Nat /\ Len(b) \in Nat
         /\ \A i \in 1..Len(t) : (t \o b)[i] = t[i]
         /\ \A q \in 1..Len(b) : (t \o b)[Len(t) + q] = b[q]
  OBVIOUS

\* The kind, number, block and position of each word of b.
Shaped(b, n, f) ==
  /\ b \in Seq(Words) /\ Len(b) = Size(f)
  /\ \A q \in 1..Len(b) :
       /\ b[q].blk = n /\ b[q].pos = q
       /\ b[q].kind # "empty"
       /\ q = 1 => b[q].kind = "header" /\ b[q].n = f[1]
       /\ b[q].kind = "bank" <=> q = 2
       /\ b[q].kind = "bank" => b[q].n = f[1]
       /\ b[q].kind = "trailer" <=> q = Count(f)
       /\ b[q].kind = "trailer" => b[q].n = q
       /\ b[q].kind = "event" => b[q].n = f[2]
       /\ (q - 3) % (f[2] + 1) = 0 /\ q \in 3..Count(f) - 1 => b[q].kind = "event"

LEMMA BlockShape ==
  ASSUME NEW n \in Nat, NEW f \in Layouts
  PROVE  Shaped(Block(n, f[1], f[2], f[3]), n, f)
  <1> DEFINE b == Block(n, f[1], f[2], f[3])
  <1> DEFINE c == Count(f)
             size == c + (c % 2)
  <1>1. /\ f[1] \in Nat \ {0} /\ f[2] \in Nat \ {0} /\ f[3] \in {"data", "header", "event"}
        /\ c \in Nat /\ c >= 5 /\ c % 2 \in 0..1
    <2>1. /\ f[1] \in Nat \ {0} /\ f[2] \in Nat \ {0} /\ f[3] \in {"data", "header", "event"}
          /\ c \in Nat /\ c >= 5
      BY LayoutIs
    <2> HIDE DEF c
    <2>2. c % 2 \in 0..1
      BY <2>1
    <2>3. QED
      BY <2>1, <2>2
  <1>2. size \in Nat
    BY <1>1
  <1> DEFINE word(q) ==
        IF q = 1 THEN Word("header", f[1], n, q)
        ELSE IF q = 2 THEN Word("bank", f[1], n, q)
        ELSE IF q = c THEN Word("trailer", c, n, q)
        ELSE IF q > c THEN Word("filler", 0, n, q)
        ELSE IF (q - 3) % (f[2] + 1) = 0 THEN Word("event", f[2], n, q)
        ELSE Word(f[3], f[2], n, q)
  <1>3. b = [q \in 1..size |-> word(q)]
    BY DEF Block, Count
  <1> HIDE DEF b
  <1>4. \A q \in 1..size : word(q) \in Words
    BY <1>1, <1>2 DEF Word, Words, Kinds
  <1> HIDE DEF c, size
  <1>5. b \in Seq(Words)
    <2> HIDE DEF word
    <2>1. b \in [1..size -> Words]
      BY <1>3, <1>4
    <2>2. QED
      BY <1>2, <2>1
  <1>6. Len(b) = size
    <2> HIDE DEF word
    <2>1. QED
      BY <1>2, <1>3
  <1>7. \A q \in 1..size :
              /\ b[q].blk = n /\ b[q].pos = q
              /\ b[q].kind # "empty"
              /\ q = 1 => b[q].kind = "header" /\ b[q].n = f[1]
              /\ b[q].kind = "bank" <=> q = 2
              /\ b[q].kind = "bank" => b[q].n = f[1]
              /\ b[q].kind = "trailer" <=> q = c
              /\ b[q].kind = "trailer" => b[q].n = q
              /\ b[q].kind = "event" => b[q].n = f[2]
              /\ (q - 3) % (f[2] + 1) = 0 /\ q \in 3..c - 1 => b[q].kind = "event"
    <2> TAKE q \in 1..size
    <2>1. b[q] = word(q)
      BY <1>3
    <2>2. QED
      BY <1>1, <1>2, <2>1 DEF Word
  <1>8. Shaped(b, n, f)
    BY <1>5, <1>6, <1>7 DEF Shaped, Size, c, size
  <1>9. QED
    BY <1>8 DEF b

LEMMA BankIs ==
  ASSUME NEW d \in Seq(Words), Head1(d) = 1, Trailer(d) = Len(d), Len(d) >= 2
  PROVE  /\ Bank(d) \in Seq(Items) /\ Len(Bank(d)) = Len(d) - 1
         /\ Bank(d)[1].kind = "length" /\ Bank(d)[1].n = Len(d) - 2
         /\ \A i \in 2..Len(d) - 1 : Bank(d)[i] = d[i]
  <1> DEFINE L == Len(d)
             w == Word("length", Length(d), 0, 0)
  <1>1. L \in Nat /\ L >= 2
    OBVIOUS
  <1>2. w \in Items /\ w.kind = "length" /\ w.n = L - 2
    <2>1. Length(d) = L - 2
      BY <1>1 DEF Length
    <2>2. QED
      BY <1>1, <2>1 DEF Word, Items, Kinds
  <1>3. SubSeq(d, 1, L - 1) = [i \in 1..L - 1 |-> d[i]]
    BY <1>1
  <1>4. Bank(d) = [i \in 1..L - 1 |-> IF i = 1 THEN w ELSE d[i]]
    <2>1. Bank(d) = [SubSeq(d, 1, L - 1) EXCEPT ![1] = w]
      BY DEF Bank
    <2> HIDE DEF w, L
    <2>2. QED
      BY <1>1, <1>3, <2>1
  <1>5. \A i \in 1..L - 1 : d[i] \in Items
    <2> SUFFICES ASSUME NEW i \in 1..L - 1 PROVE d[i] \in Items
      OBVIOUS
    <2>1. d[i] \in Words
      BY <1>1
    <2>2. Words \subseteq Items
      BY DEF Words, Items
    <2>3. QED
      BY <2>1, <2>2
  <1> HIDE DEF w
  <1>6. Bank(d) \in Seq(Items) /\ Len(Bank(d)) = L - 1
    <2> DEFINE v(i) == IF i = 1 THEN w ELSE d[i]
    <2>1. \A i \in 1..L - 1 : v(i) \in Items
      BY <1>2, <1>5
    <2>2. Bank(d) = [i \in 1..L - 1 |-> v(i)]
      BY <1>4
    <2>3. L - 1 \in Nat
      BY <1>1
    <2> HIDE DEF v, L
    <2>4. QED
      BY <2>1, <2>2, <2>3
  <1>7. Bank(d)[1] = w
    BY <1>1, <1>4
  <1>8. QED
    BY <1>1, <1>2, <1>4, <1>6, <1>7

\* A bank has the words of the block from the second on, without the trailer.
LEMMA BankHas ==
  ASSUME NEW d, Head1(d) = 1, Trailer(d) \in Nat, Trailer(d) >= 2
  PROVE  /\ Len(Bank(d)) = Trailer(d) - 1
         /\ \A i \in 2..Trailer(d) - 1 : Bank(d)[i] = d[i]
  <1> DEFINE T == Trailer(d)
             w == Word("length", Length(d), 0, 0)
  <1>1. T \in Nat /\ T >= 2
    OBVIOUS
  <1>2. Bank(d) = [SubSeq(d, 1, T - 1) EXCEPT ![1] = w]
    BY DEF Bank
  <1> HIDE DEF T, w
  <1>3. SubSeq(d, 1, T - 1) = [i \in 1..T - 1 |-> d[i]]
    BY <1>1
  <1>4. Bank(d) = [i \in 1..T - 1 |-> IF i = 1 THEN w ELSE d[i]]
    BY <1>1, <1>2, <1>3
  <1>5. T - 1 \in Nat
    BY <1>1
  <1>6. Len(Bank(d)) = T - 1
    BY <1>4, <1>5
  <1>7. \A i \in 2..T - 1 : Bank(d)[i] = d[i]
    BY <1>1, <1>4
  <1>8. QED
    BY <1>6, <1>7 DEF T

-----------------------------------------------------------------------------
(* Where the events of a block are *)

LEMMA MultipleHasNoRest ==
  ASSUME NEW k \in Nat, NEW m \in Nat \ {0}
  PROVE  (k * m) % m = 0 /\ k * m \in Nat
  <1> DEFINE p == k * m
             q == p \div m
             r == p % m
  <1>1. p \in Nat
    OBVIOUS
  <1>2. r \in 0..m - 1 /\ q \in Nat /\ p = m * q + r
    <2> HIDE DEF p
    <2>1. QED
      BY <1>1
  <1> HIDE DEF q, r
  <1>3. r = m * (k - q)
    BY <1>2
  <1>4. k - q <= -1 => m * (k - q) < 0
    <2>1. k - q <= -1 => m * (-1 - (k - q)) >= 0
      BY <1>2
    <2>2. QED
      BY <1>2, <2>1
  <1>5. k - q >= 1 => m * (k - q) >= m
    <2>1. k - q >= 1 => m * (k - q - 1) >= 0
      BY <1>2
    <2>2. QED
      BY <1>2, <2>1
  <1>6. k - q = 0
    BY <1>2, <1>3, <1>4, <1>5
  <1>7. r = 0
    BY <1>3, <1>6
  <1>8. QED
    BY <1>1, <1>7 DEF r

\* The words before event k of a block, and those up to the event after it.
LEMMA EventPlace ==
  ASSUME NEW f \in Layouts, NEW k \in 0..f[1] - 1
  PROVE  \E m \in Nat, w \in Nat \ {0}, c \in Nat :
           /\ w = f[2] /\ c = Count(f) /\ m = k * (f[2] + 1) /\ m % (f[2] + 1) = 0
           /\ (k + 1) * (f[2] + 1) = m + w + 1
           /\ m + w + 4 <= c
           /\ k = f[1] - 1 => m + w + 4 = c
  <1>1. /\ f[1] \in Nat \ {0} /\ f[2] \in Nat \ {0} /\ Count(f) \in Nat
    BY LayoutIs
  <1>2. PICK l \in Nat \ {0}, w \in Nat \ {0} : l = f[1] /\ w = f[2]
    BY <1>1
  <1>3. k \in 0..l - 1
    BY <1>2
  <1>4. Count(f) = 3 + l * (w + 1)
    BY <1>2 DEF Count
  <1>5. PICK m \in Nat : m = k * (w + 1)
    BY <1>3
  <1>6. PICK a \in Nat : a = l * (w + 1)
    OBVIOUS
  <1>7. (k + 1) * (w + 1) = m + w + 1
    BY <1>3, <1>5
  <1>8. m + w + 1 <= a /\ (k = l - 1 => m + w + 1 = a)
    <2>1. (l - 1 - k) * (w + 1) >= 0
      BY <1>3
    <2>2. (l - 1 - k) * (w + 1) = a - (w + 1) - m
      BY <1>3, <1>5, <1>6
    <2>3. k = l - 1 => (l - 1 - k) * (w + 1) = 0
      BY <1>3
    <2>4. QED
      BY <2>1, <2>2, <2>3
  <1>9. m % (w + 1) = 0
    <2>1. PICK x \in Nat \ {0} : x = w + 1
      OBVIOUS
    <2>2. PICK j \in Nat : j = k
      BY <1>3
    <2>3. (j * x) % x = 0
      BY MultipleHasNoRest
    <2>4. QED
      BY <1>5, <2>1, <2>2, <2>3
  <1>10. PICK c \in Nat : c = Count(f) /\ c = 3 + a
    BY <1>1, <1>4, <1>6
  <1>11. m + w + 4 <= c /\ (k = l - 1 => m + w + 4 = c)
    BY <1>8, <1>10
  <1>12. QED
    BY <1>2, <1>5, <1>7, <1>9, <1>10, <1>11

-----------------------------------------------------------------------------
(* What the readers of a bank make of it *)

LEMMA Smallest ==
  ASSUME NEW T, T \subseteq Nat, T # {}
  PROVE  \E x \in T : \A y \in T : x <= y
  <1> DEFINE R == OpToRel(<, Nat)
  <1>1. \E x \in T : \A y \in T : <<y, x>> \notin R
    <2>1. IsWellFoundedOn(R, Nat)
      BY NatLessThanWellFounded
    <2> HIDE DEF R
    <2>2. QED
      BY <2>1, WFMin
  <1>2. \A x, y \in Nat : <<y, x>> \notin R => x <= y
    BY DEF OpToRel
  <1>3. QED
    BY <1>1, <1>2

\* A bank as tipReadTriggerBlock makes it of a block of layout f: the length in
\* place of the header, and the words of the block up to the trailer.
Banked(b, f) ==
  /\ DOMAIN b = 1..Len(b) /\ Len(b) = Count(f) - 1
  /\ b[1].kind = "length" /\ b[1].n = Count(f) - 2
  /\ \A q \in 2..Len(b) :
       /\ b[q].pos = q /\ b[q].n \in Nat
       /\ b[q].kind = "bank" <=> q = 2
       /\ b[q].kind = "bank" => b[q].n = f[1]
       /\ b[q].kind = "event" => b[q].n = f[2]
       /\ (q - 3) % (f[2] + 1) = 0 /\ q \in 3..Count(f) - 1 => b[q].kind = "event"

\* The header of event k + 1 is where the event's place in the block is.
LEMMA HeaderAt ==
  ASSUME NEW f \in Layouts, NEW b, Banked(b, f), NEW k \in 0..f[1] - 1
  PROVE  \E p \in 3..Len(b) :
           /\ p = 3 + k * (f[2] + 1) /\ 3 + (k + 1) * (f[2] + 1) = p + f[2] + 1
           /\ b[p].kind = "event" /\ b[p].n = f[2]
           /\ p + f[2] <= Len(b)
  <1>1. PICK m \in Nat, w \in Nat \ {0}, c \in Nat :
           /\ w = f[2] /\ c = Count(f) /\ m = k * (f[2] + 1) /\ m % (f[2] + 1) = 0
           /\ (k + 1) * (f[2] + 1) = m + w + 1
           /\ m + w + 4 <= c
    BY EventPlace
  <1>2. PICK p \in Nat : p = m + 3
    OBVIOUS
  <1>3. Len(b) = c - 1
    BY <1>1 DEF Banked
  <1>4. p \in 3..c - 1 /\ p \in 2..Len(b) /\ p - 3 = m /\ p + w <= Len(b)
    <2>1. m + w + 4 <= c
      BY <1>1
    <2>2. QED
      BY <1>2, <1>3, <2>1
  <1>5. b[p].kind = "event" /\ b[p].n = f[2]
    BY <1>1, <1>4 DEF Banked
  <1>6. p = 3 + k * (f[2] + 1) /\ 3 + (k + 1) * (f[2] + 1) = p + f[2] + 1
    <2>1. 3 + m = p /\ 3 + (m + w + 1) = p + w + 1
      BY <1>2
    <2>2. QED
      BY <1>1, <2>1
  <1>7. QED
    BY <1>1, <1>3, <1>4, <1>5, <1>6

\* tipCheckTriggerBlock goes from header to header and ends at the bank's end.
LEMMA CheckAccepts ==
  ASSUME NEW f \in Layouts, NEW b, Banked(b, f)
  PROVE  CheckTriggerBlock(b)
  <1>1. PICK l \in Nat \ {0}, w \in Nat \ {0}, c \in Nat :
           l = f[1] /\ w = f[2] /\ c = Count(f) /\ c >= 5
    BY LayoutIs
  <1>2. Len(b) = c - 1 /\ b[1].n = c - 2
    BY <1>1 DEF Banked
  <1>3. b[2].kind = "bank" /\ b[2].n = l
    <2>1. 2 \in 2..Len(b)
      BY <1>1, <1>2
    <2>2. QED
      BY <1>1, <2>1 DEF Banked
  <1> DEFINE Step(next) ==
        [iev \in 0..l |->
           IF iev = 0 THEN 2
           ELSE LET iword == next[iev - 1]
                IN IF iword > c - 2 THEN c
                   ELSE IF b[iword + 1].kind # "event" THEN c
                   ELSE iword + 1 + Larger(b[iword + 1].n, 1)]
             at(iev) == 2 + iev * (w + 1)
             W == [iev \in 0..l |-> at(iev)]
  <1>4. ASSUME NEW iev \in 1..l
        PROVE  /\ iev - 1 \in 0..l /\ at(iev - 1) \in Nat /\ at(iev - 1) <= c - 2
               /\ b[at(iev - 1) + 1].kind = "event"
               /\ at(iev) = at(iev - 1) + 1 + Larger(b[at(iev - 1) + 1].n, 1)
    <2>1. PICK k \in Nat : k = iev - 1 /\ k + 1 = iev /\ k \in 0..l - 1 /\ k \in 0..l
      OBVIOUS
    <2>2. PICK p \in 3..Len(b) :
           /\ p = 3 + k * (w + 1) /\ 3 + (k + 1) * (w + 1) = p + w + 1
           /\ b[p].kind = "event" /\ b[p].n = w
           /\ p + w <= Len(b)
      BY <1>1, <2>1, HeaderAt
    <2>3. PICK m \in Nat : m = k * (w + 1)
      BY <2>1
    <2>4. PICK n \in Nat : n = (k + 1) * (w + 1)
      BY <2>1
    <2>5. at(k) = p - 1 /\ at(k) + 1 = p /\ at(k + 1) = p + w
      BY <2>2, <2>3, <2>4
    <2>6. Larger(b[p].n, 1) = w
      BY <2>2 DEF Larger
    <2> HIDE DEF at
    <2>7. QED
      BY <1>2, <2>1, <2>2, <2>5, <2>6
  <1>5. at(0) = 2
    BY <1>1
  <1> HIDE DEF at
  <1>6. W = Step(W)
    <2> SUFFICES ASSUME NEW iev \in 0..l PROVE W[iev] = Step(W)[iev]
      OBVIOUS
    <2>1. CASE iev = 0
      BY <1>5, <2>1
    <2>2. CASE iev \in 1..l
      <3>1. W[iev - 1] = at(iev - 1) /\ W[iev] = at(iev)
        BY <1>4, <2>2
      <3>2. Step(W)[iev] = at(iev - 1) + 1 + Larger(b[at(iev - 1) + 1].n, 1)
        <4> HIDE DEF W
        <4>1. ~(W[iev - 1] > c - 2) /\ iev # 0
          BY <1>1, <1>4, <2>2, <3>1
        <4>2. QED
          BY <1>4, <2>2, <3>1, <4>1
      <3>3. QED
        BY <1>4, <2>2, <3>1, <3>2
    <2>3. QED
      BY <2>1, <2>2
  <1> HIDE DEF W
  <1> DEFINE blen == b[1].n
             level == b[2].n
             Walk(next) ==
               [iev \in 0..level |->
                  IF iev = 0 THEN 2
                  ELSE LET iword == next[iev - 1]
                       IN IF iword > blen THEN blen + 2
                          ELSE IF b[iword + 1].kind # "event" THEN blen + 2
                          ELSE iword + 1 + Larger(b[iword + 1].n, 1)]
             F == CHOOSE next : next = Walk(next)
  <1>7. F = Step(F)
    <2>1. blen = c - 2 /\ blen + 2 = c /\ level = l
      BY <1>1, <1>2, <1>3
    <2>2. \A g : Walk(g) = Step(g)
      <3> HIDE DEF blen, level
      <3>1. QED
        BY <2>1
    <2>3. W = Walk(W)
      BY <1>6, <2>2
    <2> HIDE DEF Walk, Step
    <2>4. F = Walk(F)
      BY <2>3
    <2>5. QED
      BY <2>2, <2>4
  <1>8. CheckTriggerBlock(b) <=> F[l] <= c - 1
    <2>1. CheckTriggerBlock(b) <=> b[2].kind = "bank" /\ blen >= 1 /\ F[level] <= blen + 1
      BY DEF CheckTriggerBlock
    <2>2. blen >= 1 /\ blen + 1 = c - 1 /\ level = l
      BY <1>1, <1>2, <1>3
    <2> HIDE DEF F, blen, level
    <2>3. QED
      BY <1>3, <2>1, <2>2
  <1> HIDE DEF F
  <1>9. \A iev \in 0..l : F[iev] = at(iev)
    <2> DEFINE T == {iev \in 0..l : F[iev] # at(iev)}
    <2> SUFFICES ASSUME T # {} PROVE FALSE
      OBVIOUS
    <2>1. PICK x \in T : \A y \in T : x <= y
      <3>1. T \subseteq Nat
        OBVIOUS
      <3> HIDE DEF T
      <3>2. QED
        BY <3>1, Smallest
    <2>2. x \in 0..l /\ F[x] # at(x)
      OBVIOUS
    <2>3. x # 0 => F[x - 1] = at(x - 1) /\ x - 1 \in 0..l
      BY <2>1, <2>2
    <2> HIDE DEF T
    <2>4. F[x] = Step(F)[x]
      BY <1>7
    <2>5. CASE x = 0
      BY <1>5, <2>2, <2>4, <2>5
    <2>6. CASE x \in 1..l
      <3>1. ~(F[x - 1] > c - 2) /\ x # 0
        BY <1>1, <1>4, <2>3, <2>6
      <3>2. F[x] = at(x - 1) + 1 + Larger(b[at(x - 1) + 1].n, 1)
        BY <1>4, <2>2, <2>3, <2>4, <2>6, <3>1
      <3>3. QED
        BY <1>4, <2>2, <2>6, <3>2
    <2>7. QED
      BY <2>2, <2>5, <2>6
  <1>10. at(l) = c - 1
    <2>1. c = 3 + l * (w + 1)
      BY <1>1 DEF Count
    <2>2. PICK m \in Nat : m = l * (w + 1)
      OBVIOUS
    <2>3. QED
      BY <1>1, <2>1, <2>2 DEF at
  <1>11. QED
    BY <1>1, <1>8, <1>9, <1>10

\* f[x] is the value of what a search comes to that goes from x to succ[x] until
\* it is in stop.
Finds(f, D, stop, val, succ) ==
  \A x \in D : f[x] = IF x \in stop THEN val[x] ELSE f[succ[x]]

\* There is such a function, whether or not the searches end: what is reached
\* from x is in all sets that x is in and that succ does not leave.
LEMMA TailRecursion ==
  ASSUME NEW D, NEW stop, NEW val, NEW succ \in [D -> D]
  PROVE  \E f : Finds(f, D, stop, val, succ)
  <1> DEFINE Closed(S) == \A x \in S : x \notin stop => succ[x] \in S
             Reach(x)  == {y \in D \cap stop : \A S \in SUBSET D : x \in S /\ Closed(S) => y \in S}
             Value(R)  == val[CHOOSE y \in R : TRUE]
             F         == [x \in D |-> Value(Reach(x))]
  <1>1. ASSUME NEW x \in D, x \in stop
        PROVE  Reach(x) = {x}
    BY <1>1
  <1>2. ASSUME NEW x \in D, x \notin stop
        PROVE  Reach(x) = Reach(succ[x])
    <2>1. succ[x] \in D
      OBVIOUS
    <2>2. ASSUME NEW y \in Reach(succ[x]) PROVE y \in Reach(x)
      BY <1>2, <2>1
    <2>3. ASSUME NEW y \in Reach(x) PROVE y \in Reach(succ[x])
      <3> SUFFICES ASSUME NEW S \in SUBSET D, succ[x] \in S, Closed(S) PROVE y \in S
        OBVIOUS
      <3>1. S \union {x} \in SUBSET D /\ Closed(S \union {x})
        OBVIOUS
      <3>2. QED
        BY <1>2, <3>1
    <2>4. QED
      BY <2>2, <2>3
  <1>3. ASSUME NEW x \in D
        PROVE  F[x] = IF x \in stop THEN val[x] ELSE F[succ[x]]
    <2>1. CASE x \in stop
      <3>1. F[x] = Value({x})
        BY <1>1, <2>1
      <3>2. QED
        BY <2>1, <3>1
    <2>2. CASE x \notin stop
      <3> HIDE DEF Reach, Value
      <3>1. succ[x] \in D
        OBVIOUS
      <3>2. QED
        BY <1>2, <2>2, <3>1
    <2>3. QED
      BY <2>1, <2>2
  <1> HIDE DEF Reach, Value
  <1> HIDE DEF F
  <1>4. Finds(F, D, stop, val, succ)
    BY <1>3 DEF Finds
  <1>5. QED
    BY <1>4


\* tipDecodeTriggerType goes from header to header up to the one asked for.
LEMMA DecodeFinds ==
  ASSUME NEW f \in Layouts, NEW b, Banked(b, f), NEW event \in 1..f[1]
  PROVE  DecodeTriggerType(b, event) = b[3 + (event - 1) * (f[2] + 1)]
  <1>1. PICK l \in Nat \ {0}, w \in Nat \ {0}, c \in Nat :
           l = f[1] /\ w = f[2] /\ c = Count(f) /\ c >= 5
    BY LayoutIs
  <1>2. PICK len \in Nat : len = Len(b) /\ len = c - 1
    BY <1>1 DEF Banked
  <1>3. \A q \in 2..len : b[q].n \in Nat /\ (b[q].kind = "bank" <=> q = 2)
    BY <1>2 DEF Banked
  <1>4. b[2].kind = "bank" /\ b[2].n = l
    BY <1>1, <1>2 DEF Banked
  <1>5. At(b, "bank") = {2}
    <2>1. DOMAIN b = 1..len /\ b[1].kind = "length"
      BY <1>2 DEF Banked
    <2>2. \A i \in 1..len : b[i].kind = "bank" <=> i = 2
      <3> SUFFICES ASSUME NEW i \in 1..len PROVE b[i].kind = "bank" <=> i = 2
        OBVIOUS
      <3>1. CASE i = 1
        BY <2>1, <3>1
      <3>2. CASE i \in 2..len
        BY <1>3, <3>2
      <3>3. QED
        BY <3>1, <3>2
    <2>3. QED
      BY <1>1, <1>2, <2>1, <2>2 DEF At
  <1>6. DecodeTriggerType(b, event) = FindEvent(b, l, event)[<<3, 1>>]
    <2>1. (CHOOSE i \in {2} : \A j \in {2} : i <= j) = 2
      OBVIOUS
    <2>2. ~(event > l) /\ 2 + 1 = 3
      BY <1>1
    <2>3. QED
      BY <1>4, <1>5, <2>1, <2>2 DEF DecodeTriggerType
  <1> DEFINE D == (1..len + 1) \X (1..l + 1)
             past(i) == IF i + b[i].n + 1 > len THEN len + 1 ELSE i + b[i].n + 1
             Step(find) ==
               [at \in D |->
                  IF at[1] > len \/ at[2] > l THEN Empty
                  ELSE IF b[at[1]].kind # "event" THEN find[<<at[1] + 1, at[2]>>]
                  ELSE IF at[2] = event THEN b[at[1]]
                  ELSE find[<<past(at[1]), at[2] + 1>>]]
             F == FindEvent(b, l, event)
  <1>7. F = CHOOSE find : find = Step(find)
    BY <1>2 DEF FindEvent
  <1>8. \E find : find = Step(find)
    <2> DEFINE stop == {at \in D : \/ at[1] > len \/ at[2] > l
                                   \/ b[at[1]].kind = "event" /\ at[2] = event}
               val  == [at \in D |-> IF at[1] > len \/ at[2] > l THEN Empty ELSE b[at[1]]]
               succ == [at \in D |-> IF at \in stop THEN at
                                     ELSE IF b[at[1]].kind # "event" THEN <<at[1] + 1, at[2]>>
                                     ELSE <<past(at[1]), at[2] + 1>>]
    <2>1. \A at \in D : at = <<at[1], at[2]>> /\ at[1] \in 1..len + 1 /\ at[2] \in 1..l + 1
      OBVIOUS
    <2>2. \A i \in 1..len : b[i].kind = "event" => past(i) \in 1..len + 1
      <3> SUFFICES ASSUME NEW i \in 1..len, b[i].kind = "event" PROVE past(i) \in 1..len + 1
        OBVIOUS
      <3>1. i # 1
        BY DEF Banked
      <3>2. i \in 2..len
        BY <3>1
      <3>3. QED
        BY <1>3, <3>2
    <2>3. succ \in [D -> D]
      <3> SUFFICES ASSUME NEW at \in D PROVE succ[at] \in D
        OBVIOUS
      <3>1. CASE at \in stop
        BY <3>1
      <3>2. CASE at \notin stop
        <4>1. at[1] \in 1..len /\ at[2] \in 1..l
          BY <2>1, <3>2
        <4>2. CASE b[at[1]].kind # "event"
          <5>1. succ[at] = <<at[1] + 1, at[2]>>
            BY <3>2, <4>2
          <5>2. at[1] + 1 \in 1..len + 1 /\ at[2] \in 1..l + 1
            BY <4>1
          <5>3. QED
            BY <5>1, <5>2
        <4>3. CASE b[at[1]].kind = "event"
          <5>1. succ[at] = <<past(at[1]), at[2] + 1>>
            BY <3>2, <4>3
          <5>2. past(at[1]) \in 1..len + 1 /\ at[2] + 1 \in 1..l + 1
            BY <2>2, <4>1, <4>3
          <5>3. QED
            BY <5>1, <5>2
        <4>4. QED
          BY <4>2, <4>3
      <3>3. QED
        BY <3>1, <3>2
    <2>4. \E h : Finds(h, D, stop, val, succ)
      <3> HIDE DEF D, stop, val, succ
      <3>1. QED
        BY <2>3, TailRecursion
    <2>5. PICK h : Finds(h, D, stop, val, succ)
      BY <2>4
    <2> DEFINE g == [x \in D |-> h[x]]
    <2>6. \A x \in D : g[x] = IF x \in stop THEN val[x] ELSE g[succ[x]]
      <3> HIDE DEF D, stop, val, succ
      <3>1. \A x \in D : succ[x] \in D /\ g[x] = h[x]
        BY <2>3
      <3>2. QED
        BY <2>5, <3>1 DEF Finds
    <2>7. g = [x \in D |-> g[x]]
      OBVIOUS
    <2> HIDE DEF g
    <2>8. \A at \in D : (IF at \in stop THEN val[at] ELSE g[succ[at]]) = Step(g)[at]
      <3> SUFFICES ASSUME NEW at \in D
                   PROVE  (IF at \in stop THEN val[at] ELSE g[succ[at]]) = Step(g)[at]
        OBVIOUS
      <3> HIDE DEF past
      <3>1. CASE at \in stop
        BY <3>1
      <3>2. CASE at \notin stop
        <4>1. ~(at[1] > len) /\ ~(at[2] > l) /\ ~(b[at[1]].kind = "event" /\ at[2] = event)
          BY <3>2
        <4>2. succ[at] = IF b[at[1]].kind # "event" THEN <<at[1] + 1, at[2]>>
                         ELSE <<past(at[1]), at[2] + 1>>
          BY <3>2
        <4> HIDE DEF stop, val, succ
        <4>3. QED
          BY <3>2, <4>1, <4>2
      <3>3. QED
        BY <3>1, <3>2
    <2>9. g = Step(g)
      <3>1. Step(g) = [x \in D |-> Step(g)[x]]
        OBVIOUS
      <3>2. \A x \in D : g[x] = Step(g)[x]
        BY <2>6, <2>8
      <3> HIDE DEF D, Step
      <3>3. QED
        BY <2>7, <3>1, <3>2
    <2>10. QED
      BY <2>9
  <1> HIDE DEF F
  <1>9. F = Step(F)
    BY <1>7, <1>8
  <1> DEFINE at(k) == 3 + (k - 1) * (w + 1)
  <1>10. ASSUME NEW k \in 1..event, k < event
         PROVE  F[<<at(k), k>>] = F[<<at(k + 1), k + 1>>]
    <2>1. PICK j \in Nat : j = k - 1 /\ j + 1 = k /\ j \in 0..l - 1
      BY <1>1
    <2>2. PICK p \in 3..len :
           /\ p = 3 + j * (w + 1) /\ 3 + (j + 1) * (w + 1) = p + w + 1
           /\ b[p].kind = "event" /\ b[p].n = w /\ p + w <= len
      BY <1>1, <1>2, <2>1, HeaderAt
    <2>3. at(k) = p /\ at(k + 1) = p + w + 1
      <3>1. k + 1 - 1 = j + 1
        BY <2>1
      <3>2. QED
        BY <2>1, <2>2, <3>1
    <2> HIDE DEF at
    <2>4. past(p) = p + w + 1
      BY <1>1, <1>2, <2>2
    <2> HIDE DEF past
    <2>5. <<p, k>> \in D /\ ~(p > len) /\ ~(k > l) /\ k # event
      BY <1>1, <1>2, <1>10, <2>2
    <2>6. F[<<p, k>>] = F[<<past(p), k + 1>>]
      BY <1>9, <2>2, <2>5
    <2>7. QED
      BY <2>3, <2>4, <2>6
  <1>11. F[<<at(event), event>>] = b[at(event)]
    <2>1. PICK j \in Nat : j = event - 1 /\ j \in 0..l - 1
      BY <1>1
    <2>2. PICK p \in 3..len :
           /\ p = 3 + j * (w + 1) /\ 3 + (j + 1) * (w + 1) = p + w + 1
           /\ b[p].kind = "event" /\ b[p].n = w /\ p + w <= len
      BY <1>1, <1>2, <2>1, HeaderAt
    <2>3. at(event) = p
      BY <2>1, <2>2
    <2> HIDE DEF at
    <2>4. <<p, event>> \in D /\ ~(p > len) /\ ~(event > l)
      BY <1>1, <1>2, <2>2
    <2> HIDE DEF past
    <2>5. QED
      BY <1>9, <2>2, <2>3, <2>4
  <1>12. at(1) = 3
    BY <1>1
  <1> HIDE DEF at
  \* Downwards from the header that is asked for
  <1>13. \A d \in Nat : d <= event - 1 => F[<<at(event - d), event - d>>] = b[at(event)]
    <2> DEFINE T == {d \in Nat : d <= event - 1 /\ F[<<at(event - d), event - d>>] # b[at(event)]}
    <2> SUFFICES ASSUME T # {} PROVE FALSE
      OBVIOUS
    <2>1. PICK x \in T : \A y \in T : x <= y
      <3>1. T \subseteq Nat
        OBVIOUS
      <3> HIDE DEF T
      <3>2. QED
        BY <3>1, Smallest
    <2>2. x \in Nat /\ x <= event - 1 /\ F[<<at(event - x), event - x>>] # b[at(event)]
      OBVIOUS
    <2>3. x # 0
      <3>1. event - 0 = event
        BY <1>1
      <3>2. QED
        BY <1>11, <2>2, <3>1
    <2>4. F[<<at(event - (x - 1)), event - (x - 1)>>] = b[at(event)]
      <3>1. x - 1 \in Nat /\ x - 1 <= event - 1 /\ ~(x <= x - 1)
        BY <1>1, <2>2, <2>3
      <3>2. x - 1 \notin T
        BY <2>1, <3>1
      <3>3. QED
        BY <3>1, <3>2
    <2> HIDE DEF T
    <2>5. PICK k \in 1..event : k = event - x /\ k < event /\ k + 1 = event - (x - 1)
      BY <1>1, <2>2, <2>3
    <2>6. QED
      BY <1>10, <2>2, <2>4, <2>5
  <1>14. F[<<at(1), 1>>] = b[at(event)]
    <2>1. event - 1 \in Nat /\ event - (event - 1) = 1
      BY <1>1
    <2>2. QED
      BY <1>13, <2>1
  <1>15. at(event) = 3 + (event - 1) * (f[2] + 1)
    <2>1. w = f[2]
      BY <1>1
    <2>2. QED
      BY <2>1 DEF at
  <1>16. QED
    BY <1>6, <1>12, <1>14, <1>15 DEF F

=============================================================================
