--------------------------- MODULE Checkpoint_proofs --------------------------
(***************************************************************************)
(* Theorems about what is read from a checkpoint, for every value of the   *)
(* constants: PleTables and the hash heads, and Quant.  What a recursive   *)
(* function computes is shown by its least counterexample.                 *)
(***************************************************************************)
EXTENDS PleTablesInv, QuantInv, FiniteSetTheorems, SequenceTheorems, WellFoundedInduction, TLAPS

-----------------------------------------------------------------------------
(* Arithmetic.                                                             *)

(* A quotient rounded down, and one rounded up. *)
LEMMA DivFacts ==
  ASSUME NEW a \in Nat, NEW b \in Nat \ {0}
  PROVE  /\ a \div b \in Nat
         /\ b * (a \div b) <= a
         /\ a < b * (a \div b) + b
<1>1. a = b * (a \div b) + (a % b) /\ 0 <= a % b /\ a % b < b /\ a \div b \in Int
  BY Z3
<1>2. a \div b \in Nat
  BY Z3
<1> QED BY <1>1, <1>2

LEMMA MulMono ==
  ASSUME NEW a \in Nat, NEW b \in Nat, NEW c \in Nat, a <= b
  PROVE  a * c <= b * c
BY Z3

(***************************************************************************)
(* No product of a token with a multiplier reaches the limit of 64-bit     *)
(* numbers, so the hash of an n-gram is never negative: the code computes  *)
(* it without a check of overflow.                                         *)
(***************************************************************************)
THEOREM ProductsFit ==
  ASSUME NEW limit \in Nat, NEW vocab \in Nat \ {0}, vocab <= limit,
         NEW bits \in Nat, NEW token \in 0 .. (vocab - 1)
  PROVE  /\ Product(limit, vocab, bits, token) \in Nat
         /\ Product(limit, vocab, bits, token) <= limit
<1> DEFINE max == limit \div vocab
           half == HalfBound(limit, vocab)
           mul == Multiplier(limit, vocab, bits)
<1>1. max \in Nat /\ vocab * max <= limit /\ max >= 1
  <2>1. max \in Nat /\ vocab * max <= limit /\ limit < vocab * max + vocab
    BY DivFacts
  <2>2. max # 0
    BY <2>1
  <2> QED BY <2>1, <2>2
<1>2. half \in Nat /\ half >= 1 /\ (half = 1 \/ 2 * half <= max)
  <2> HIDE DEF max
  <2>1. max \div 2 \in Nat /\ 2 * (max \div 2) <= max
    BY <1>1, DivFacts
  <2> QED BY <2>1, <1>1 DEF HalfBound, max
<1>3. mul \in Nat /\ mul <= max
  <2> HIDE DEF max, half
  <2>1. bits % half \in 0 .. (half - 1)
    BY <1>2
  <2>2. mul = 2 * (bits % half) + 1
    BY DEF mul, half, Multiplier
  <2> QED BY <2>1, <2>2, <1>1, <1>2
<1> HIDE DEF max, half, mul
<1>4. token * mul \in Nat /\ token * mul <= vocab * mul
  BY <1>3, MulMono
<1>5. mul * vocab <= max * vocab
  BY <1>1, <1>3, MulMono
<1>6. token * mul <= limit
  BY <1>1, <1>3, <1>4, <1>5
<1> QED BY <1>4, <1>6 DEF Product, mul

(***************************************************************************)
(* A table split into parts of equal size, rounded up, is covered by them: *)
(* every row lies in the part its number divided by the size names, and    *)
(* that part has an index below the number of parts.                       *)
(***************************************************************************)
THEOREM PartsCoverTable ==
  ASSUME NEW rows \in Nat, NEW parts \in Nat \ {0}, NEW row \in 0 .. (rows - 1)
  PROVE  LET size == CeilDiv(rows, parts) part == row \div size
         IN  /\ part \in 0 .. (parts - 1)
             /\ part * size <= row /\ row < part * size + size
<1> DEFINE size == CeilDiv(rows, parts)
           part == row \div size
<1>1. size \in Nat \ {0} /\ rows <= parts * size
  <2> DEFINE sum == rows + parts - 1
  <2>1. sum \in Nat /\ sum >= parts
    OBVIOUS
  <2>2. size \in Nat /\ parts * size <= sum /\ sum < parts * size + parts
    BY <2>1, DivFacts DEF CeilDiv
  <2> HIDE DEF size
  <2>3. size # 0
    BY <2>1, <2>2
  <2> QED BY <2>2, <2>3
<1> HIDE DEF size
<1>2. part \in Nat /\ size * part <= row /\ row < size * part + size
  BY <1>1, DivFacts
<1> HIDE DEF part
<1>3. part < parts
  <2> SUFFICES ASSUME part >= parts PROVE FALSE
    BY <1>2
  <2>1. parts * size <= part * size
    BY <1>1, <1>2, MulMono
  <2> QED BY <1>1, <1>2, <2>1
<1> QED BY <1>1, <1>2, <1>3 DEF part, size

-----------------------------------------------------------------------------
(* The layout of a table.                                                  *)

LEMMA LeastNat ==
  ASSUME NEW T \in SUBSET Nat, T # {}
  PROVE  \E x \in T : \A y \in T : x <= y
<1>1. IsWellFoundedOn(OpToRel(<, Nat), Nat)
  BY NatLessThanWellFounded
<1>2. PICK x \in T : \A y \in T : ~(<<y, x>> \in OpToRel(<, Nat))
  BY <1>1, WFMin
<1>3. \A y \in T : ~(y < x) /\ y \in Nat /\ x \in Nat
  BY <1>2 DEF OpToRel
<1>4. \A y \in T : x <= y
  BY <1>3
<1> QED
  BY <1>4

(* The recursion of HeadOffset, and the function that satisfies it. *)
OffsetStep(l, n, f) == [h \in 0 .. n |-> IF h = 0 THEN 0 ELSE f[h - 1] + HeadSize(l, h - 1)]

LEMMA OffsetExists ==
  ASSUME NEW l
  PROVE  \A n \in Nat : \E f : f = OffsetStep(l, n, f)
<1> DEFINE Bad == {n \in Nat : ~(\E f : f = OffsetStep(l, n, f))}
<1>1. SUFFICES ASSUME Bad # {} PROVE FALSE
  OBVIOUS
<1>2. PICK n \in Bad : \A m \in Bad : n <= m
  BY <1>1, LeastNat
<1>3. n # 0
  <2> DEFINE f == [h \in 0 .. 0 |-> 0]
  <2>1. f = OffsetStep(l, 0, f)
    BY DEF OffsetStep
  <2> QED
    BY <1>2, <2>1
<1>4. PICK f : f = OffsetStep(l, n - 1, f)
  <2>1. n - 1 \in Nat /\ n - 1 \notin Bad
    BY <1>2, <1>3
  <2> QED
    BY <2>1
<1> DEFINE e == [h \in 0 .. n |-> IF h = n THEN f[n - 1] + HeadSize(l, n - 1) ELSE f[h]]
<1>5. e = OffsetStep(l, n, e)
  BY <1>2, <1>3, <1>4 DEF OffsetStep
<1> QED
  BY <1>2, <1>5

LEMMA OffsetDef ==
  ASSUME NEW l
  PROVE  /\ HeadOffset(l, 0) = 0
         /\ \A h \in 1 .. Heads : HeadOffset(l, h) = HeadOffset(l, h - 1) + HeadSize(l, h - 1)
<1> DEFINE o == CHOOSE f : f = OffsetStep(l, Heads, f)
<1>1. o = OffsetStep(l, Heads, o)
  BY HeadsAssumption, OffsetExists
<1>2. \A h : HeadOffset(l, h) = o[h]
  BY DEF HeadOffset, OffsetStep
<1> HIDE DEF o
<1>3. \A h \in 0 .. Heads : o[h] = IF h = 0 THEN 0 ELSE o[h - 1] + HeadSize(l, h - 1)
  BY <1>1 DEF OffsetStep
<1>4. o[0] = 0
  BY <1>3, HeadsAssumption
<1>5. \A h \in 1 .. Heads : o[h] = o[h - 1] + HeadSize(l, h - 1)
  BY <1>3, HeadsAssumption
<1> QED
  BY <1>2, <1>4, <1>5

(* Heads of a positive size. *)
Sized(l) == \A h \in 0 .. (Heads - 1) : HeadSize(l, h) \in Nat \ {0}

LEMMA OffsetType ==
  ASSUME NEW l, Sized(l)
  PROVE  \A h \in 0 .. Heads : HeadOffset(l, h) \in Nat
<1> DEFINE Bad == {h \in 0 .. Heads : HeadOffset(l, h) \notin Nat}
<1>1. SUFFICES ASSUME Bad # {} PROVE FALSE
  OBVIOUS
<1>a. Bad \in SUBSET Nat
  BY HeadsAssumption
<1>2. PICK n \in Bad : \A m \in Bad : n <= m
  BY <1>1, <1>a, LeastNat
<1>3. n # 0
  BY <1>2, OffsetDef
<1>4. n \in 1 .. Heads /\ n - 1 \in 0 .. (Heads - 1) /\ n - 1 \in 0 .. Heads
  BY <1>2, <1>3, HeadsAssumption
<1>5. HeadOffset(l, n - 1) \in Nat
  <2>1. n - 1 \notin Bad
    BY <1>2, <1>4
  <2> QED
    BY <1>4, <2>1
<1>6. HeadSize(l, n - 1) \in Nat
  BY <1>4 DEF Sized
<1>7. HeadOffset(l, n) = HeadOffset(l, n - 1) + HeadSize(l, n - 1)
  BY <1>4, OffsetDef
<1> QED
  BY <1>2, <1>5, <1>6, <1>7

LEMMA TableRowsType ==
  ASSUME NEW l, Sized(l)
  PROVE  TableRows(l) \in Nat /\ HeadOffset(l, Heads) <= TableRows(l)
<1> DEFINE o == HeadOffset(l, Heads)
           sum == o + Divisor - 1
           q == sum \div Divisor
<1>1. o \in Nat /\ Divisor \in Nat \ {0}
  BY OffsetType, HeadsAssumption
<1> HIDE DEF o
<1>2. sum \in Nat
  BY <1>1
<1>3. TableRows(l) = q * Divisor
  BY DEF TableRows, CeilDiv, o
<1> HIDE DEF sum
<1>4. q \in Nat /\ sum < Divisor * q + Divisor
  BY <1>1, <1>2, DivFacts
<1> HIDE DEF q
<1>5. Divisor * q \in Nat /\ Divisor * q = q * Divisor
  BY <1>1, <1>4
<1>6. o <= Divisor * q
  BY <1>1, <1>4, <1>5 DEF sum
<1> QED
  BY <1>3, <1>5, <1>6 DEF o

(* The recursion of FlattenSeq. *)
FlatStep(seqs, n, f) == [i \in 1 .. n |-> IF i = 1 THEN seqs[i] ELSE f[i - 1] \o seqs[i]]

LEMMA FlatExists ==
  ASSUME NEW seqs
  PROVE  \A n \in Nat : \E f : f = FlatStep(seqs, n, f)
<1> DEFINE Bad == {n \in Nat : ~(\E f : f = FlatStep(seqs, n, f))}
<1>1. SUFFICES ASSUME Bad # {} PROVE FALSE
  OBVIOUS
<1>2. PICK n \in Bad : \A m \in Bad : n <= m
  BY <1>1, LeastNat
<1>3. n # 0
  <2> DEFINE f == [h \in 1 .. 0 |-> 0]
  <2>1. f = FlatStep(seqs, 0, f)
    BY DEF FlatStep
  <2> QED
    BY <1>2, <2>1
<1>4. PICK f : f = FlatStep(seqs, n - 1, f)
  <2>1. n - 1 \in Nat /\ n - 1 \notin Bad
    BY <1>2, <1>3
  <2> QED
    BY <2>1
<1> DEFINE e == [i \in 1 .. n |->
                   IF i = n THEN (IF i = 1 THEN seqs[i] ELSE f[i - 1] \o seqs[i]) ELSE f[i]]
<1>5. ASSUME NEW i \in 1 .. n
      PROVE  e[i] = IF i = 1 THEN seqs[i] ELSE e[i - 1] \o seqs[i]
  <2>1. CASE i = n
    <3>1. i # 1 => i - 1 \in 1 .. n /\ i - 1 # n
      BY <1>2, <1>3
    <3> QED
      BY <2>1, <3>1
  <2>2. CASE i # n
    <3>1. i \in 1 .. (n - 1) /\ e[i] = f[i]
      BY <1>2, <1>3, <2>2
    <3>2. f[i] = IF i = 1 THEN seqs[i] ELSE f[i - 1] \o seqs[i]
      BY <1>4, <3>1 DEF FlatStep
    <3>3. i # 1 => i - 1 \in 1 .. n /\ i - 1 # n
      BY <1>2, <1>3
    <3> QED
      BY <3>1, <3>2, <3>3
  <2> QED
    BY <2>1, <2>2
<1>6. e = FlatStep(seqs, n, e)
  <2> DEFINE E(i) == IF i = 1 THEN seqs[i] ELSE e[i - 1] \o seqs[i]
  <2>1. DOMAIN e = 1 .. n /\ e = [i \in 1 .. n |-> e[i]]
    OBVIOUS
  <2>2. \A i \in 1 .. n : e[i] = E(i)
    BY <1>5
  <2> HIDE DEF e
  <2>3. [i \in 1 .. n |-> e[i]] = [i \in 1 .. n |-> E(i)]
    BY <2>2
  <2> QED
    BY <2>1, <2>3 DEF FlatStep
<1> QED
  BY <1>2, <1>6

LEMMA FlattenDef ==
  ASSUME NEW seqs, Len(seqs) \in Nat \ {0}
  PROVE  \E f : f = FlatStep(seqs, Len(seqs), f) /\ FlattenSeq(seqs) = f[Len(seqs)]
<1> DEFINE f == CHOOSE f : f = FlatStep(seqs, Len(seqs), f)
<1>1. f = FlatStep(seqs, Len(seqs), f)
  BY FlatExists
<1>2. FlattenSeq(seqs) = f[Len(seqs)]
  BY DEF FlattenSeq, FlatStep
<1> QED
  BY <1>1, <1>2

(* The rows of a head. *)
Segment(l, i) == [x \in 1 .. HeadSize(l, i - 1) |-> <<i - 1, x - 1>>]

(* A sequence of rows, where row g is named by its head and its remainder. *)
RowsInOrder(l, rows, i) ==
  /\ rows \in Seq(Int \X Int)
  /\ Len(rows) = HeadOffset(l, i)
  /\ \A g \in 1 .. HeadOffset(l, i) :
       \E h \in 0 .. (i - 1) : \E x \in 0 .. (HeadSize(l, h) - 1) :
         rows[g] = <<h, x>> /\ HeadOffset(l, h) + x = g - 1

LEMMA SegmentRows ==
  ASSUME NEW l, Sized(l), NEW i \in 1 .. Heads
  PROVE  /\ Segment(l, i) \in Seq(Int \X Int)
         /\ Len(Segment(l, i)) = HeadSize(l, i - 1)
         /\ \A x \in 1 .. HeadSize(l, i - 1) : Segment(l, i)[x] = <<i - 1, x - 1>>
<1>1. HeadSize(l, i - 1) \in Nat
  BY HeadsAssumption DEF Sized
<1>2. \A x \in 1 .. HeadSize(l, i - 1) : <<i - 1, x - 1>> \in Int \X Int
  BY <1>1, HeadsAssumption
<1> QED
  BY <1>1, <1>2 DEF Segment

LEMMA AppendSegment ==
  ASSUME NEW l, Sized(l), NEW i \in 2 .. Heads, NEW rows, RowsInOrder(l, rows, i - 1)
  PROVE  RowsInOrder(l, rows \o Segment(l, i), i)
<1> DEFINE o == HeadOffset(l, i - 1)
           n == HeadSize(l, i - 1)
           seg == Segment(l, i)
           all == rows \o seg
<1>0. i \in 1 .. Heads /\ i - 1 \in 0 .. Heads /\ i - 1 \in 0 .. (Heads - 1) /\ i \in Int
  BY HeadsAssumption
<1>1. o \in Nat /\ n \in Nat /\ HeadOffset(l, i) = o + n
  BY <1>0, OffsetType, OffsetDef DEF Sized
<1>2. /\ rows \in Seq(Int \X Int) /\ seg \in Seq(Int \X Int)
      /\ Len(rows) = o /\ Len(seg) = n
      /\ \A x \in 1 .. n : seg[x] = <<i - 1, x - 1>>
  BY <1>0, SegmentRows DEF RowsInOrder
<1>3. \A g \in 1 .. o : \E h \in 0 .. (i - 2) : \E x \in 0 .. (HeadSize(l, h) - 1) :
        rows[g] = <<h, x>> /\ HeadOffset(l, h) + x = g - 1
  <2>1. 0 .. ((i - 1) - 1) = 0 .. (i - 2)
    BY <1>0
  <2> QED
    BY <2>1 DEF RowsInOrder
<1> HIDE DEF o, n, seg
<1>4. /\ all \in Seq(Int \X Int) /\ Len(all) = o + n
      /\ \A g \in 1 .. (o + n) : all[g] = IF g <= o THEN rows[g] ELSE seg[g - o]
  BY <1>1, <1>2, ConcatProperties
<1> HIDE DEF all
<1>5. ASSUME NEW g \in 1 .. (o + n)
      PROVE  \E h \in 0 .. (i - 1) : \E x \in 0 .. (HeadSize(l, h) - 1) :
               all[g] = <<h, x>> /\ HeadOffset(l, h) + x = g - 1
  <2>1. CASE g <= o
    <3>1. PICK h \in 0 .. (i - 2) : \E x \in 0 .. (HeadSize(l, h) - 1) :
            rows[g] = <<h, x>> /\ HeadOffset(l, h) + x = g - 1
      BY <1>1, <1>3, <2>1
    <3>2. h \in 0 .. (i - 1)
      BY <1>0
    <3> QED
      BY <1>4, <2>1, <3>1, <3>2
  <2>2. CASE g > o
    <3>1. g - o \in 1 .. n /\ (g - o) - 1 \in 0 .. (n - 1) /\ ~(g <= o) /\ i - 1 \in 0 .. (i - 1)
      BY <1>0, <1>1, <2>2
    <3>2. all[g] = <<i - 1, (g - o) - 1>>
      BY <1>2, <1>4, <3>1
    <3>3. o + ((g - o) - 1) = g - 1
      BY <1>1
    <3> QED
      BY <3>1, <3>2, <3>3 DEF o, n
  <2> QED
    BY <1>1, <2>1, <2>2
<1> QED
  BY <1>1, <1>4, <1>5 DEF RowsInOrder, all, seg

(***************************************************************************)
(* The heads follow each other without a gap: the row a hash finds is the  *)
(* one the table's layout has for its head and its remainder, for every    *)
(* number of heads and every size of theirs.                               *)
(***************************************************************************)
THEOREM LayoutFits ==
  ASSUME NEW l, Sized(l)
  PROVE  /\ Len(Layout(l)) = HeadOffset(l, Heads)
         /\ \A g \in 1 .. Len(Layout(l)) :
              /\ g - 1 \in Rows(l)
              /\ RowId(l, Layout(l)[g][1], Layout(l)[g][2]) = g - 1
<1> DEFINE seqs == [i \in 1 .. Heads |-> Segment(l, i)]
<1>1. Len(seqs) = Heads /\ Heads \in Nat \ {0} /\ Layout(l) = FlattenSeq(seqs)
  BY HeadsAssumption DEF Layout, Segment
<1>2. \A i \in 1 .. Heads : seqs[i] = Segment(l, i)
  OBVIOUS
<1> HIDE DEF seqs
<1>3. PICK f : f = FlatStep(seqs, Heads, f) /\ Layout(l) = f[Heads]
  BY <1>1, FlattenDef
<1>4. \A i \in 1 .. Heads : f[i] = IF i = 1 THEN Segment(l, i) ELSE f[i - 1] \o Segment(l, i)
  BY <1>2, <1>3 DEF FlatStep
<1>5. RowsInOrder(l, f[1], 1)
  <2>1. 1 \in 1 .. Heads /\ f[1] = Segment(l, 1)
    BY <1>1, <1>4
  <2>2. HeadOffset(l, 1) = HeadSize(l, 0) /\ HeadOffset(l, 0) = 0 /\ HeadSize(l, 0) \in Nat
    <3>1. 1 \in 1 .. Heads /\ 0 \in 0 .. (Heads - 1) /\ 1 - 1 = 0
      BY <1>1
    <3>2. HeadOffset(l, 1) = HeadOffset(l, 0) + HeadSize(l, 0) /\ HeadOffset(l, 0) = 0
      BY <3>1, OffsetDef
    <3> QED
      BY <3>1, <3>2 DEF Sized
  <2>3. /\ Segment(l, 1) \in Seq(Int \X Int) /\ Len(Segment(l, 1)) = HeadSize(l, 0)
        /\ \A x \in 1 .. HeadSize(l, 0) : Segment(l, 1)[x] = <<0, x - 1>>
    BY <2>1, SegmentRows
  <2>4. ASSUME NEW g \in 1 .. HeadSize(l, 0)
        PROVE  \E h \in 0 .. 0 : \E x \in 0 .. (HeadSize(l, h) - 1) :
                 f[1][g] = <<h, x>> /\ HeadOffset(l, h) + x = g - 1
    <3>1. g - 1 \in 0 .. (HeadSize(l, 0) - 1) /\ 0 + (g - 1) = g - 1
      BY <2>2
    <3>2. f[1][g] = <<0, g - 1>> /\ HeadOffset(l, 0) + (g - 1) = g - 1 /\ 0 \in 0 .. 0
      BY <2>1, <2>2, <2>3, <3>1
    <3> QED
      BY <3>1, <3>2
  <2> QED
    BY <2>1, <2>2, <2>3, <2>4 DEF RowsInOrder
<1>6. RowsInOrder(l, f[Heads], Heads)
  <2> DEFINE Bad == {i \in 1 .. Heads : ~RowsInOrder(l, f[i], i)}
  <2>1. SUFFICES ASSUME Bad # {} PROVE FALSE
    BY <1>1
  <2>2. Bad \in SUBSET Nat
    OBVIOUS
  <2>3. PICK n \in Bad : \A m \in Bad : n <= m
    BY <2>1, <2>2, LeastNat
  <2>4. n # 1 /\ n \in 2 .. Heads /\ n - 1 \in 1 .. Heads /\ n - 1 \notin Bad
    BY <1>5, <2>3, HeadsAssumption
  <2>5. RowsInOrder(l, f[n - 1], n - 1) /\ f[n] = f[n - 1] \o Segment(l, n)
    BY <1>4, <2>4
  <2>6. RowsInOrder(l, f[n], n)
    BY <2>4, <2>5, AppendSegment
  <2> QED
    BY <2>3, <2>6
<1>7. /\ Len(Layout(l)) = HeadOffset(l, Heads)
      /\ HeadOffset(l, Heads) \in Nat /\ TableRows(l) \in Nat
      /\ HeadOffset(l, Heads) <= TableRows(l)
  BY <1>1, <1>3, <1>6, OffsetType, TableRowsType DEF RowsInOrder
<1>8. ASSUME NEW g \in 1 .. HeadOffset(l, Heads)
      PROVE  RowId(l, Layout(l)[g][1], Layout(l)[g][2]) = g - 1
  <2>1. PICK h \in 0 .. (Heads - 1) : \E x \in 0 .. (HeadSize(l, h) - 1) :
          Layout(l)[g] = <<h, x>> /\ HeadOffset(l, h) + x = g - 1
    BY <1>3, <1>6 DEF RowsInOrder
  <2>2. PICK x \in 0 .. (HeadSize(l, h) - 1) :
          Layout(l)[g] = <<h, x>> /\ HeadOffset(l, h) + x = g - 1
    BY <2>1
  <2> DEFINE n == HeadSize(l, h)
  <2>3. n \in Nat \ {0}
    BY DEF Sized
  <2>4. HeadOffset(l, h) \in Nat
    BY <1>1, OffsetType
  <2> HIDE DEF n
  <2>5. \A y \in 0 .. (n - 1) : y % n = y
    BY <2>3
  <2>6. x % HeadSize(l, h) = x
    BY <2>5 DEF n
  <2>7. Layout(l)[g][1] = h /\ Layout(l)[g][2] = x
    BY <2>2
  <2>8. x \in Int
    BY <2>3 DEF n
  <2> QED
    BY <2>2, <2>4, <2>6, <2>7, <2>8 DEF RowId
<1>9. \A g \in 1 .. HeadOffset(l, Heads) : g - 1 \in Rows(l)
  BY <1>7 DEF Rows
<1> QED
  BY <1>7, <1>8, <1>9

-----------------------------------------------------------------------------
(* Parts of a table.                                                       *)

(* How many of the rows the part s has when every part has size rows but   *)
(* the last ones.                                                          *)
Fill(rows, size, s) ==
  IF s * size < rows
  THEN IF size <= rows - s * size THEN size ELSE rows - s * size
  ELSE 0

LEMMA MinOfTwo ==
  ASSUME NEW a \in Int, NEW b \in Int
  PROVE  Min({a, b}) = IF a <= b THEN a ELSE b
BY DEF Min

LEMMA MaxOfTwo ==
  ASSUME NEW a \in Int, NEW b \in Int
  PROVE  Max({a, b}) = IF a <= b THEN b ELSE a
BY DEF Max

LEMMA PartSizeFacts ==
  ASSUME NEW rows \in Nat, NEW parts \in Nat \ {0}
  PROVE  /\ CeilDiv(rows, parts) \in Nat
         /\ rows > 0 => CeilDiv(rows, parts) \in 1 .. rows
<1> DEFINE sum == rows + parts - 1
           size == CeilDiv(rows, parts)
<1>1. sum \in Nat /\ sum >= parts - 1
  OBVIOUS
<1>2. size = sum \div parts
  BY DEF CeilDiv
<1> HIDE DEF size, sum
<1>3. size \in Nat /\ parts * size <= sum /\ sum < parts * size + parts
  BY <1>1, <1>2, DivFacts
<1>4. ASSUME rows > 0 PROVE size # 0
  BY <1>3, <1>4 DEF sum
<1>5. ASSUME rows > 0, size > rows PROVE FALSE
  <2>1. rows + 1 <= size /\ rows + 1 \in Nat
    BY <1>3, <1>5
  <2>2. (rows + 1) * parts <= size * parts
    BY <1>3, <2>1, MulMono
  <2>3. (rows + 1) * parts = rows * parts + parts
    BY <1>3
  <2>4. 1 * rows <= parts * rows
    BY MulMono
  <2>5. rows * parts + parts <= rows + parts - 1
    BY <1>3, <2>2, <2>3 DEF sum
  <2> QED
    BY <2>4, <2>5
<1> QED
  BY <1>3, <1>4, <1>5 DEF size

LEMMA CountOfPart ==
  ASSUME NEW rows \in Nat, NEW size \in Nat, NEW s \in Nat
  PROVE  Cardinality({g \in 0 .. (rows - 1) : s * size <= g /\ g < (s + 1) * size}) = Fill(rows, size, s)
<1> DEFINE start == s * size
           n == Fill(rows, size, s)
           part == {g \in 0 .. (rows - 1) : s * size <= g /\ g < (s + 1) * size}
<1>1. start \in Nat /\ (s + 1) * size = start + size
  BY Z3
<1>2. n = IF start < rows THEN IF size <= rows - start THEN size ELSE rows - start ELSE 0
  BY DEF Fill
<1>3. part = {g \in 0 .. (rows - 1) : start <= g /\ g < start + size}
  BY <1>1
<1> HIDE DEF start, n, part
<1>4. n \in Nat
  BY <1>1, <1>2
<1>5. part = start .. (start + n - 1)
  BY <1>1, <1>2, <1>3
<1>6. Cardinality(start .. (start + n - 1)) = n
  <2>1. start \in Int /\ start + n - 1 \in Int
    BY <1>1, <1>4
  <2>2. Cardinality(start .. (start + n - 1)) =
          IF start > start + n - 1 THEN 0 ELSE (start + n - 1) - start + 1
    BY <2>1, FS_Interval
  <2> QED
    BY <1>1, <1>4, <2>2
<1> QED
  BY <1>5, <1>6 DEF part, n

LEMMA ExpectedCount ==
  ASSUME NEW rows \in Nat, NEW size \in Nat, NEW s \in Nat
  PROVE  Max({0, Min({size, rows - s * size})}) = Fill(rows, size, s)
<1> DEFINE start == s * size
           least == Min({size, rows - start})
<1>1. start \in Nat
  BY Z3
<1> HIDE DEF start
<1>2. least = IF size <= rows - start THEN size ELSE rows - start
  <2>1. rows - start \in Int
    BY <1>1
  <2> QED
    BY <2>1, MinOfTwo
<1>3. least \in Int
  BY <1>1, <1>2
<1> HIDE DEF least
<1>4. Max({0, least}) = IF 0 <= least THEN least ELSE 0
  BY <1>3, MaxOfTwo
<1>5. Max({0, least}) = IF start < rows THEN IF size <= rows - start THEN size ELSE rows - start ELSE 0
  BY <1>1, <1>2, <1>4
<1> QED
  BY <1>5 DEF Fill, start, least

LEMMA DivUnique ==
  ASSUME NEW size \in Nat \ {0}, NEW g \in Nat, NEW s \in Nat, s * size <= g, g < s * size + size
  PROVE  g \div size = s
<1> DEFINE q == g \div size
<1>1. q \in Nat /\ size * q <= g /\ g < size * q + size
  BY DivFacts
<1> HIDE DEF q
<1>2. ASSUME q > s PROVE FALSE
  <2>1. s + 1 <= q /\ s + 1 \in Nat
    BY <1>1, <1>2
  <2>2. (s + 1) * size <= q * size /\ (s + 1) * size = s * size + size /\ q * size = size * q
    BY <1>1, <2>1, MulMono
  <2> QED
    BY <1>1, <2>2
<1>3. ASSUME q < s PROVE FALSE
  <2>1. q + 1 <= s /\ q + 1 \in Nat
    BY <1>1, <1>3
  <2>2. (q + 1) * size <= s * size /\ (q + 1) * size = size * q + size
    BY <1>1, <2>1, MulMono
  <2> QED
    BY <1>1, <2>2
<1> QED
  BY <1>1, <1>2, <1>3 DEF q

-----------------------------------------------------------------------------
(* What the state says of a layer's table.                                 *)

LEMMA Sizes ==
  ASSUME TypeOK, NEW l \in Layers
  PROVE  /\ Sized(l) /\ TableRows(l) \in Nat
         /\ written \in Nat \ {0} /\ model.parts \in Nat \ {0}
         /\ PartSize(l, written) \in Nat /\ PartSize(l, model.parts) \in Nat
         /\ TableRows(l) > 0 =>
              /\ PartSize(l, written) \in 1 .. TableRows(l)
              /\ PartSize(l, model.parts) \in 1 .. TableRows(l)
<1>1. model \in Models /\ l \in model.layers /\ model.parts \in Nat \ {0} /\ written \in Nat \ {0}
  BY TablesAssumption DEF TypeOK, Layers
<1>2. Sized(l)
  BY <1>1, PrimesAssumption DEF Sized
<1>3. TableRows(l) \in Nat
  BY <1>2, TableRowsType
<1> QED
  BY <1>1, <1>2, <1>3, PartSizeFacts DEF PartSize

LEMMA ShapeFill ==
  ASSUME TypeOK, NEW l \in Layers, NEW s \in Nat
  PROVE  ShapeFits(l, s) <=>
           Fill(TableRows(l), PartSize(l, written), s) = Fill(TableRows(l), PartSize(l, model.parts), s)
<1>1. Cardinality(PartRows(l, written, s)) = Fill(TableRows(l), PartSize(l, written), s)
  BY Sizes, CountOfPart DEF PartRows, Rows
<1>2. ExpectedRows(l, s) = Fill(TableRows(l), PartSize(l, model.parts), s)
  BY Sizes, ExpectedCount DEF ExpectedRows, CheckpointStart
<1> QED
  BY <1>1, <1>2 DEF ShapeFits

(* The first part tells how many parts there are, as far as it matters. *)
LEMMA FirstPart ==
  ASSUME TypeOK, NEW l \in Layers, ShapeFits(l, 0), TableRows(l) > 0
  PROVE  PartSize(l, written) = PartSize(l, model.parts)
<1> DEFINE T == TableRows(l)
           W == PartSize(l, written)
           P == PartSize(l, model.parts)
<1>1. T \in Nat /\ T > 0 /\ W \in 1 .. T /\ P \in 1 .. T /\ Fill(T, W, 0) = Fill(T, P, 0)
  BY Sizes, ShapeFill
<1> HIDE DEF T, W, P
<1>2. Fill(T, W, 0) = W /\ Fill(T, P, 0) = P
  BY <1>1 DEF Fill
<1> QED
  BY <1>1, <1>2 DEF W, P

LEMMA SameSplit ==
  ASSUME TypeOK, NEW l \in Layers, NEW s \in Nat, written = model.parts
  PROVE  ShapeFits(l, s)
BY ShapeFill

(* A row is copied from the part it belongs to, when the call brings it. *)
LEMMA CopiedRows ==
  ASSUME TypeOK, NEW l \in Layers, NEW parts \in SUBSET Nat, NEW table, NEW g \in Rows(l)
  PROVE  LET s == g \div PartSize(l, model.parts)
         IN  /\ Copied(table, l, parts)[g] = IF s \in parts THEN RowOf(l, s, g) ELSE table[g]
             /\ RowOf(l, s, g) \in Int
<1> DEFINE T == TableRows(l)
           P == PartSize(l, model.parts)
           W == PartSize(l, written)
           s == g \div P
           from == {u \in parts : CheckpointStart(l, u) <= g
                                     /\ g < CheckpointStart(l, u) + ExpectedRows(l, u)}
<1>1. T \in Nat /\ g \in Nat /\ g < T /\ P \in Nat \ {0} /\ W \in Nat
  BY Sizes DEF Rows
<1>2. \A u \in Nat : CheckpointStart(l, u) = u * P /\ ExpectedRows(l, u) = Fill(T, P, u)
  BY Sizes, ExpectedCount DEF ExpectedRows, CheckpointStart
<1>3. Copied(table, l, parts)[g] =
        IF from = {} THEN table[g]
        ELSE LET u == Max(from) IN u * W + (g - CheckpointStart(l, u))
  BY DEF Copied
<1>4. from = {u \in parts : u * P <= g /\ g < u * P + Fill(T, P, u)}
  BY <1>2
<1> HIDE DEF T, P, W, from
<1>5. s \in Nat /\ P * s <= g /\ g < P * s + P
  BY <1>1, DivFacts
<1>6. ASSUME NEW u \in from PROVE u = s
  <2>1. u \in Nat /\ u * P <= g /\ g < u * P + Fill(T, P, u)
    BY <1>4
  <2>2. u * P \in Nat
    BY <1>1, <2>1
  <2>3. Fill(T, P, u) <= P /\ Fill(T, P, u) \in Int
    BY <1>1, <2>1, <2>2 DEF Fill
  <2>4. g < u * P + P
    BY <1>1, <2>1, <2>2, <2>3
  <2> QED
    BY <1>1, <2>1, <2>4, DivUnique
<1> HIDE DEF s
<1>7. s * P = P * s /\ s * P \in Nat
  BY <1>1, <1>5
<1>8. g < s * P + Fill(T, P, s)
  BY <1>1, <1>5, <1>7 DEF Fill
<1>9. s \in parts => from = {s}
  BY <1>4, <1>5, <1>6, <1>7, <1>8
<1>10. s \notin parts => from = {}
  BY <1>4, <1>6
<1>11. Max({s}) = s
  BY <1>5 DEF Max
<1>12. RowOf(l, s, g) = s * W + (g - s * P) /\ CheckpointStart(l, s) = s * P
  BY <1>2, <1>5 DEF RowOf, W, P
<1>13. Copied(table, l, parts)[g] = IF s \in parts THEN RowOf(l, s, g) ELSE table[g]
  BY <1>3, <1>9, <1>10, <1>11, <1>12
<1>14. RowOf(l, s, g) \in Int
  <2>1. s * W \in Int
    BY <1>1, <1>5
  <2> QED
    BY <1>1, <1>7, <1>12, <2>1
<1> QED
  BY <1>13, <1>14 DEF s, P

LEMMA CopiedType ==
  ASSUME TypeOK, NEW l \in Layers, NEW parts \in SUBSET Nat, NEW table \in [Rows(l) -> Int]
  PROVE  Copied(table, l, parts) \in [Rows(l) -> Int]
<1>1. \A g \in Rows(l) : Copied(table, l, parts)[g] \in Int
  BY CopiedRows
<1>2. Copied(table, l, parts) = [g \in Rows(l) |-> Copied(table, l, parts)[g]]
  BY DEF Copied
<1> QED
  BY <1>1, <1>2

-----------------------------------------------------------------------------
(* Tensors.                                                                *)

(* The tensors of one call are of its layer, with parts of the checkpoint. *)
LEMMA TensorsOfCall ==
  ASSUME TypeOK, NEW l \in Layers, NEW ts \in SUBSET {t \in pending : t.layer = l}
  PROVE  /\ \A k \in {"codes", "scales"} : PartsOf(ts, k) \subseteq 0 .. (written - 1)
         /\ PartsOf(ts, "codes") \in SUBSET Nat
         /\ \A k \in {"codes", "scales", "outer"}, s \in Nat, m \in Layers :
              Tensor(m, k, s) \in ts => m = l /\ s \in PartsOf(ts, k)
         /\ PartsOf(ts, "codes") # {} => file[l] = "none"
<1>1. \A t \in ts : t \in Tables(Layers, format, written) /\ t.layer = l /\ t \in pending
  BY DEF TypeOK
<1>2. ASSUME NEW t \in ts
      PROVE  /\ t.kind \in {"codes", "scales"} => t.part \in 0 .. (written - 1)
             /\ t.kind = "codes" => file[l] = "none"
  <2>1. /\ t.kind \in {"codes", "scales"} => t.part \in 0 .. (written - 1)
    BY <1>1 DEF Tables, Tensor
  <2>2. t.kind = "outer" \/ file[t.layer] = "none"
    BY <1>1 DEF TypeOK
  <2> QED
    BY <1>1, <2>1, <2>2
<1>3. \A k \in {"codes", "scales"} : PartsOf(ts, k) \subseteq 0 .. (written - 1)
  BY <1>2 DEF PartsOf
<1>4. PartsOf(ts, "codes") \in SUBSET Nat
  BY <1>3, Sizes
<1>5. \A k \in {"codes", "scales", "outer"}, s \in Nat, m \in Layers :
        Tensor(m, k, s) \in ts => m = l /\ s \in PartsOf(ts, k)
  BY <1>1 DEF Tensor, PartsOf
<1>6. PartsOf(ts, "codes") # {} => file[l] = "none"
  BY <1>2 DEF PartsOf
<1> QED
  BY <1>3, <1>4, <1>5, <1>6

-----------------------------------------------------------------------------
(* The invariant is inductive.                                             *)

LEMMA SourceFrame ==
  ASSUME UNCHANGED <<model, format, file, written, checkpoint>>
  PROVE  /\ Layers' = Layers
         /\ \A l : Rows(l)' = Rows(l)
         /\ \A l, s : ShapeFits(l, s)' <=> ShapeFits(l, s)
         /\ \A l, s, g : RowOf(l, s, g)' = RowOf(l, s, g)
<1>1. Layers' = Layers
  BY DEF Layers
<1>2. \A l : Rows(l)' = Rows(l)
  BY DEF Rows
<1>3. ASSUME NEW l, NEW s PROVE ShapeFits(l, s)' <=> ShapeFits(l, s)
  BY DEF ShapeFits, ExpectedRows, CheckpointStart, PartRows, Rows
<1>4. ASSUME NEW l, NEW s, NEW g PROVE RowOf(l, s, g)' = RowOf(l, s, g)
  BY DEF RowOf
<1> QED
  BY <1>1, <1>2, <1>3, <1>4

LEMMA PartsFrame ==
  ASSUME UNCHANGED <<model, format, file, written, checkpoint, pending, weight, scale,
                     outer, gpuOuter, loaded>>,
         PartsInv, OuterInv, NamesInv
  PROVE  PartsInv' /\ OuterInv' /\ NamesInv'
<1>1. Gone' = Gone
  BY DEF Gone
<1>2. PartsInv'
  BY <1>1, SourceFrame DEF PartsInv
<1>3. OuterInv' /\ NamesInv'
  BY <1>1, SourceFrame DEF OuterInv, NamesInv
<1> QED
  BY <1>2, <1>3

(* Nothing has been handed out at first, of what is to be handed out. *)
LEMMA InitInv == Init => IInv
<1> SUFFICES ASSUME Init PROVE IInv
  OBVIOUS
<1>1. model \in Models /\ format \in Formats /\ written \in Writings /\ file \in [Layers -> Files]
  BY DEF Init
<1>2. checkpoint \subseteq Tables(Layers, format, written)
  BY DEF Init
<1>3. /\ pending = {t \in checkpoint : t.kind = "outer" \/ file[t.layer] = "none"}
      /\ weight = [l \in Layers |-> [g \in Rows(l) |-> None]] /\ scale = weight
      /\ outer = {} /\ gpuOuter = {} /\ loaded = {} /\ phase = "loading" /\ cut = FALSE
  BY DEF Init
<1>4. TypeOK
  <2>1. \A l \in Layers : weight[l] \in [Rows(l) -> Int]
    <3>1. \A l \in Layers : weight[l] = [g \in Rows(l) |-> -1]
      BY <1>3 DEF None
    <3>2. -1 \in Int
      OBVIOUS
    <3> QED
      BY <3>1, <3>2
  <2>2. DOMAIN weight = Layers
    BY <1>3
  <2> QED
    BY <1>1, <1>2, <1>3, <2>1, <2>2 DEF TypeOK
<1>5. \A l \in Layers : \A s : file[l] = "none" => Tensor(l, "codes", s) \notin Gone
  BY <1>3 DEF Tensor, Gone
<1>6. \A l \in Layers : Tensor(l, "outer", 0) \notin Gone
  BY <1>3 DEF Tensor, Gone
<1>7. PartsInv /\ OuterInv /\ NamesInv
  BY <1>5, <1>6 DEF PartsInv, OuterInv, NamesInv
<1> QED
  BY <1>3, <1>4, <1>7 DEF IInv, FailuresAreDeserved

(* A call that is accepted. *)
LEMMA AcceptedInv ==
  ASSUME TypeOK, PartsInv, OuterInv, NamesInv, phase = "loading",
         NEW l \in Layers, NEW ts \in SUBSET {t \in pending : t.layer = l},
         Load(l, ts), Accepted(l, ts), UNCHANGED phase
  PROVE  TypeOK' /\ PartsInv' /\ OuterInv' /\ NamesInv'
<1> DEFINE codes == PartsOf(ts, "codes")
<1>1. /\ UNCHANGED <<model, format, file, written, checkpoint>>
      /\ pending' = pending \ ts
      /\ gpuOuter' = Retained(l, ts)
      /\ cut' \in BOOLEAN
      /\ phase' = phase
  BY DEF Load, source, TypeOK
<1>2. /\ weight' = [weight EXCEPT ![l] = Copied(@, l, codes)]
      /\ scale' = IF format = "nvfp4" THEN [scale EXCEPT ![l] = Copied(@, l, codes)] ELSE scale
      /\ outer' = IF PartsOf(ts, "outer") # {} THEN outer \cup {l} ELSE outer
      /\ loaded' = loaded \cup LoadedBy(l, ts)
  BY DEF Load
<1>3. /\ codes \subseteq 0 .. (written - 1) /\ codes \in SUBSET Nat
      /\ \A k \in {"codes", "scales", "outer"}, s \in Nat, m \in Layers :
           Tensor(m, k, s) \in ts => m = l /\ s \in PartsOf(ts, k)
  BY TensorsOfCall
<1>4. \A s \in codes : s < model.parts /\ ShapeFits(l, s)
  BY DEF Accepted
<1> HIDE DEF codes
<1>5. Layers' = Layers /\ (\A m : Rows(m)' = Rows(m))
  BY <1>1 DEF Layers, Rows
<1>6. TypeOK'
  <2>1. weight[l] \in [Rows(l) -> Int] /\ scale[l] \in [Rows(l) -> Int]
    BY DEF TypeOK
  <2>2. Copied(weight[l], l, codes) \in [Rows(l) -> Int] /\ Copied(scale[l], l, codes) \in [Rows(l) -> Int]
    BY <1>3, <2>1, CopiedType
  <2>3. DOMAIN weight' = Layers /\ DOMAIN scale' = Layers
    BY <1>2 DEF TypeOK
  <2>4. \A m \in Layers : weight'[m] \in [Rows(m) -> Int] /\ scale'[m] \in [Rows(m) -> Int]
    BY <1>2, <2>2 DEF TypeOK
  <2>5. outer' \subseteq Layers /\ gpuOuter' \subseteq Layers
    BY <1>1, <1>2 DEF TypeOK, Retained
  <2>6. LoadedBy(l, ts) \subseteq Layers \X {"weight", "weight_scale", "weight_scale_2"}
    BY DEF LoadedBy
  <2>7. pending' \subseteq {t \in checkpoint' : t.kind = "outer" \/ file'[t.layer] = "none"}
    BY <1>1 DEF TypeOK
  <2> QED
    BY <1>1, <1>2, <1>5, <2>3, <2>4, <2>5, <2>6, <2>7 DEF TypeOK
<1>7. \A m \in Layers, k \in {"codes", "outer"}, s \in Nat :
        Tensor(m, k, s) \in Gone' => Tensor(m, k, s) \in Gone \/ (m = l /\ s \in PartsOf(ts, k))
  BY <1>1, <1>3 DEF Gone
<1>8. PartsInv'
  <2> SUFFICES ASSUME NEW m \in Layers, NEW s \in 0 .. (written - 1),
                      file[m] = "none", Tensor(m, "codes", s) \in Gone'
               PROVE  /\ s < model.parts /\ ShapeFits(m, s)
                      /\ \A g \in Rows(m) :
                           g \div PartSize(m, model.parts) = s =>
                             /\ weight'[m][g] = RowOf(m, s, g)
                             /\ format = "nvfp4" => scale'[m][g] = RowOf(m, s, g)
    BY <1>1, SourceFrame DEF PartsInv
  <2>0. s \in Nat
    BY Sizes
  <2>1. Tensor(m, "codes", s) \in Gone \/ (m = l /\ s \in codes)
    BY <1>7, <2>0 DEF codes
  <2>2. s < model.parts /\ ShapeFits(m, s)
    BY <1>4, <2>1 DEF PartsInv
  <2>3. ASSUME NEW g \in Rows(m), g \div PartSize(m, model.parts) = s
        PROVE  /\ weight'[m][g] = RowOf(m, s, g)
               /\ format = "nvfp4" => scale'[m][g] = RowOf(m, s, g)
    <3>1. CASE m = l /\ s \in codes
      <4>1. \A table : Copied(table, l, codes)[g] = RowOf(l, s, g)
        BY <1>3, <2>3, <3>1, CopiedRows
      <4> QED
        BY <1>2, <3>1, <4>1 DEF TypeOK
    <3>2. CASE ~(m = l /\ s \in codes)
      <4>1. weight[m][g] = RowOf(m, s, g) /\ (format = "nvfp4" => scale[m][g] = RowOf(m, s, g))
        BY <2>1, <2>3, <3>2 DEF PartsInv
      <4>2. m = l => \A table : Copied(table, l, codes)[g] = table[g]
        BY <1>3, <2>3, <3>2, CopiedRows
      <4> QED
        BY <1>2, <4>1, <4>2 DEF TypeOK
    <3> QED
      BY <3>1, <3>2
  <2> QED
    BY <2>2, <2>3
<1>9. OuterInv'
  <2> SUFFICES ASSUME NEW m \in Layers, Tensor(m, "outer", 0) \in Gone'
               PROVE  m \in outer' \cap gpuOuter'
    BY <1>5 DEF OuterInv
  <2>1. Tensor(m, "outer", 0) \in Gone \/ (m = l /\ 0 \in PartsOf(ts, "outer"))
    BY <1>7
  <2> QED
    BY <1>1, <1>2, <2>1 DEF OuterInv, Retained
<1>10. NamesInv'
  <2>1. ASSUME NEW m \in Layers, NEW s \in 0 .. (written - 1),
               file[m] = "none", Tensor(m, "codes", s) \in Gone'
        PROVE  {m} \X (IF format = "nvfp4" THEN {"weight", "weight_scale"} ELSE {"weight"}) \subseteq loaded'
    <3>0. s \in Nat
      BY Sizes
    <3>1. Tensor(m, "codes", s) \in Gone \/ (m = l /\ s \in PartsOf(ts, "codes"))
      BY <1>7, <2>1, <3>0
    <3> QED
      BY <1>2, <2>1, <3>1 DEF NamesInv, LoadedBy
  <2>2. ASSUME NEW m \in Layers, Tensor(m, "outer", 0) \in Gone'
        PROVE  {m} \X (IF format = "nvfp4" THEN {"weight_scale_2"} ELSE {"weight_scale"}) \subseteq loaded'
    <3>1. Tensor(m, "outer", 0) \in Gone \/ (m = l /\ 0 \in PartsOf(ts, "outer"))
      BY <1>7, <2>2
    <3> QED
      BY <1>2, <3>1 DEF NamesInv, LoadedBy
  <2> QED
    BY <1>1, <1>5, <2>1, <2>2 DEF NamesInv
<1> QED
  BY <1>6, <1>8, <1>9, <1>10

(* A call is refused for a reason. *)
LEMMA RefusalDeserved ==
  ASSUME TypeOK, NEW l \in Layers, NEW ts \in SUBSET {t \in pending : t.layer = l},
         ~Accepted(l, ts), written = model.parts
  PROVE  format = "nvfp4" /\ PartsOf(ts, "codes") # PartsOf(ts, "scales")
<1>1. /\ PartsOf(ts, "codes") \subseteq 0 .. (written - 1)
      /\ PartsOf(ts, "scales") \subseteq 0 .. (written - 1)
      /\ PartsOf(ts, "codes") \in SUBSET Nat
  BY TensorsOfCall
<1>2. written \in Nat
  BY Sizes
<1>3. \A s \in PartsOf(ts, "codes") \cup PartsOf(ts, "scales") : s < model.parts
  BY <1>1, <1>2
<1>4. \A s \in PartsOf(ts, "codes") : ShapeFits(l, s)
  BY <1>1, SameSplit
<1> QED
  BY <1>3, <1>4 DEF Accepted

LEMMA LoadInv ==
  ASSUME IInv, NEW l \in Layers, NEW ts \in SUBSET {t \in pending : t.layer = l}, Load(l, ts)
  PROVE  IInv'
<1>1. TypeOK /\ phase = "loading" /\ PartsInv /\ OuterInv /\ NamesInv
  BY DEF IInv, Load
<1>2. CASE Accepted(l, ts) /\ UNCHANGED phase
  BY <1>1, <1>2, AcceptedInv DEF IInv, FailuresAreDeserved
<1>3. CASE ~Accepted(l, ts) /\ phase' = "failed" /\ UNCHANGED <<weight, scale, outer, loaded>>
  <2>1. /\ UNCHANGED <<model, format, file, written, checkpoint>>
        /\ pending' = pending \ ts /\ gpuOuter' = Retained(l, ts)
        /\ cut' = (cut \/ (format = "nvfp4" /\ PartsOf(ts, "codes") # PartsOf(ts, "scales")))
    BY DEF Load, source
  <2>2. Layers' = Layers /\ (\A m : Rows(m)' = Rows(m)) /\ gpuOuter' \subseteq Layers
    BY <1>1, <2>1 DEF Layers, Rows, Retained, TypeOK
  <2>3. TypeOK'
    BY <1>1, <1>3, <2>1, <2>2 DEF TypeOK
  <2>4. written = model.parts => cut'
    BY <1>1, <1>3, <2>1, RefusalDeserved
  <2> QED
    BY <1>3, <2>1, <2>3, <2>4 DEF IInv, FailuresAreDeserved
<1> QED
  BY <1>2, <1>3 DEF Load

(* All tensors have been handed out: what is missing was missing before. *)
LEMMA FinishInv ==
  ASSUME IInv, Finish
  PROVE  IInv'
<1>1. TypeOK /\ phase = "loading" /\ PartsInv /\ OuterInv /\ NamesInv /\ pending = {}
  BY DEF IInv, Finish
<1> DEFINE verified == checkpoint # {} /\ \A l \in Layers : {l} \X Expected(l) \subseteq loaded
           attached == \A l \in Layers : file[l] # "short"
<1>2. /\ UNCHANGED <<model, format, file, written, checkpoint, pending, weight, scale, outer, gpuOuter, loaded, cut>>
      /\ phase' = IF verified /\ attached THEN "ready" ELSE "failed"
  BY DEF Finish, source
<1>3. Layers' = Layers /\ (\A m : Rows(m)' = Rows(m)) /\ Gone' = Gone /\ Gone = checkpoint
  BY <1>1, <1>2 DEF Layers, Rows, Gone
<1>4. TypeOK'
  BY <1>1, <1>2, <1>3 DEF TypeOK
<1>5. PartsInv' /\ OuterInv' /\ NamesInv'
  BY <1>1, <1>2, PartsFrame
<1>6. ASSUME Complete PROVE verified
  <2>1. PICK m \in Layers : TRUE
    BY <1>1, TablesAssumption DEF TypeOK, Layers
  <2>2. written \in Nat \ {0} /\ 0 \in 0 .. (written - 1)
    BY <1>1, <2>1, Sizes
  <2>3. \A l \in Layers : Tensor(l, "codes", 0) \in checkpoint /\ Tensor(l, "outer", 0) \in checkpoint
    BY <1>6, <2>2 DEF Complete, Tables
  <2>4. format \in {"nvfp4", "fp8"} /\ (\A l \in Layers : file[l] \in {"none", "whole", "short"})
    BY <1>1, TablesAssumption DEF TypeOK
  <2>5. ASSUME NEW l \in Layers PROVE {l} \X Expected(l) \subseteq loaded
    <3>1. {l} \X (IF format = "nvfp4" THEN {"weight_scale_2"} ELSE {"weight_scale"}) \subseteq loaded
      BY <1>1, <1>3, <2>3 DEF NamesInv
    <3>2. file[l] = "none" =>
            {l} \X (IF format = "nvfp4" THEN {"weight", "weight_scale"} ELSE {"weight"}) \subseteq loaded
      BY <1>1, <1>3, <2>2, <2>3 DEF NamesInv
    <3>3. CASE format = "nvfp4"
      BY <2>4, <3>1, <3>2, <3>3 DEF Expected, Parameters
    <3>4. CASE format = "fp8"
      BY <2>4, <3>1, <3>2, <3>4 DEF Expected, Parameters
    <3> QED
      BY <2>4, <3>3, <3>4
  <2>6. checkpoint # {}
    BY <2>1, <2>3
  <2> QED
    BY <2>5, <2>6
<1> HIDE DEF verified
<1>7. FailuresAreDeserved'
  <2>1. Complete' = Complete
    BY <1>2, <1>3 DEF Complete
  <2> QED
    BY <1>2, <1>3, <1>6, <2>1 DEF FailuresAreDeserved
<1>8. phase' = "ready" => pending' = {} /\ \A l \in Layers' : file'[l] # "short"
  BY <1>1, <1>2, <1>3
<1> QED
  BY <1>4, <1>5, <1>7, <1>8 DEF IInv

LEMMA StutterInv ==
  ASSUME IInv, UNCHANGED vars
  PROVE  IInv'
<1>1. UNCHANGED <<model, format, file, written, checkpoint, pending, weight, scale,
                  outer, gpuOuter, loaded, phase, cut>>
  BY DEF vars, source
<1>2. Layers' = Layers /\ (\A m : Rows(m)' = Rows(m)) /\ Gone' = Gone
  BY <1>1 DEF Layers, Rows, Gone
<1>3. TypeOK' = TypeOK
  BY <1>1, <1>2 DEF TypeOK
<1>4. (PartsInv /\ OuterInv /\ NamesInv) => (PartsInv' /\ OuterInv' /\ NamesInv')
  BY <1>1, PartsFrame
<1>5. FailuresAreDeserved => FailuresAreDeserved'
  BY <1>1, <1>2 DEF FailuresAreDeserved, Complete
<1> QED
  BY <1>1, <1>2, <1>3, <1>4, <1>5 DEF IInv

LEMMA NextInv == IInv /\ [Next]_vars => IInv'
BY LoadInv, FinishInv, StutterInv DEF Next

(***************************************************************************)
(* IInv is an invariant of every loading, however a checkpoint is split    *)
(* and cut into calls.                                                     *)
(***************************************************************************)
THEOREM Inductive == Spec => []IInv
BY InitInv, NextInv, PTL DEF Spec

(***************************************************************************)
(* Loading fails only for a reason: a tensor is missing, the checkpoint is *)
(* split in another way, a call brings codes without their scales, or a    *)
(* packed file does not fit the table.                                     *)
(***************************************************************************)
THEOREM FailuresTheorem == Spec => []FailuresAreDeserved
<1>1. IInv => FailuresAreDeserved
  BY DEF IInv
<1> QED
  BY <1>1, Inductive, PTL

(* A row that is in the process's table is the checkpoint's. *)
LEMMA RowsInPlace ==
  ASSUME IInv, phase = "ready", Complete, NEW l \in Layers, NEW g \in Rows(l)
  PROVE  Lookup(l, g) = <<g, g>>
<1>1. TypeOK /\ PartsInv /\ pending = {} /\ file[l] # "short"
  BY DEF IInv
<1>2. file[l] \in {"none", "whole"} /\ format \in {"nvfp4", "fp8"}
  BY <1>1, TablesAssumption DEF TypeOK
<1>3. CASE file[l] = "whole"
  BY <1>3 DEF Lookup
<1>4. CASE file[l] = "none"
  <2> DEFINE T == TableRows(l)
             W == PartSize(l, written)
             s == g \div W
  <2>1. T \in Nat /\ T > 0 /\ g \in 0 .. (T - 1) /\ written \in Nat \ {0} /\ W \in Nat
    BY <1>1, Sizes DEF Rows
  <2>2. \A u \in 0 .. (written - 1) : Tensor(l, "codes", u) \in Gone
    BY <1>1 DEF Complete, Tables, Gone
  <2>3. PartSize(l, model.parts) = W
    <3>1. 0 \in 0 .. (written - 1)
      BY <2>1
    <3>2. ShapeFits(l, 0)
      BY <1>1, <1>4, <2>2, <3>1 DEF PartsInv
    <3> QED
      BY <1>1, <2>1, <3>2, FirstPart
  <2>4. s \in 0 .. (written - 1) /\ s * W <= g /\ g < s * W + W
    BY <2>1, PartsCoverTable DEF PartSize
  <2>5. weight[l][g] = RowOf(l, s, g) /\ (format = "nvfp4" => scale[l][g] = RowOf(l, s, g))
    BY <1>1, <1>4, <2>2, <2>3, <2>4 DEF PartsInv
  <2>6. RowOf(l, s, g) = s * W + (g - s * W)
    BY <2>3 DEF RowOf
  <2> HIDE DEF s, W
  <2>7. RowOf(l, s, g) = g
    <3>1. s * W \in Int
      BY <2>1, <2>4
    <3> QED
      BY <2>1, <2>6, <3>1
  <2> QED
    BY <1>2, <1>4, <2>5, <2>7 DEF Lookup
<1> QED
  BY <1>2, <1>3, <1>4

(***************************************************************************)
(* When a process with a complete checkpoint is ready, every hash of every *)
(* head finds the row the checkpoint has for that head and that remainder, *)
(* with its block scales, and the GPU has the scale of the table.          *)
(***************************************************************************)
THEOREM LookupsTheorem == Spec => []LookupsFindTheirRow
<1>1. ASSUME IInv, phase = "ready", Complete, NEW l \in Layers
      PROVE  l \in outer \cap gpuOuter
  <2>1. OuterInv /\ pending = {}
    BY <1>1 DEF IInv
  <2>2. Tensor(l, "outer", 0) \in Gone
    BY <1>1, <2>1 DEF Complete, Tables, Gone
  <2> QED
    BY <2>1, <2>2 DEF OuterInv
<1>2. ASSUME IInv, phase = "ready", Complete, NEW l \in Layers, NEW g \in 1 .. Len(Layout(l))
      PROVE  Lookup(l, RowId(l, Layout(l)[g][1], Layout(l)[g][2])) = <<g - 1, g - 1>>
  <2>1. Sized(l)
    BY <1>2, Sizes DEF IInv
  <2>2. g - 1 \in Rows(l) /\ RowId(l, Layout(l)[g][1], Layout(l)[g][2]) = g - 1
    BY <2>1, LayoutFits
  <2> QED
    BY <1>2, <2>2, RowsInPlace
<1>3. IInv => LookupsFindTheirRow
  BY <1>1, <1>2 DEF LookupsFindTheirRow
<1> QED
  BY <1>3, Inductive, PTL

-----------------------------------------------------------------------------
(* Sequences.                                                              *)

LEMMA MinOf ==
  ASSUME NEW S \in SUBSET Nat, S # {}
  PROVE  Min(S) \in S /\ \A x \in S : Min(S) <= x
BY LeastNat DEF Min

(* A flattened sequence has the elements of its parts. *)
LEMMA FlattenRange ==
  ASSUME NEW S, NEW seqs \in Seq(Seq(S))
  PROVE  /\ FlattenSeq(seqs) \in Seq(S)
         /\ Range(FlattenSeq(seqs)) = UNION {Range(seqs[i]) : i \in DOMAIN seqs}
<1>1. CASE seqs = <<>>
  <2>1. FlattenSeq(seqs) = <<>>
    BY <1>1 DEF FlattenSeq
  <2>2. Range(<<>>) = {} /\ DOMAIN seqs = {}
    BY <1>1 DEF Range
  <2> QED
    BY <2>1, <2>2
<1>2. CASE seqs # <<>>
  <2>1. Len(seqs) \in Nat \ {0} /\ DOMAIN seqs = 1 .. Len(seqs) /\ \A i \in DOMAIN seqs : seqs[i] \in Seq(S)
    BY <1>2
  <2>2. PICK f : f = FlatStep(seqs, Len(seqs), f) /\ FlattenSeq(seqs) = f[Len(seqs)]
    BY <2>1, FlattenDef
  <2>3. \A i \in 1 .. Len(seqs) : f[i] = IF i = 1 THEN seqs[i] ELSE f[i - 1] \o seqs[i]
    BY <2>2 DEF FlatStep
  <2> DEFINE Good(i) == /\ f[i] \in Seq(S)
                        /\ Range(f[i]) = UNION {Range(seqs[j]) : j \in 1 .. i}
             Bad == {i \in 1 .. Len(seqs) : ~Good(i)}
  <2>4. Bad = {}
    <3> SUFFICES ASSUME Bad # {} PROVE FALSE
      OBVIOUS
    <3>1. PICK n \in Bad : \A m \in Bad : n <= m
      <4>1. Bad \in SUBSET Nat
        BY <2>1
      <4> HIDE DEF Bad
      <4> QED
        BY <4>1, LeastNat
    <3>2. n \in 1 .. Len(seqs) /\ n \in Nat /\ seqs[n] \in Seq(S)
      BY <3>1, <2>1
    <3>3. n # 1
      <4> SUFFICES ASSUME n = 1 PROVE Good(n)
        BY <3>1
      <4>1. f[n] = seqs[n]
        BY <3>2, <2>3
      <4>2. 1 .. n = {n}
        OBVIOUS
      <4> QED
        BY <3>2, <4>1, <4>2
    <3>4. n - 1 \in 1 .. Len(seqs) /\ n - 1 \in Nat /\ Good(n - 1)
      <4>1. n - 1 \in 1 .. Len(seqs) /\ n - 1 \in Nat /\ ~(n <= n - 1)
        BY <3>2, <3>3
      <4>2. n - 1 \notin Bad
        BY <4>1, <3>1
      <4> QED
        BY <4>1, <4>2
    <3>5. f[n] = f[n - 1] \o seqs[n]
      BY <3>2, <3>3, <2>3
    <3>6. Range(f[n - 1] \o seqs[n]) = Range(f[n - 1]) \cup Range(seqs[n])
      <4> DEFINE a == f[n - 1] b == seqs[n]
      <4>1. a \in Seq(S) /\ b \in Seq(S)
        BY <3>2, <3>4
      <4> HIDE DEF a, b
      <4>2. /\ a \o b \in Seq(S) /\ Len(a \o b) = Len(a) + Len(b)
            /\ \A i \in 1 .. Len(a) + Len(b) : (a \o b)[i] = IF i <= Len(a) THEN a[i] ELSE b[i - Len(a)]
        BY <4>1, ConcatProperties
      <4>3. Len(a) \in Nat /\ Len(b) \in Nat /\ DOMAIN a = 1 .. Len(a) /\ DOMAIN b = 1 .. Len(b)
            /\ DOMAIN (a \o b) = 1 .. Len(a) + Len(b)
        BY <4>1, <4>2
      <4>4. ASSUME NEW i \in 1 .. Len(a) PROVE i \in 1 .. Len(a) + Len(b) /\ (a \o b)[i] = a[i]
        BY <4>2, <4>3
      <4>5. ASSUME NEW i \in 1 .. Len(b)
            PROVE  i + Len(a) \in 1 .. Len(a) + Len(b) /\ (a \o b)[i + Len(a)] = b[i]
        BY <4>2, <4>3
      <4>6. ASSUME NEW i \in 1 .. Len(a) + Len(b)
            PROVE  (a \o b)[i] \in Range(a) \cup Range(b)
        <5>1. CASE i <= Len(a)
          <6>1. i \in 1 .. Len(a)
            BY <5>1, <4>3
          <6> QED
            BY <6>1, <4>3, <4>4 DEF Range
        <5>2. CASE ~(i <= Len(a))
          <6>1. i - Len(a) \in 1 .. Len(b)
            BY <5>2, <4>3
          <6>2. (a \o b)[i] = b[i - Len(a)]
            BY <5>2, <4>2
          <6> QED
            BY <6>1, <6>2, <4>3 DEF Range
        <5> QED
          BY <5>1, <5>2
      <4>7. Range(a \o b) \subseteq Range(a) \cup Range(b)
        BY <4>3, <4>6 DEF Range
      <4>8. Range(a) \subseteq Range(a \o b)
        BY <4>3, <4>4 DEF Range
      <4>9. Range(b) \subseteq Range(a \o b)
        BY <4>3, <4>5 DEF Range
      <4> QED
        BY <4>7, <4>8, <4>9 DEF a, b
    <3>7. 1 .. n = (1 .. (n - 1)) \cup {n}
      BY <3>2, <3>3
    <3>8. Good(n)
      <4>1. f[n] \in Seq(S)
        BY <3>2, <3>4, <3>5, ConcatProperties
      <4>2. Range(f[n]) = (UNION {Range(seqs[j]) : j \in 1 .. (n - 1)}) \cup Range(seqs[n])
        BY <3>4, <3>5, <3>6
      <4>3. UNION {Range(seqs[j]) : j \in (1 .. (n - 1)) \cup {n}}
              = (UNION {Range(seqs[j]) : j \in 1 .. (n - 1)}) \cup Range(seqs[n])
        OBVIOUS
      <4> QED
        BY <4>1, <4>2, <4>3, <3>7
    <3> QED
      BY <3>1, <3>8
  <2>5. Good(Len(seqs))
    <3> HIDE DEF Good
    <3>1. Len(seqs) \in 1 .. Len(seqs)
      BY <2>1
    <3> QED
      BY <2>4, <3>1
  <2> QED
    BY <2>1, <2>2, <2>5
<1> QED
  BY <1>1, <1>2

(* The first format found. *)
LEMMA FirstFoundFacts ==
  ASSUME NEW S, NEW found \in Seq(S)
  PROVE  /\ (\A i \in DOMAIN found : found[i] = "none") => FirstFound(found) = "none"
         /\ (\E i \in DOMAIN found : found[i] # "none") =>
              \E i \in DOMAIN found :
                /\ found[i] # "none" /\ FirstFound(found) = found[i]
                /\ \A j \in 1 .. (i - 1) : found[j] = "none"
<1> DEFINE I == {i \in 1 .. Len(found) : found[i] # "none"}
<1>1. DOMAIN found = 1 .. Len(found) /\ Len(found) \in Nat /\ I \in SUBSET Nat
  OBVIOUS
<1>2. FirstFound(found) = IF (IF I # {} THEN Min(I) ELSE 0) = 0 THEN "none" ELSE found[IF I # {} THEN Min(I) ELSE 0]
  BY DEF FirstFound, SelectInSeq
<1>3. CASE I = {}
  BY <1>1, <1>2, <1>3
<1>4. CASE I # {}
  <2>1. Min(I) \in I /\ \A i \in I : Min(I) <= i
    <3> HIDE DEF I
    <3> QED
      BY <1>1, <1>4, MinOf
  <2>2. FirstFound(found) = found[Min(I)]
    <3>1. Min(I) # 0
      BY <2>1, <1>1
    <3> QED
      BY <3>1, <1>2, <1>4
  <2>3. \A j \in 1 .. (Min(I) - 1) : found[j] = "none"
    <3>1. ASSUME NEW j \in 1 .. (Min(I) - 1), found[j] # "none" PROVE FALSE
      <4>1. j \in I /\ ~(Min(I) <= j)
        BY <3>1, <2>1, <1>1
      <4> QED
        BY <4>1, <2>1
    <3> QED
      BY <3>1
  <2> HIDE DEF FirstFound
  <2> QED
    BY <1>1, <2>1, <2>2, <2>3
<1> QED
  BY <1>3, <1>4

(* A module has a name, and tensors of the checkpoint. *)
LEMMA ModuleTypes ==
  ASSUME NEW i \in DOMAIN Modules
  PROVE  /\ Modules[i].tensors \in Seq(Tensors) /\ Own(Modules[i]) \subseteq Tensors
         /\ Modules[i].tensors \in Seq(Own(Modules[i])) /\ Own(Modules[i]) # {}
         /\ Modules[i].name \in Seq(Range(Modules[i].name)) /\ Modules[i].name # <<>>
<1> DEFINE T == UNION {Own(Modules[j]) : j \in DOMAIN Modules}
           seqs == [j \in DOMAIN Modules |-> Modules[j].tensors]
<1>1. DOMAIN Modules = 1 .. Len(Modules) /\ Len(Modules) \in Nat
  BY QuantAssumption
<1>2. ASSUME NEW j \in DOMAIN Modules PROVE seqs[j] \in Seq(T)
  <2>1. Modules[j].tensors \in Seq(Own(Modules[j])) /\ Own(Modules[j]) \subseteq T
    BY QuantAssumption DEF Own
  <2> QED
    BY <2>1
<1>3. seqs \in Seq(Seq(T))
  BY <1>1, <1>2
<1>4. Tensors = T
  <2>1. Tensors = UNION {Range(seqs[j]) : j \in DOMAIN seqs}
    BY <1>3, FlattenRange DEF Tensors, AllTensors
  <2> QED
    BY <2>1 DEF Own
<1> DEFINE s == Modules[i].tensors
<1>5. /\ s \in Seq(Range(s)) /\ s # <<>>
      /\ Modules[i].name \in Seq(Range(Modules[i].name)) /\ Modules[i].name # <<>>
  BY QuantAssumption
<1>6. Range(s) # {}
  <2> HIDE DEF s
  <2>1. 1 \in DOMAIN s
    BY <1>5
  <2> QED
    BY <2>1 DEF Range
<1> QED
  BY <1>2, <1>4, <1>5, <1>6 DEF Own

(* A file lists the tensors in the order of the modules or backwards. *)
LEMMA TensorOrders ==
  /\ AllTensors \in Seq(Tensors) /\ Range(AllTensors) = Tensors
  /\ Reverse(AllTensors) \in Seq(Tensors) /\ Range(Reverse(AllTensors)) = Tensors
<1> DEFINE seqs == [j \in DOMAIN Modules |-> Modules[j].tensors]
<1>1. seqs \in Seq(Seq(Tensors))
  <2>1. DOMAIN Modules = 1 .. Len(Modules) /\ Len(Modules) \in Nat
    BY QuantAssumption
  <2> QED
    BY <2>1, ModuleTypes
<1>2. AllTensors \in Seq(Tensors)
  BY <1>1, FlattenRange DEF AllTensors
<1> DEFINE s == AllTensors
<1>3. s \in Seq(Tensors) /\ Range(s) = Tensors
  BY <1>2 DEF Tensors
<1> HIDE DEF s
<1>4. Len(s) \in Nat /\ DOMAIN s = 1 .. Len(s) /\ \A i \in 1 .. Len(s) : s[i] \in Tensors
  BY <1>3
<1>5. ASSUME NEW i \in 1 .. Len(s)
      PROVE  Len(s) - i + 1 \in 1 .. Len(s) /\ Len(s) - (Len(s) - i + 1) + 1 = i
  BY <1>4
<1>6. /\ DOMAIN Reverse(s) = 1 .. Len(s)
      /\ \A i \in 1 .. Len(s) : Reverse(s)[i] = s[Len(s) - i + 1]
  BY DEF Reverse
<1>7. Reverse(s) \in Seq(Tensors)
  BY <1>4, <1>5 DEF Reverse
<1>8. Range(Reverse(s)) = Tensors
  <2>1. Range(Reverse(s)) \subseteq Tensors
    BY <1>4, <1>5, <1>6 DEF Range
  <2>2. ASSUME NEW t \in Tensors PROVE t \in Range(Reverse(s))
    <3>1. PICK i \in 1 .. Len(s) : t = s[i]
      BY <1>3, <1>4 DEF Range
    <3>2. t = Reverse(s)[Len(s) - i + 1]
      BY <3>1, <1>5, <1>6
    <3> QED
      BY <3>2, <1>5, <1>6 DEF Range
  <2> QED
    BY <2>1, <2>2
<1> QED
  BY <1>3, <1>7, <1>8 DEF s

(* The entry of a tensor. *)
Entry(f, t) ==
  [key |-> t, algo |-> f.storage[t],
   group |-> CASE f.storage[t] \in NvFp4 -> f.group
               [] f.storage[t] = "MXFP8" -> 32
               [] OTHER -> 128]

Quantized(f) == {t \in Tensors : f.storage[t] # "none"}

LEMMA ListingFacts ==
  ASSUME NEW f
  PROVE  /\ QuantizedLayers(f) \in Seq({Entry(f, t) : t \in Quantized(f)})
         /\ Range(QuantizedLayers(f)) = {Entry(f, t) : t \in Quantized(f)}
<1> DEFINE order == IF f.backwards THEN Reverse(AllTensors) ELSE AllTensors
           E == {Entry(f, t) : t \in Quantized(f)}
           seqs == [i \in DOMAIN order |->
                      IF f.storage[order[i]] = "none" THEN <<>> ELSE <<Entry(f, order[i])>>]
<1>1. order \in Seq(Tensors) /\ Range(order) = Tensors
  BY TensorOrders
<1>2. QuantizedLayers(f) = FlattenSeq(seqs)
  BY DEF QuantizedLayers, Entry
<1> HIDE DEF order
<1>3. Len(order) \in Nat /\ DOMAIN order = 1 .. Len(order) /\ \A i \in DOMAIN order : order[i] \in Tensors
  BY <1>1
<1>4. ASSUME NEW i \in DOMAIN order
      PROVE  /\ seqs[i] \in Seq(E)
             /\ Range(seqs[i]) = IF f.storage[order[i]] = "none" THEN {} ELSE {Entry(f, order[i])}
  <2>1. CASE f.storage[order[i]] = "none"
    <3>1. seqs[i] = <<>>
      BY <2>1
    <3> QED
      BY <2>1, <3>1 DEF Range
  <2>2. CASE f.storage[order[i]] # "none"
    <3>1. seqs[i] = <<Entry(f, order[i])>>
      BY <2>2
    <3>2. Entry(f, order[i]) \in E
      BY <2>2, <1>3 DEF Quantized
    <3> DEFINE e == Entry(f, order[i])
    <3> HIDE DEF e, E, seqs
    <3>3. <<e>> \in Seq(E) /\ Range(<<e>>) = {e}
      BY <3>2 DEF e, Range
    <3> QED
      BY <2>2, <3>1, <3>3 DEF e
  <2> QED
    BY <2>1, <2>2
<1>5. DOMAIN seqs = DOMAIN order
  OBVIOUS
<1>a. seqs = [i \in DOMAIN order |-> seqs[i]]
  OBVIOUS
<1> HIDE DEF seqs, E
<1>6. seqs \in Seq(Seq(E))
  <2>1. seqs \in [1 .. Len(order) -> Seq(E)]
    BY <1>3, <1>4, <1>a
  <2> QED
    BY <1>3, <2>1
<1>7. FlattenSeq(seqs) \in Seq(E) /\ Range(FlattenSeq(seqs)) = UNION {Range(seqs[i]) : i \in DOMAIN order}
  BY <1>5, <1>6, FlattenRange
<1>8. UNION {Range(seqs[i]) : i \in DOMAIN order} = E
  <2>1. UNION {Range(seqs[i]) : i \in DOMAIN order} \subseteq E
    BY <1>3, <1>4 DEF E, Quantized
  <2>2. ASSUME NEW t \in Quantized(f) PROVE Entry(f, t) \in UNION {Range(seqs[i]) : i \in DOMAIN order}
    <3>1. PICK i \in DOMAIN order : order[i] = t
      BY <1>1 DEF Range, Quantized
    <3> QED
      BY <3>1, <1>4 DEF Quantized
  <2> QED
    BY <2>1, <2>2 DEF E
<1> QED
  BY <1>2, <1>7, <1>8 DEF E

-----------------------------------------------------------------------------
(* What a module of a mixed checkpoint finds out about itself.             *)

Mixed == quantFile.algo = "MIXED_PRECISION"

(* The formats of a module's quantized tensors. *)
Algos(module) == {quantFile.storage[t] : t \in Own(module) \cap Quantized(quantFile)}

(* An entry of the listing of a module is that of this tensor. *)
IsEntry(module, e, t) == e.key = KeyFor(module, t) /\ e.algo = quantFile.storage[t]

(* The fields of the configurations. *)
LEMMA ForTargetFields ==
  LET c == Parsed(quantFile) d == ForTarget(c)
  IN  /\ d.algo = quantFile.algo /\ d.packed = quantFile.packed /\ d.group = c.group
      /\ d.listed = [i \in DOMAIN c.listed |-> [c.listed[i] EXCEPT !.key = Mapped(c.listed[i].key, FALSE)]]
      /\ d.excludes = {[p EXCEPT !.path = Mapped(p.path, p.wild = ".*")] :
                         p \in UNION {Split(p) : p \in quantFile.excludes}}
<1> DEFINE c == Parsed(quantFile)
           listed == [i \in DOMAIN c.listed |-> [c.listed[i] EXCEPT !.key = Mapped(c.listed[i].key, FALSE)]]
           excludes == {[p EXCEPT !.path = Mapped(p.path, p.wild = ".*")] : p \in UNION {Split(p) : p \in c.excludes}}
<1>1. /\ c = [algo |-> c.algo, listed |-> c.listed, excludes |-> c.excludes, packed |-> c.packed, group |-> c.group]
      /\ c.algo = quantFile.algo /\ c.packed = quantFile.packed /\ c.excludes = quantFile.excludes
  BY DEF Parsed
<1>2. ForTarget(c) = [c EXCEPT !.excludes = excludes, !.listed = listed]
  BY DEF ForTarget
<1> HIDE DEF c
<1>3. /\ ForTarget(c).algo = c.algo /\ ForTarget(c).packed = c.packed /\ ForTarget(c).group = c.group
      /\ ForTarget(c).listed = listed /\ ForTarget(c).excludes = excludes
  <2> HIDE DEF listed, excludes
  <2> QED
    BY <1>1, <1>2
<1> QED
  BY <1>1, <1>3 DEF c

LEMMA ForDraftFields ==
  LET c == Parsed(quantFile) d == ForDraft(c)
  IN  /\ d.algo = quantFile.algo /\ d.packed = quantFile.packed /\ d.group = c.group
      /\ d.listed = c.listed
      /\ d.excludes = {[p EXCEPT !.path = Renumbered(p.path)] : p \in quantFile.excludes}
<1> DEFINE c == Parsed(quantFile)
           excludes == {[p EXCEPT !.path = Renumbered(p.path)] : p \in c.excludes}
<1>1. /\ c = [algo |-> c.algo, listed |-> c.listed, excludes |-> c.excludes, packed |-> c.packed, group |-> c.group]
      /\ c.algo = quantFile.algo /\ c.packed = quantFile.packed /\ c.excludes = quantFile.excludes
  BY DEF Parsed
<1>2. ForDraft(c) = [c EXCEPT !.excludes = excludes]
  BY DEF ForDraft
<1> HIDE DEF c
<1>3. /\ ForDraft(c).algo = c.algo /\ ForDraft(c).packed = c.packed /\ ForDraft(c).group = c.group
      /\ ForDraft(c).listed = c.listed /\ ForDraft(c).excludes = excludes
  <2> HIDE DEF excludes
  <2> QED
    BY <1>1, <1>2
<1> QED
  BY <1>1, <1>3 DEF c

(* The listing of a module's configuration has all quantized tensors. *)
LEMMA ConfigListing ==
  ASSUME NEW module, Mixed
  PROVE  LET listed == ConfigFor(module).listed
         IN  /\ Len(listed) \in Nat /\ DOMAIN listed = 1 .. Len(listed)
             /\ \A i \in 1 .. Len(listed) : \E t \in Quantized(quantFile) : IsEntry(module, listed[i], t)
             /\ \A t \in Quantized(quantFile) : \E i \in 1 .. Len(listed) : IsEntry(module, listed[i], t)
<1> DEFINE raw == QuantizedLayers(quantFile)
           c == Parsed(quantFile)
           mapped == [i \in DOMAIN raw |-> [raw[i] EXCEPT !.key = Mapped(raw[i].key, FALSE)]]
<1>1. /\ Len(raw) \in Nat /\ DOMAIN raw = 1 .. Len(raw)
      /\ \A i \in 1 .. Len(raw) : \E t \in Quantized(quantFile) : raw[i] = Entry(quantFile, t)
      /\ \A t \in Quantized(quantFile) : \E i \in 1 .. Len(raw) : raw[i] = Entry(quantFile, t)
  <2> DEFINE E == {Entry(quantFile, t) : t \in Quantized(quantFile)}
  <2>1. raw \in Seq(E) /\ Range(raw) = E
    BY ListingFacts
  <2>2. \A e \in E : \E t \in Quantized(quantFile) : e = Entry(quantFile, t)
    OBVIOUS
  <2>3. \A t \in Quantized(quantFile) : Entry(quantFile, t) \in E
    OBVIOUS
  <2> HIDE DEF raw, E
  <2>4. Len(raw) \in Nat /\ DOMAIN raw = 1 .. Len(raw) /\ \A i \in 1 .. Len(raw) : raw[i] \in E
    BY <2>1
  <2>5. \A e \in E : \E i \in 1 .. Len(raw) : raw[i] = e
    BY <2>1, <2>4 DEF Range
  <2> QED
    BY <2>2, <2>3, <2>4, <2>5
<1>2. c.listed = raw
  BY DEF Parsed, Mixed
<1> HIDE DEF raw
<1>3. CASE module.draft
  <2>1. ConfigFor(module).listed = raw
    BY <1>2, <1>3 DEF ConfigFor, ForDraft, Parsed
  <2>2. \A t : IsEntry(module, Entry(quantFile, t), t)
    BY <1>3 DEF IsEntry, Entry, KeyFor
  <2> QED
    BY <2>1, <2>2, <1>1
<1>4. CASE ~module.draft
  <2>1. ConfigFor(module).listed = mapped
    BY <1>2, <1>4, ForTargetFields DEF ConfigFor
  <2>2. DOMAIN mapped = 1 .. Len(raw) /\ Len(mapped) = Len(raw)
    BY <1>1
  <2>3. ASSUME NEW i \in 1 .. Len(raw), NEW t, raw[i] = Entry(quantFile, t)
        PROVE  IsEntry(module, mapped[i], t)
    <3>1. mapped[i] = [Entry(quantFile, t) EXCEPT !.key = Mapped(Entry(quantFile, t).key, FALSE)]
      BY <2>3, <1>1
    <3> QED
      BY <3>1, <1>4 DEF IsEntry, Entry, KeyFor
  <2> HIDE DEF mapped
  <2> QED
    BY <2>1, <2>2, <2>3, <1>1
<1> QED
  BY <1>3, <1>4

(* The first entry at some places of the listing. *)
FirstAt(listed, places) == IF places = {} THEN "none" ELSE listed[Min(places)].algo

LEMMA FirstAtFacts ==
  ASSUME NEW module, Mixed, NEW places \in SUBSET (1 .. Len(ConfigFor(module).listed))
  PROVE  LET listed == ConfigFor(module).listed found == FirstAt(listed, places)
         IN  IF places = {} THEN found = "none"
             ELSE \E i \in places : \E t \in Quantized(quantFile) :
                    IsEntry(module, listed[i], t) /\ found = quantFile.storage[t] /\ found # "none"
<1> DEFINE listed == ConfigFor(module).listed
<1>1. Len(listed) \in Nat /\ \A i \in 1 .. Len(listed) : \E t \in Quantized(quantFile) : IsEntry(module, listed[i], t)
  BY ConfigListing
<1> HIDE DEF listed
<1>2. CASE places = {}
  BY <1>2 DEF FirstAt
<1>3. CASE places # {}
  <2>1. Min(places) \in places
    <3>1. places \in SUBSET Nat
      BY <1>1 DEF listed
    <3> QED
      BY <3>1, <1>3, MinOf
  <2>2. PICK t \in Quantized(quantFile) : IsEntry(module, listed[Min(places)], t)
    BY <2>1, <1>1 DEF listed
  <2>3. FirstAt(listed, places) = quantFile.storage[t] /\ quantFile.storage[t] # "none"
    BY <2>2, <1>3 DEF FirstAt, IsEntry, Quantized
  <2> QED
    BY <2>1, <2>2, <2>3, <1>3 DEF listed
<1> QED
  BY <1>2, <1>3

(* The words that Candidates may put into a name. *)
NewWords == {"lm_head", "0", "language_model", "model"}

LEMMA CandidatesSeq ==
  ASSUME NEW W, NewWords \subseteq W, NEW name \in Seq(W)
  PROVE  Candidates(name) \in Seq(Seq(W))
<1> DEFINE S == Seq(W)
           behind(prefix, other) ==
             IF IsStrictPrefix(prefix, name)
             THEN <<other \o SubSeq(name, Len(prefix) + 1, Len(name))>> ELSE <<>>
           head == IF Last(name) = "lm_head" /\ Len(name) > 1 THEN << <<"lm_head">> >> ELSE <<>>
           mtp == IF Len(name) > 3 /\ name[1] = "mtp" /\ name[2] = "layers" /\ name[3] # "0"
                  THEN << [name EXCEPT ![3] = "0"] >> ELSE <<>>
           P1 == <<"language_model", "model">>
           P2 == <<"model", "language_model">>
<1>1. ASSUME NEW prefix \in S, NEW other \in S PROVE behind(prefix, other) \in Seq(S)
  <2> DEFINE rest == SubSeq(name, Len(prefix) + 1, Len(name))
  <2>1. rest \in S
    <3>1. Len(prefix) + 1 \in Nat \ {0} /\ Len(name) \in Nat
      OBVIOUS
    <3>2. \A i \in (Len(prefix) + 1) .. Len(name) : name[i] \in W
      BY <3>1
    <3> QED
      BY <3>1, <3>2, SubSeqProperties
  <2> HIDE DEF rest
  <2>2. other \o rest \in S
    BY <2>1, ConcatProperties
  <2> DEFINE e == other \o rest
  <2> HIDE DEF e, S
  <2>3. <<e>> \in Seq(S) /\ <<>> \in Seq(S)
    BY <2>2 DEF e
  <2> QED
    BY <2>3 DEF e, rest
<1>a. name \in S /\ "lm_head" \in W /\ "0" \in W /\ "language_model" \in W /\ "model" \in W
  BY DEF NewWords
<1>2. head \in Seq(S)
  <2>1. <<"lm_head">> \in S
    BY <1>a
  <2> HIDE DEF S
  <2> QED
    BY <2>1
<1>3. mtp \in Seq(S)
  <2>1. [name EXCEPT ![3] = "0"] \in [1 .. Len(name) -> W]
    <3>1. name \in [1 .. Len(name) -> W]
      BY <1>a
    <3> QED
      BY <3>1, <1>a
  <2>2. [name EXCEPT ![3] = "0"] \in S
    BY <2>1
  <2> DEFINE e == [name EXCEPT ![3] = "0"]
  <2> HIDE DEF S, e
  <2>3. <<e>> \in Seq(S) /\ <<>> \in Seq(S)
    BY <2>2 DEF e
  <2> QED
    BY <2>3 DEF e
<1>4. P1 \in S /\ P2 \in S
  BY <1>a
<1>5. behind(P1, P2) \in Seq(S) /\ behind(P2, P1) \in Seq(S) /\ <<name>> \in Seq(S)
  <2>1. name \in S
    BY <1>a
  <2> HIDE DEF behind, S, P1, P2
  <2>2. behind(P1, P2) \in Seq(S)
    BY <1>1, <1>4
  <2>3. behind(P2, P1) \in Seq(S)
    BY <1>1, <1>4
  <2> QED
    BY <2>1, <2>2, <2>3
<1>6. Candidates(name) = <<name>> \o head \o behind(P1, P2) \o behind(P2, P1) \o mtp
  BY DEF Candidates
<1> HIDE DEF S, head, mtp, behind, P1, P2
<1> DEFINE s1 == <<name>> \o head
           s2 == s1 \o behind(P1, P2)
           s3 == s2 \o behind(P2, P1)
<1>7. s1 \in Seq(S)
  BY <1>2, <1>5, ConcatProperties
<1>8. s2 \in Seq(S)
  <2> HIDE DEF s1
  <2> QED
    BY <1>5, <1>7, ConcatProperties
<1>9. s3 \in Seq(S)
  <2> HIDE DEF s2
  <2> QED
    BY <1>5, <1>8, ConcatProperties
<1>10. s3 \o mtp \in Seq(S)
  <2> HIDE DEF s3
  <2> QED
    BY <1>3, <1>9, ConcatProperties
<1> QED
  BY <1>6, <1>10 DEF S

LEMMA ModuleName ==
  ASSUME NEW name, name \in Seq(Range(name))
  PROVE  \E W : /\ name \in Seq(W) /\ Candidates(name) \in Seq(Seq(W))
                /\ \A c \in Seq(W) : Candidates(c) \in Seq(Seq(W)) /\ IsPrefix(c, c)
<1> DEFINE W == Range(name) \cup NewWords
<1>1. NewWords \subseteq W /\ name \in Seq(W)
  OBVIOUS
<1> HIDE DEF W
<1>2. \A c \in Seq(W) : Candidates(c) \in Seq(Seq(W))
  BY <1>1, CandidatesSeq
<1>3. \A c \in Seq(W) : IsPrefix(c, c)
  BY DEF IsPrefix
<1> QED
  BY <1>1, <1>2, <1>3

(* The first of several lookups that finds something. *)
LEMMA LookupFacts ==
  ASSUME NEW module, Mixed, NEW S, NEW names \in Seq(S),
         NEW places \in [DOMAIN names -> SUBSET (1 .. Len(ConfigFor(module).listed))],
         NEW A, NEW all \in Seq(A), DOMAIN all = DOMAIN names,
         \A j \in DOMAIN names : all[j] = FirstAt(ConfigFor(module).listed, places[j])
  PROVE  \/ FirstFound(all) = "none" /\ \A j \in DOMAIN names : places[j] = {}
         \/ /\ FirstFound(all) # "none"
            /\ \E j \in DOMAIN names : \E i \in places[j] : \E t \in Quantized(quantFile) :
                 /\ IsEntry(module, ConfigFor(module).listed[i], t)
                 /\ FirstFound(all) = quantFile.storage[t]
<1> DEFINE listed == ConfigFor(module).listed
<1>1. ASSUME NEW j \in DOMAIN names
      PROVE  IF places[j] = {} THEN all[j] = "none"
             ELSE \E i \in places[j] : \E t \in Quantized(quantFile) :
                    IsEntry(module, listed[i], t) /\ all[j] = quantFile.storage[t] /\ all[j] # "none"
  <2> DEFINE at == places[j]
  <2>1. at \in SUBSET (1 .. Len(listed)) /\ all[j] = FirstAt(listed, at)
    OBVIOUS
  <2> HIDE DEF at
  <2>2. IF at = {} THEN FirstAt(listed, at) = "none"
        ELSE \E i \in at : \E t \in Quantized(quantFile) :
               /\ IsEntry(module, listed[i], t)
               /\ FirstAt(listed, at) = quantFile.storage[t] /\ FirstAt(listed, at) # "none"
    BY <2>1, FirstAtFacts
  <2> HIDE DEF listed
  <2> QED
    BY <2>1, <2>2 DEF at
<1>2. all \in Seq(A)
  OBVIOUS
<1> HIDE DEF listed
<1>3. CASE \A j \in DOMAIN names : all[j] = "none"
  <2>1. FirstFound(all) = "none"
    BY <1>2, <1>3, FirstFoundFacts
  <2>2. \A j \in DOMAIN names : places[j] = {}
    BY <1>1, <1>3
  <2> QED
    BY <2>1, <2>2
<1>4. CASE \E j \in DOMAIN names : all[j] # "none"
  <2>1. PICK j \in DOMAIN names : all[j] # "none" /\ FirstFound(all) = all[j]
    BY <1>2, <1>4, FirstFoundFacts
  <2> QED
    BY <2>1, <1>1 DEF listed
<1> QED
  BY <1>3, <1>4

(* A module's names, and what the listing has at them or below them.       *)
LEMMA DirectFacts ==
  ASSUME NEW module, module.name \in Seq(Range(module.name)), Mixed
  PROVE  LET found == Direct(module.name, ConfigFor(module))
             names == Range(Candidates(module.name))
         IN  \/ found = "none" /\ \A t \in Quantized(quantFile) : KeyFor(module, t) \notin names
             \/ /\ found # "none"
                /\ \E t \in Quantized(quantFile) :
                     KeyFor(module, t) \in names /\ found = quantFile.storage[t]
<1> DEFINE listed == ConfigFor(module).listed
           names == Candidates(module.name)
           places == [j \in DOMAIN names |-> {i \in 1 .. Len(listed) : listed[i].key = names[j]}]
           all == [j \in DOMAIN names |-> FirstListed(listed, LAMBDA k : k = names[j])]
           found == FirstFound(all)
<1>1. Direct(module.name, ConfigFor(module)) = found
  BY DEF Direct
<1>2. PICK S : names \in Seq(S)
  BY ModuleName
<1>3. places \in [DOMAIN names -> SUBSET (1 .. Len(listed))]
  OBVIOUS
<1>4. \A t \in Quantized(quantFile) : \E i \in 1 .. Len(listed) : IsEntry(module, listed[i], t)
  BY ConfigListing
<1>a. \A j \in DOMAIN names : places[j] = {i \in 1 .. Len(listed) : listed[i].key = names[j]}
  OBVIOUS
<1>b. ASSUME NEW j \in DOMAIN names PROVE all[j] = FirstAt(listed, places[j])
  <2>1. all[j] = FirstListed(listed, LAMBDA k : k = names[j])
    OBVIOUS
  <2> DEFINE at == {i \in 1 .. Len(listed) : listed[i].key = names[j]}
  <2>2. at \in SUBSET Nat /\ 0 \notin at
    BY ConfigListing
  <2>3. at # {} => Min(at) # 0
    <3> HIDE DEF at
    <3> QED
      BY <2>2, MinOf
  <2>4. places[j] = at
    OBVIOUS
  <2> HIDE DEF all, places, names, listed
  <2>5. FirstListed(listed, LAMBDA k : k = names[j]) = FirstAt(listed, at)
    BY <2>3 DEF FirstListed, SelectInSeq, FirstAt
  <2> QED
    BY <2>1, <2>4, <2>5 DEF FirstListed, SelectInSeq
<1> DEFINE A == {all[j] : j \in DOMAIN all}
<1>c. DOMAIN all = DOMAIN names /\ all \in Seq(A)
  <2>1. DOMAIN all = DOMAIN names /\ DOMAIN all = 1 .. Len(names) /\ all = [j \in DOMAIN all |-> all[j]]
    BY <1>2
  <2> HIDE DEF all
  <2> QED
    BY <1>2, <2>1
<1> HIDE DEF names, places, listed, all, A
<1>5. \/ found = "none" /\ \A j \in DOMAIN names : places[j] = {}
      \/ /\ found # "none"
         /\ \E j \in DOMAIN names : \E i \in places[j] : \E t \in Quantized(quantFile) :
              IsEntry(module, listed[i], t) /\ found = quantFile.storage[t]
  BY <1>2, <1>3, <1>b, <1>c, LookupFacts, SMTT(60) DEF listed
<1> HIDE DEF found
<1>6. CASE found = "none" /\ \A j \in DOMAIN names : places[j] = {}
  <2>1. \A t \in Quantized(quantFile) : KeyFor(module, t) \notin Range(names)
    BY <1>a, <1>4, <1>6 DEF IsEntry, Range
  <2> QED
    BY <2>1, <1>1, <1>6 DEF names
<1>7. CASE /\ found # "none"
           /\ \E j \in DOMAIN names : \E i \in places[j] : \E t \in Quantized(quantFile) :
                IsEntry(module, listed[i], t) /\ found = quantFile.storage[t]
  <2>1. \E t \in Quantized(quantFile) :
          KeyFor(module, t) \in Range(names) /\ found = quantFile.storage[t]
    BY <1>a, <1>7 DEF IsEntry, Range
  <2> QED
    BY <2>1, <1>1, <1>7 DEF names
<1> QED
  BY <1>5, <1>6, <1>7

LEMMA ChildrenFacts ==
  ASSUME NEW module, module.name \in Seq(Range(module.name)), Mixed
  PROVE  LET found == Children(module.name, ConfigFor(module))
             names == Range(Candidates(module.name))
         IN  \/ found = "none" /\ \A t \in Quantized(quantFile) : \A c \in names : ~IsStrictPrefix(c, KeyFor(module, t))
             \/ /\ found # "none"
                /\ \E t \in Quantized(quantFile) :
                     (\E c \in names : IsStrictPrefix(c, KeyFor(module, t))) /\ found = quantFile.storage[t]
<1> DEFINE listed == ConfigFor(module).listed
           names == Candidates(module.name)
           places == [j \in DOMAIN names |-> {i \in 1 .. Len(listed) : IsStrictPrefix(names[j], listed[i].key)}]
           all == [j \in DOMAIN names |-> FirstListed(listed, LAMBDA k : IsStrictPrefix(names[j], k))]
           found == FirstFound(all)
<1>1. Children(module.name, ConfigFor(module)) = found
  BY DEF Children
<1>2. PICK S : names \in Seq(S)
  BY ModuleName
<1>3. places \in [DOMAIN names -> SUBSET (1 .. Len(listed))]
  OBVIOUS
<1>4. \A t \in Quantized(quantFile) : \E i \in 1 .. Len(listed) : IsEntry(module, listed[i], t)
  BY ConfigListing
<1>a. \A j \in DOMAIN names : places[j] = {i \in 1 .. Len(listed) : IsStrictPrefix(names[j], listed[i].key)}
  OBVIOUS
<1>b. ASSUME NEW j \in DOMAIN names PROVE all[j] = FirstAt(listed, places[j])
  <2>1. all[j] = FirstListed(listed, LAMBDA k : IsStrictPrefix(names[j], k))
    OBVIOUS
  <2> DEFINE at == {i \in 1 .. Len(listed) : IsStrictPrefix(names[j], listed[i].key)}
  <2>2. at \in SUBSET Nat /\ 0 \notin at
    BY ConfigListing
  <2>3. at # {} => Min(at) # 0
    <3> HIDE DEF at
    <3> QED
      BY <2>2, MinOf
  <2>4. places[j] = at
    OBVIOUS
  <2> HIDE DEF all, places, names, listed
  <2>5. FirstListed(listed, LAMBDA k : IsStrictPrefix(names[j], k)) = FirstAt(listed, at)
    BY <2>3 DEF FirstListed, SelectInSeq, FirstAt
  <2> QED
    BY <2>1, <2>4, <2>5 DEF FirstListed, SelectInSeq
<1> DEFINE A == {all[j] : j \in DOMAIN all}
<1>c. DOMAIN all = DOMAIN names /\ all \in Seq(A)
  <2>1. DOMAIN all = DOMAIN names /\ DOMAIN all = 1 .. Len(names) /\ all = [j \in DOMAIN all |-> all[j]]
    BY <1>2
  <2> HIDE DEF all
  <2> QED
    BY <1>2, <2>1
<1> HIDE DEF names, places, listed, all, A
<1>5. \/ found = "none" /\ \A j \in DOMAIN names : places[j] = {}
      \/ /\ found # "none"
         /\ \E j \in DOMAIN names : \E i \in places[j] : \E t \in Quantized(quantFile) :
              IsEntry(module, listed[i], t) /\ found = quantFile.storage[t]
  BY <1>2, <1>3, <1>b, <1>c, LookupFacts, SMTT(60) DEF listed
<1> HIDE DEF found
<1>6. CASE found = "none" /\ \A j \in DOMAIN names : places[j] = {}
  <2>1. \A t \in Quantized(quantFile) : \A c \in Range(names) : ~IsStrictPrefix(c, KeyFor(module, t))
    BY <1>a, <1>4, <1>6 DEF IsEntry, Range
  <2> QED
    BY <2>1, <1>1, <1>6 DEF names
<1>7. CASE /\ found # "none"
           /\ \E j \in DOMAIN names : \E i \in places[j] : \E t \in Quantized(quantFile) :
                IsEntry(module, listed[i], t) /\ found = quantFile.storage[t]
  <2>1. \E t \in Quantized(quantFile) :
          (\E c \in Range(names) : IsStrictPrefix(c, KeyFor(module, t))) /\ found = quantFile.storage[t]
    BY <1>a, <1>7 DEF IsEntry, Range
  <2> QED
    BY <2>1, <1>1, <1>7 DEF names
<1> QED
  BY <1>5, <1>6, <1>7

(* Only experts ask their neighbours. *)
LEMMA SiblingsFacts ==
  ASSUME NEW module, Mixed
  PROVE  LET found == Siblings(module.name, ConfigFor(module))
         IN  \/ found = "none"
             \/ Last(module.name) = "experts" /\ \E t \in Quantized(quantFile) : found = quantFile.storage[t]
<1> DEFINE listed == ConfigFor(module).listed
           parent == Parent(module.name)
           at == {i \in 1 .. Len(listed) : IsStrictPrefix(parent, listed[i].key)}
<1>1. CASE Last(module.name) # "experts"
  BY <1>1 DEF Siblings
<1>2. CASE Last(module.name) = "experts"
  <2>1. at \in SUBSET (1 .. Len(listed)) /\ at \in SUBSET Nat /\ 0 \notin at
    BY ConfigListing
  <2>2. at # {} => Min(at) # 0
    <3> HIDE DEF at
    <3> QED
      BY <2>1, MinOf
  <2>3. Siblings(module.name, ConfigFor(module)) = FirstListed(listed, LAMBDA k : IsStrictPrefix(parent, k))
    BY <1>2 DEF Siblings
  <2>4. IF at = {} THEN FirstAt(listed, at) = "none"
        ELSE \E t \in Quantized(quantFile) : FirstAt(listed, at) = quantFile.storage[t]
    <3> HIDE DEF at
    <3> QED
      BY <2>1, FirstAtFacts
  <2> HIDE DEF listed, parent
  <2>5. FirstListed(listed, LAMBDA k : IsStrictPrefix(parent, k)) = FirstAt(listed, at)
    BY <2>2 DEF FirstListed, SelectInSeq, FirstAt
  <2> DEFINE found == FirstListed(listed, LAMBDA k : IsStrictPrefix(parent, k))
  <2> HIDE DEF at, found
  <2> QED
    BY <1>2, <2>3, <2>4, <2>5 DEF found
<1> QED
  BY <1>1, <1>2

(* The formats of shards below a parent. *)
Below(module, parent) ==
  {t \in Quantized(quantFile) : \E s \in Shards(module.name) : KeyFor(module, t) = Append(parent, s)}

LEMMA ShardAlgosFacts ==
  ASSUME NEW module, Mixed, NEW parent
  PROVE  ShardAlgos(ConfigFor(module).listed, parent, Shards(module.name))
           = {quantFile.storage[t] : t \in Below(module, parent)}
<1> DEFINE listed == ConfigFor(module).listed
           algos == ShardAlgos(listed, parent, Shards(module.name))
<1>1. /\ DOMAIN listed = 1 .. Len(listed)
      /\ \A i \in 1 .. Len(listed) : \E t \in Quantized(quantFile) : IsEntry(module, listed[i], t)
      /\ \A t \in Quantized(quantFile) : \E i \in 1 .. Len(listed) : IsEntry(module, listed[i], t)
  BY ConfigListing
<1> HIDE DEF listed
<1>2. \A a : a \in algos <=> \E i \in 1 .. Len(listed) :
        a = listed[i].algo /\ \E s \in Shards(module.name) : listed[i].key = Append(parent, s)
  BY <1>1 DEF ShardAlgos, Range
<1> HIDE DEF algos
<1>3. ASSUME NEW a \in algos PROVE a \in {quantFile.storage[t] : t \in Below(module, parent)}
  BY <1>1, <1>2 DEF IsEntry, Below
<1>4. ASSUME NEW t \in Below(module, parent) PROVE quantFile.storage[t] \in algos
  <2>1. PICK i \in 1 .. Len(listed) : IsEntry(module, listed[i], t)
    BY <1>1 DEF Below
  <2>2. listed[i].algo \in algos
    BY <1>2, <2>1 DEF IsEntry, Below
  <2> QED
    BY <2>1, <2>2 DEF IsEntry
<1> QED
  BY <1>3, <1>4 DEF algos, listed

LEMMA AgreedFacts ==
  /\ Agreed({}) = "none"
  /\ \A a : Agreed({a}) = a
<1>1. Agreed({}) = "none"
  BY DEF Agreed
<1>2. ASSUME NEW a PROVE Agreed({a}) = a
  <2>1. Cardinality({a}) = 1
    BY FS_Singleton
  <2>2. {a} # {} /\ (CHOOSE b \in {a} : TRUE) = a
    OBVIOUS
  <2> QED
    BY <2>1, <2>2 DEF Agreed
<1> QED
  BY <1>1, <1>2

(* What the parts of the name find, in the order of the search. *)
LEMMA SearchOrder ==
  ASSUME NEW name, NEW c
  PROVE  LET x == Search(name, c)
         IN  \/ /\ Resolve(name, c) = "none"
                /\ \A j \in 1 .. 5 : x[j] = "none"
             \/ \E j \in 1 .. 5 : /\ x[j] # "none" /\ Resolve(name, c) = x[j]
                                  /\ \A k \in 1 .. (j - 1) : x[k] = "none"
<1> DEFINE x == Search(name, c)
           A == {Direct(name, c), Packed(name, c), Children(name, c), Siblings(name, c), Unpacked(name, c)}
<1>1. x \in Seq(A) /\ DOMAIN x = 1 .. 5
  BY DEF Search
<1> HIDE DEF x, A
<1> QED
  BY <1>1, FirstFoundFacts DEF Resolve, x

(* Formats are none of the words for other outcomes. *)
LEMMA StoredFormat ==
  ASSUME FileInv, NEW t \in Tensors
  PROVE  quantFile.storage[t] \in Uniform \cup {"none", "FP8_PB_WO"}
BY QuantAssumption DEF FileInv

(* A module that is not packed finds one of its own formats.               *)
LEMMA ResolvePlain ==
  ASSUME NamesKeepModulesApart, FileInv, Mixed, NEW i \in DOMAIN Modules, Shards(Modules[i].name) = {}
  PROVE  LET found == Resolve(Modules[i].name, ConfigFor(Modules[i]))
         IN  /\ found # "refused"
             /\ Algos(Modules[i]) # {} => found \in Algos(Modules[i])
             /\ Algos(Modules[i]) = {} /\ Modules[i].kind # "experts" => found = "none"
<1> DEFINE m == Modules[i]
           c == ConfigFor(m)
           x == Search(m.name, c)
           names == Range(Candidates(m.name))
<1>1. KindsFit(m) /\ KeysFit(m)
  BY DEF NamesKeepModulesApart, Apart
<1>2. \A t \in Tensors : (\E n \in names : IsPrefix(n, KeyFor(m, t))) <=> t \in Own(m)
  BY <1>1 DEF KeysFit
<1>3. \A n \in names : IsPrefix(n, n)
  <2>1. PICK W : Candidates(m.name) \in Seq(Seq(W)) /\ \A n \in Seq(W) : IsPrefix(n, n)
    BY ModuleName, ModuleTypes
  <2> QED
    BY <2>1 DEF Range
<1>4. ASSUME NEW t \in Quantized(quantFile)
      PROVE  t \in Own(m) <=> KeyFor(m, t) \in names \/ \E n \in names : IsStrictPrefix(n, KeyFor(m, t))
  <2>1. t \in Tensors
    BY DEF Quantized
  <2> QED
    BY <2>1, <1>2, <1>3 DEF IsStrictPrefix
<1>5. /\ x[1] = Direct(m.name, c) /\ x[2] = Packed(m.name, c) /\ x[3] = Children(m.name, c)
      /\ x[4] = Siblings(m.name, c) /\ x[5] = Unpacked(m.name, c)
  BY DEF Search
<1>6. \/ x[1] = "none" /\ \A t \in Quantized(quantFile) : KeyFor(m, t) \notin names
      \/ x[1] \in Algos(m)
  <2>1. m.name \in Seq(Range(m.name))
    BY ModuleTypes
  <2> HIDE DEF m, x, c
  <2>2. \/ Direct(m.name, ConfigFor(m)) = "none" /\ \A t \in Quantized(quantFile) : KeyFor(m, t) \notin names
        \/ \E t \in Quantized(quantFile) :
             KeyFor(m, t) \in names /\ Direct(m.name, ConfigFor(m)) = quantFile.storage[t]
    BY <2>1, DirectFacts
  <2> QED
    BY <2>2, <1>4, <1>5 DEF Algos, c
<1>7. \/ x[3] = "none" /\ \A t \in Quantized(quantFile), n \in names : ~IsStrictPrefix(n, KeyFor(m, t))
      \/ x[3] \in Algos(m)
  <2>1. m.name \in Seq(Range(m.name))
    BY ModuleTypes
  <2> HIDE DEF m, x, c
  <2>2. \/ /\ Children(m.name, ConfigFor(m)) = "none"
           /\ \A t \in Quantized(quantFile), n \in names : ~IsStrictPrefix(n, KeyFor(m, t))
        \/ \E t \in Quantized(quantFile) :
             /\ \E n \in names : IsStrictPrefix(n, KeyFor(m, t))
             /\ Children(m.name, ConfigFor(m)) = quantFile.storage[t]
    BY <2>1, ChildrenFacts
  <2> QED
    BY <2>2, <1>4, <1>5 DEF Algos, c
<1>8. \A parent : ShardAlgos(c.listed, parent, Shards(m.name)) = {}
  BY ShardAlgosFacts DEF Below
<1>9. x[2] = "none"
  <2>1. UNION {ShardAlgos(c.listed, parent, Shards(m.name)) : parent \in Range(Candidates(Parent(m.name)))} = {}
    BY <1>8
  <2> HIDE DEF m, c, x
  <2> QED
    BY <2>1, <1>5, AgreedFacts DEF Packed
<1>10. x[5] = "none"
  <2> DEFINE found == [j \in DOMAIN Candidates(m.name) |->
                         Agreed(ShardAlgos(c.listed, Parent(Candidates(m.name)[j]), Shards(m.name)))]
  <2>1. \A j \in DOMAIN found : found[j] = "none"
    BY <1>8, AgreedFacts
  <2>2. found \in Seq({"none"})
    <3>1. PICK S : Candidates(m.name) \in Seq(S)
      BY ModuleName, ModuleTypes
    <3>2. DOMAIN found = 1 .. Len(Candidates(m.name)) /\ Len(Candidates(m.name)) \in Nat
      BY <3>1
    <3>3. found = [j \in DOMAIN found |-> found[j]]
      OBVIOUS
    <3> HIDE DEF found
    <3> QED
      BY <2>1, <3>2, <3>3
  <2>3. Unpacked(m.name, c) = FirstFound(found)
    BY DEF Unpacked
  <2> HIDE DEF found
  <2> QED
    BY <2>1, <2>2, <2>3, <1>5, FirstFoundFacts
<1>11. \/ x[4] = "none"
       \/ m.kind = "experts" /\ \E t \in Quantized(quantFile) : x[4] = quantFile.storage[t]
  BY <1>1, <1>5, SiblingsFacts DEF KindsFit
<1>12. \A t \in Quantized(quantFile) : quantFile.storage[t] \notin {"refused", "none"}
  BY StoredFormat DEF Quantized, Uniform
<1>13. "refused" \notin Algos(m) /\ "none" \notin Algos(m)
  BY <1>12 DEF Algos
<1> DEFINE found == Resolve(m.name, c)
<1>14. \/ found = "none" /\ \A j \in 1 .. 5 : x[j] = "none"
       \/ \E j \in 1 .. 5 : /\ x[j] # "none" /\ found = x[j]
                            /\ \A k \in 1 .. (j - 1) : x[k] = "none"
  BY SearchOrder
<1> HIDE DEF found, x, c
<1>15. CASE Algos(m) = {}
  <2>1. x[1] = "none" /\ x[3] = "none"
    BY <1>6, <1>7, <1>15
  <2>2. \A j \in 1 .. 5 : j # 4 => x[j] = "none"
    BY <2>1, <1>9, <1>10
  <2>3. found = "none" \/ found = x[4]
    BY <2>2, <1>14
  <2> QED
    BY <2>3, <1>11, <1>12, <1>15 DEF found, c
<1>16. CASE Algos(m) # {}
  <2>1. ~(x[1] = "none" /\ x[3] = "none")
    BY <1>4, <1>6, <1>7, <1>13, <1>16 DEF Algos
  <2>2. found = x[1] \/ found = x[3]
    BY <2>1, <1>9, <1>14
  <2>3. found # "none"
    BY <2>1, <1>14
  <2>4. found \in Algos(m)
    BY <2>2, <2>3, <1>6, <1>7
  <2> QED
    BY <2>4, <1>13, <1>16 DEF found, c
<1> QED
  BY <1>15, <1>16

(* A packed module finds what its shards agree on. *)
LEMMA ResolvePacked ==
  ASSUME NamesKeepModulesApart, FileInv, Mixed, NEW i \in DOMAIN Modules, Shards(Modules[i].name) # {}
  PROVE  Resolve(Modules[i].name, ConfigFor(Modules[i])) = Agreed(Algos(Modules[i]))
<1> DEFINE m == Modules[i]
           c == ConfigFor(m)
           x == Search(m.name, c)
           names == Candidates(m.name)
           uppers == Candidates(Parent(m.name))
           parents == {Parent(n) : n \in Range(names)} \cup Range(uppers)
           agreed == Agreed(Algos(m))
<1>1. KindsFit(m) /\ KeysFit(m)
  BY DEF NamesKeepModulesApart, Apart
<1>2. PICK W : /\ names \in Seq(Seq(W)) /\ uppers \in Seq(Seq(W))
  <2>1. PICK W : /\ m.name \in Seq(W) /\ names \in Seq(Seq(W))
                 /\ \A n \in Seq(W) : Candidates(n) \in Seq(Seq(W))
    BY ModuleName, ModuleTypes
  <2>2. Parent(m.name) \in Seq(W)
    <3>1. m.name # <<>>
      BY ModuleTypes
    <3> DEFINE name == m.name
    <3>2. name \in Seq(W) /\ name # <<>>
      BY <2>1, <3>1
    <3> HIDE DEF name
    <3>3. SubSeq(name, 1, Len(name) - 1) \in Seq(W)
      BY <3>2
    <3> QED
      BY <3>3 DEF Parent, Front, name
  <2> QED
    BY <2>1, <2>2
<1>3. \A n \in Seq(W) : Parent(n) \in Seq(W)
  <2> SUFFICES ASSUME NEW n \in Seq(W) PROVE SubSeq(n, 1, Len(n) - 1) \in Seq(W)
    BY DEF Parent, Front
  <2>1. CASE n = <<>>
    <3>1. SubSeq(n, 1, Len(n) - 1) = <<>>
      BY <2>1
    <3> QED
      BY <3>1
  <2>2. CASE n # <<>>
    BY <2>2
  <2> QED
    BY <2>1, <2>2
<1>4. parents \subseteq Seq(W)
  <2>1. Range(names) \subseteq Seq(W) /\ Range(uppers) \subseteq Seq(W)
    <3> HIDE DEF names, uppers
    <3> QED
      BY <1>2 DEF Range
  <2> HIDE DEF names, uppers
  <2> QED
    BY <2>1, <1>3
<1>5. PICK c0 \in Range(names) :
        \A t \in Own(m) : \E s \in Shards(m.name) : KeyFor(m, t) = Append(Parent(c0), s)
  BY <1>1 DEF KeysFit
<1>6. ASSUME NEW parent \in parents, NEW t \in Tensors \ Own(m), NEW s \in Shards(m.name)
      PROVE  KeyFor(m, t) # Append(parent, s)
  <2>1. parents = {Parent(n) : n \in Range(Candidates(m.name))} \cup Range(Candidates(Parent(m.name)))
    OBVIOUS
  <2> HIDE DEF parents
  <2> QED
    BY <1>1, <2>1 DEF KeysFit
<1> DEFINE own == Own(m) \cap Quantized(quantFile)
<1>7. ASSUME NEW parent \in parents PROVE Below(m, parent) = IF parent = Parent(c0) THEN own ELSE {}
  <2>1. Below(m, parent) \subseteq own
    BY <1>6 DEF Below, Quantized
  <2>2. parent = Parent(c0) => own \subseteq Below(m, parent)
    BY <1>5 DEF Below
  <2>3. ASSUME NEW t \in Below(m, parent) PROVE parent = Parent(c0)
    <3>1. PICK s : KeyFor(m, t) = Append(parent, s)
      BY DEF Below
    <3>2. PICK z : KeyFor(m, t) = Append(Parent(c0), z)
      BY <2>1, <1>5
    <3> DEFINE p == Parent(c0)
    <3>3. parent \in Seq(W) /\ p \in Seq(W)
      BY <1>4
    <3>4. Append(parent, s) = Append(p, z)
      BY <3>1, <3>2
    <3> HIDE DEF p, parents
    <3>5. parent = p
      <4>1. Len(Append(parent, s)) = Len(parent) + 1 /\ Len(Append(p, z)) = Len(p) + 1
        BY <3>3
      <4>2. Len(parent) = Len(p) /\ Len(p) \in Nat
        BY <3>3, <3>4, <4>1
      <4>3. \A j \in 1 .. Len(p) : parent[j] = Append(parent, s)[j] /\ p[j] = Append(p, z)[j]
        BY <3>3, <4>2
      <4> QED
        BY <3>3, <3>4, <4>2, <4>3
    <3> QED
      BY <3>5 DEF p
  <2> QED
    BY <2>1, <2>2, <2>3
<1>8. ASSUME NEW parent \in parents
      PROVE  ShardAlgos(c.listed, parent, Shards(m.name)) = IF parent = Parent(c0) THEN Algos(m) ELSE {}
  <2>1. ShardAlgos(c.listed, parent, Shards(m.name)) = {quantFile.storage[t] : t \in Below(m, parent)}
    BY ShardAlgosFacts
  <2> HIDE DEF parents
  <2> QED
    BY <2>1, <1>7 DEF Algos
<1>9. /\ x[1] = Direct(m.name, c) /\ x[2] = Packed(m.name, c) /\ x[3] = Children(m.name, c)
      /\ x[4] = Siblings(m.name, c) /\ x[5] = Unpacked(m.name, c)
  BY DEF Search
<1>10. x[1] = "none" /\ x[3] = "none"
  <2>1. \A t \in Quantized(quantFile), n \in Range(names) :
          ~IsPrefix(n, KeyFor(m, t)) /\ KeyFor(m, t) # n /\ ~IsStrictPrefix(n, KeyFor(m, t))
    <3>1. \A t \in Tensors, n \in Range(names) : ~IsPrefix(n, KeyFor(m, t))
      BY <1>1 DEF KeysFit
    <3>2. \A n \in Range(names) : IsPrefix(n, n)
      <4>1. Range(names) \subseteq Seq(W)
        <5> HIDE DEF names
        <5> QED
          BY <1>2 DEF Range
      <4> QED
        BY <4>1 DEF IsPrefix
    <3> QED
      BY <3>1, <3>2 DEF IsStrictPrefix, Quantized
  <2>2. m.name \in Seq(Range(m.name))
    BY ModuleTypes
  <2> HIDE DEF m, x, c, names
  <2>3. Direct(m.name, ConfigFor(m)) = "none"
    BY <2>1, <2>2, DirectFacts DEF names
  <2>4. Children(m.name, ConfigFor(m)) = "none"
    BY <2>1, <2>2, ChildrenFacts DEF names
  <2> QED
    BY <2>3, <2>4, <1>9 DEF c
<1>11. x[4] = "none"
  <2>1. Last(m.name) # "experts"
    BY <1>1 DEF KindsFit
  <2> QED
    BY <2>1, <1>9, SiblingsFacts
<1>12. x[2] \in {"none", agreed}
  <2> DEFINE algos == UNION {ShardAlgos(c.listed, parent, Shards(m.name)) : parent \in Range(uppers)}
  <2>1. algos = {} \/ algos = Algos(m)
    <3>1. \A parent \in Range(uppers) : ShardAlgos(c.listed, parent, Shards(m.name)) \in {{}, Algos(m)}
      BY <1>8
    <3> QED
      BY <3>1
  <2>2. x[2] = IF c.packed THEN Agreed(algos) ELSE "none"
    BY <1>9 DEF Packed
  <2> HIDE DEF algos
  <2> QED
    BY <2>1, <2>2, AgreedFacts
<1> DEFINE found == [j \in DOMAIN names |->
                       Agreed(ShardAlgos(c.listed, Parent(names[j]), Shards(m.name)))]
<1>13. x[5] = FirstFound(found)
  BY <1>9 DEF Unpacked
<1>14. ASSUME NEW j \in DOMAIN names
       PROVE  found[j] = IF Parent(names[j]) = Parent(c0) THEN agreed ELSE "none"
  <2>1. Parent(names[j]) \in parents
    BY DEF Range
  <2>2. found[j] = Agreed(ShardAlgos(c.listed, Parent(names[j]), Shards(m.name)))
    OBVIOUS
  <2> HIDE DEF found, names, parents
  <2> QED
    BY <2>1, <2>2, <1>8, AgreedFacts
<1>15. found \in Seq({"none", agreed}) /\ DOMAIN found = DOMAIN names
  <2>1. DOMAIN found = 1 .. Len(names) /\ Len(names) \in Nat /\ DOMAIN found = DOMAIN names
    BY <1>2
  <2>2. found = [j \in DOMAIN found |-> found[j]]
    OBVIOUS
  <2> HIDE DEF found, names, agreed
  <2> QED
    BY <2>1, <2>2, <1>14
<1>16. \E j \in DOMAIN names : found[j] = agreed
  <2>1. PICK j \in DOMAIN names : names[j] = c0
    BY <1>5 DEF Range
  <2> QED
    BY <2>1, <1>14
<1>17. x[5] = agreed
  <2> HIDE DEF found, names, agreed, x
  <2>1. CASE agreed = "none"
    <3>1. \A j \in DOMAIN found : found[j] = "none"
      BY <2>1, <1>14, <1>15
    <3> QED
      BY <2>1, <3>1, <1>13, <1>15, FirstFoundFacts
  <2>2. CASE agreed # "none"
    <3>1. \E j \in DOMAIN found : found[j] # "none"
      BY <2>2, <1>15, <1>16
    <3>2. PICK j \in DOMAIN found : found[j] # "none" /\ FirstFound(found) = found[j]
      BY <3>1, <1>15, FirstFoundFacts
    <3> QED
      BY <3>2, <1>13, <1>14, <1>15
  <2> QED
    BY <2>1, <2>2
<1> DEFINE result == Resolve(m.name, c)
<1>18. \/ result = "none" /\ \A j \in 1 .. 5 : x[j] = "none"
       \/ \E j \in 1 .. 5 : x[j] # "none" /\ result = x[j]
  BY SearchOrder
<1> HIDE DEF result, x, agreed
<1>19. result = agreed
  BY <1>10, <1>11, <1>12, <1>17, <1>18
<1> QED
  BY <1>19 DEF result, agreed

-----------------------------------------------------------------------------
(* What excludes a module.                                                 *)

Exact(t) == [path |-> t, wild |-> "none"]
ExcludedTrees == {p \in quantFile.excludes : p \in TreePatterns}

(* ModelOpt's list: trees that hold no quantized tensor, and the names of  *)
(* the other tensors that are not quantized.                               *)
LEMMA ListOfExcluded ==
  ASSUME FileInv
  PROVE  /\ \A p \in quantFile.excludes :
              p \in ExcludedTrees \/ \E t \in Tensors : p = Exact(t) /\ quantFile.storage[t] = "none"
         /\ \A p \in ExcludedTrees : \A t \in Tensors : Matches(t, p) => quantFile.storage[t] = "none"
         /\ \A t \in Tensors : quantFile.storage[t] = "none" =>
              (Exact(t) \in quantFile.excludes <=> \A p \in ExcludedTrees : ~Matches(t, p))
         /\ \A p \in ExcludedTrees : \A tree \in Trees :
              LET inner == [path |-> tree, wild |-> p.wild]
              IN  (\A u \in Tensors : Matches(u, inner) => Matches(u, p)) => inner \in ExcludedTrees
<1> DEFINE storage == quantFile.storage
<1>1. PICK wild \in {"none", "*", ".*"} : quantFile.excludes = Excludes(storage, wild)
  BY DEF FileInv
<1> DEFINE trees == {[path |-> t, wild |-> wild] : t \in IF wild = "none" THEN {} ELSE Trees}
           usable == {p \in trees : \A t \in Tensors : Matches(t, p) => storage[t] = "none"}
           names == {t \in {u \in Tensors : storage[u] = "none"} : \A p \in usable : ~Matches(t, p)}
<1>2. quantFile.excludes = usable \cup {Exact(t) : t \in names}
  <2>1. {[path |-> t, wild |-> "none"] :
           t \in {t \in Tensors : storage[t] = "none" /\ \A p \in usable : ~Matches(t, p)}}
          = {Exact(t) : t \in names}
    BY DEF Exact
  <2> QED
    BY <1>1, <2>1 DEF Excludes
<1>3. usable \subseteq TreePatterns
  <2>1. ASSUME NEW t \in Trees, wild # "none" PROVE [path |-> t, wild |-> wild] \in TreePatterns
    BY <2>1 DEF TreePatterns
  <2> QED
    BY <2>1
<1>4. \A t : Exact(t) \notin TreePatterns
  BY DEF Exact, TreePatterns
<1>5. ExcludedTrees = usable
  BY <1>2, <1>3, <1>4 DEF ExcludedTrees
<1>6. \A t : Exact(t) \in quantFile.excludes <=> t \in names
  <2>1. \A t, u : Exact(t) = Exact(u) => t = u
    BY DEF Exact
  <2>2. \A t : Exact(t) \notin usable
    BY <1>3, <1>4
  <2> HIDE DEF usable, names
  <2> QED
    BY <1>2, <2>1, <2>2
<1>7. ASSUME NEW p \in usable, NEW tree \in Trees,
             \A u \in Tensors : Matches(u, [path |-> tree, wild |-> p.wild]) => Matches(u, p)
      PROVE  [path |-> tree, wild |-> p.wild] \in usable
  <2>1. p.wild = wild /\ wild # "none"
    OBVIOUS
  <2>2. \A u \in Tensors : Matches(u, [path |-> tree, wild |-> wild]) => storage[u] = "none"
    BY <1>7, <2>1
  <2> QED
    BY <2>1, <2>2
<1>8. \A p \in usable : \A t \in Tensors : Matches(t, p) => storage[t] = "none"
  OBVIOUS
<1>9. \A t \in Tensors : storage[t] = "none" => (t \in names <=> \A p \in usable : ~Matches(t, p))
  OBVIOUS
<1>10. \A t \in names : t \in Tensors /\ storage[t] = "none"
  OBVIOUS
<1> HIDE DEF usable, names, storage
<1> QED
  BY <1>2, <1>5, <1>6, <1>7, <1>8, <1>9, <1>10 DEF storage

(* The excluded patterns of a module's configuration. *)
LEMMA ConfigExcludes ==
  ASSUME NEW module
  PROVE  LET c == ConfigFor(module)
         IN  /\ \A q : q \in c.excludes <=> \E p \in quantFile.excludes : q \in PatternsFor(module, p)
             /\ c.algo = quantFile.algo /\ c.packed = quantFile.packed
             /\ c.group = Parsed(quantFile).group
<1>1. CASE module.draft
  BY <1>1, ForDraftFields DEF ConfigFor, PatternsFor
<1>2. CASE ~module.draft
  BY <1>2, ForTargetFields DEF ConfigFor, PatternsFor
<1> QED
  BY <1>1, <1>2

LEMMA PatternsForExact ==
  ASSUME NEW module, NEW t
  PROVE  PatternsFor(module, Exact(t)) = {Exact(NameFor(module, t))}
<1>1. Split(Exact(t)) = {Exact(t)}
  BY DEF Split, Exact
<1>2. CASE module.draft
  BY <1>2 DEF PatternsFor, NameFor, Exact
<1>3. CASE ~module.draft
  <2>1. PatternsFor(module, Exact(t)) = {[q EXCEPT !.path = Mapped(q.path, q.wild = ".*")] : q \in {Exact(t)}}
    BY <1>1, <1>3 DEF PatternsFor
  <2>2. Mapped(Exact(t).path, Exact(t).wild = ".*") = Mapped(t, FALSE)
    <3>1. Exact(t).path = t /\ (Exact(t).wild = ".*") = FALSE
      BY DEF Exact
    <3> DEFINE b == Exact(t).wild = ".*"
    <3>2. b = FALSE
      BY <3>1
    <3> HIDE DEF b
    <3>3. Mapped(Exact(t).path, b) = Mapped(t, FALSE)
      BY <3>1, <3>2
    <3> QED
      BY <3>3 DEF b
  <2>3. [Exact(t) EXCEPT !.path = Mapped(Exact(t).path, Exact(t).wild = ".*")] = Exact(Mapped(t, FALSE))
    <3> DEFINE d == Mapped(Exact(t).path, Exact(t).wild = ".*") e == Mapped(t, FALSE)
    <3>1. d = e
      BY <2>2
    <3> HIDE DEF d, e
    <3>2. [Exact(t) EXCEPT !.path = d] = Exact(e)
      BY <3>1 DEF Exact
    <3> QED
      BY <3>2 DEF d, e
  <2> QED
    BY <2>1, <2>3, <1>3 DEF NameFor
<1> QED
  BY <1>2, <1>3

(* A pattern of the configuration hits the module. *)
HitBy(module) == \E q \in ConfigFor(module).excludes : Hit(module, q)

LEMMA HitByOwn ==
  ASSUME NamesKeepModulesApart, FileInv, NEW i \in DOMAIN Modules, HitBy(Modules[i])
  PROVE  /\ \E t \in Own(Modules[i]) : quantFile.storage[t] = "none"
         /\ Shards(Modules[i].name) # {} => \A t \in Own(Modules[i]) : quantFile.storage[t] = "none"
<1> DEFINE m == Modules[i]
<1>1. KindsFit(m) /\ NamesFit(m) /\ TreesFit(m) /\ Own(m) \subseteq Tensors
  BY ModuleTypes DEF NamesKeepModulesApart, Apart
<1>2. PICK p \in quantFile.excludes : \E q \in PatternsFor(m, p) : Hit(m, q)
  BY ConfigExcludes DEF HitBy
<1>3. CASE p \in ExcludedTrees
  <2>1. p \in TreePatterns
    BY <1>3 DEF ExcludedTrees
  <2>2. \A t \in Own(m) : Matches(t, p)
    BY <1>1, <1>2, <2>1 DEF TreesFit
  <2>3. \A t \in Own(m) : quantFile.storage[t] = "none"
    BY <1>1, <1>3, <2>2, ListOfExcluded
  <2> QED
    BY <2>3, ModuleTypes
<1>4. CASE \E t \in Tensors : p = Exact(t) /\ quantFile.storage[t] = "none"
  <2>1. PICK t \in Tensors : p = Exact(t) /\ quantFile.storage[t] = "none"
    BY <1>4
  <2>2. Hit(m, Exact(NameFor(m, t)))
    BY <1>2, <2>1, PatternsForExact
  <2>3. t \in Own(m) /\ Shards(m.name) = {}
    BY <1>1, <2>2 DEF NamesFit, Exact
  <2> QED
    BY <2>1, <2>3
<1> QED
  BY <1>3, <1>4, ListOfExcluded

LEMMA OwnHits ==
  ASSUME NamesKeepModulesApart, FileInv, NEW i \in DOMAIN Modules, NEW t \in Own(Modules[i]), quantFile.storage[t] = "none",
         Shards(Modules[i].name) = {} \/ \E p \in ExcludedTrees : Matches(t, p)
  PROVE  HitBy(Modules[i])
<1> DEFINE m == Modules[i]
<1>1. NamesFit(m) /\ TreesFit(m) /\ Own(m) \subseteq Tensors /\ t \in Tensors
  BY ModuleTypes DEF NamesKeepModulesApart, Apart
<1>2. CASE \E p \in ExcludedTrees : Matches(t, p)
  <2>1. PICK p \in ExcludedTrees : Matches(t, p)
    BY <1>2
  <2>2. p \in TreePatterns
    BY DEF ExcludedTrees
  <2>3. PICK tree \in Trees :
          /\ \A u \in Tensors : Matches(u, [path |-> tree, wild |-> p.wild]) => Matches(u, p)
          /\ \E q \in PatternsFor(m, [path |-> tree, wild |-> p.wild]) : Hit(m, q)
    BY <1>1, <2>1, <2>2 DEF TreesFit
  <2>4. [path |-> tree, wild |-> p.wild] \in ExcludedTrees
    BY <2>3, ListOfExcluded
  <2> QED
    BY <2>3, <2>4, ConfigExcludes DEF HitBy, ExcludedTrees
<1>3. CASE ~(\E p \in ExcludedTrees : Matches(t, p))
  <2>1. Exact(t) \in quantFile.excludes /\ Shards(m.name) = {}
    BY <1>1, <1>3, ListOfExcluded
  <2>2. Hit(m, Exact(NameFor(m, t)))
    BY <1>1, <2>1 DEF NamesFit, Exact
  <2> QED
    BY <2>1, <2>2, ConfigExcludes, PatternsForExact DEF HitBy
<1> QED
  BY <1>2, <1>3

(* Shards that are excluded by their names. *)
SkippedShards(module) ==
  {s \in Shards(module.name) :
     \E p \in ConfigFor(module).excludes : p.wild = "none" /\ p.path = Append(Parent(module.name), s)}

LEMMA ShardSkipped ==
  ASSUME NamesKeepModulesApart, FileInv, NEW i \in DOMAIN Modules, NEW s \in Shards(Modules[i].name)
  PROVE  s \in SkippedShards(Modules[i]) <=>
           \E t \in Own(Modules[i]) : /\ NameFor(Modules[i], t) = Append(Parent(Modules[i].name), s)
                                      /\ quantFile.storage[t] = "none"
                                      /\ \A p \in ExcludedTrees : ~Matches(t, p)
<1> DEFINE m == Modules[i]
           shard == Append(Parent(m.name), s)
<1>1. NamesFit(m) /\ TreesFit(m) /\ Own(m) \subseteq Tensors
  BY ModuleTypes DEF NamesKeepModulesApart, Apart
<1>2. ASSUME s \in SkippedShards(m)
      PROVE  \E t \in Own(m) : /\ NameFor(m, t) = shard /\ quantFile.storage[t] = "none"
                               /\ \A p \in ExcludedTrees : ~Matches(t, p)
  <2>1. PICK q \in ConfigFor(m).excludes : q.wild = "none" /\ q.path = shard
    BY <1>2 DEF SkippedShards
  <2>2. PICK p \in quantFile.excludes : q \in PatternsFor(m, p)
    BY ConfigExcludes
  <2>3. p \notin ExcludedTrees
    BY <1>1, <2>1, <2>2 DEF TreesFit, ExcludedTrees
  <2>4. PICK t \in Tensors : p = Exact(t) /\ quantFile.storage[t] = "none"
    BY <2>3, ListOfExcluded
  <2>5. NameFor(m, t) = shard
    BY <2>1, <2>2, <2>4, PatternsForExact DEF Exact
  <2>6. t \in Own(m)
    BY <1>1, <2>5 DEF NamesFit
  <2> QED
    BY <2>4, <2>5, <2>6, ListOfExcluded
<1>3. ASSUME NEW t \in Own(m), NameFor(m, t) = shard, quantFile.storage[t] = "none",
             \A p \in ExcludedTrees : ~Matches(t, p)
      PROVE  s \in SkippedShards(m)
  <2>1. Exact(t) \in quantFile.excludes
    BY <1>1, <1>3, ListOfExcluded
  <2>2. Exact(shard) \in ConfigFor(m).excludes
    BY <1>3, <2>1, ConfigExcludes, PatternsForExact
  <2> QED
    BY <2>2 DEF SkippedShards, Exact
<1> QED
  BY <1>2, <1>3


(* Whether a module is excluded, by what hits it and its shards. *)
LEMMA ExcludedByHit ==
  ASSUME NamesKeepModulesApart, NEW i \in DOMAIN Modules,
         ~quantFile.packed \/ Shards(Modules[i].name) = {} \/ SkippedShards(Modules[i]) = {}
  PROVE  Excluded(Modules[i], ConfigFor(Modules[i])) = IF HitBy(Modules[i]) THEN "yes" ELSE "no"
<1> DEFINE m == Modules[i]
           c == ConfigFor(m)
           byName(name) == \E p \in c.excludes : p.wild = "none" /\ p.path = name
           other == \E p \in c.excludes : (p.wild = "none" /\ Within(p.path, m.name)) \/ Matches(m.name, p)
           experts == m.kind = "experts" /\ \E p \in c.excludes : Within(m.name, p.path)
<1>1. c.packed = quantFile.packed /\ (Shards(m.name) # {} => m.kind # "experts")
  BY ConfigExcludes DEF NamesKeepModulesApart, Apart, KindsFit
<1>2. HitBy(m) <=> other \/ experts
  BY DEF HitBy, Hit
<1>3. byName(m.name) => other
  BY DEF Matches
<1>4. Skipped(m, c) = "no" \/ (Skipped(m, c) = "yes" /\ HitBy(m))
  <2>1. CASE c.packed /\ Shards(m.name) # {}
    <3>1. {s \in Shards(m.name) : byName(Append(Parent(m.name), s))} = {}
      BY <2>1, <1>1 DEF SkippedShards
    <3> HIDE DEF m, c, byName
    <3> QED
      BY <2>1, <3>1, <1>1 DEF Skipped, byName
  <2>2. CASE ~(c.packed /\ Shards(m.name) # {}) /\ m.kind = "experts"
    <3> HIDE DEF m, c
    <3>1. Skipped(m, c) = IF \E p \in c.excludes : Within(m.name, p.path) THEN "yes" ELSE "no"
      BY <2>2 DEF Skipped
    <3> QED
      BY <3>1, <2>2, <1>2
  <2>3. CASE ~(c.packed /\ Shards(m.name) # {}) /\ m.kind # "experts"
    <3> HIDE DEF m, c
    <3>1. Skipped(m, c) = IF byName(m.name) THEN "yes" ELSE "no"
      BY <2>3 DEF Skipped
    <3> QED
      BY <3>1, <1>2, <1>3
  <2> QED
    BY <2>1, <2>2, <2>3
<1>5. experts => Skipped(m, c) = "yes"
  <2> SUFFICES ASSUME experts PROVE Skipped(m, c) = "yes"
    OBVIOUS
  <2>1. Shards(m.name) = {} /\ m.kind = "experts" /\ \E p \in c.excludes : Within(m.name, p.path)
    BY <1>1
  <2> HIDE DEF m, c
  <2> QED
    BY <2>1 DEF Skipped
<1>6. c.excludes = {} => ~HitBy(m)
  BY DEF HitBy
<1> DEFINE hit == HitBy(m) ex == Excluded(m, c)
<1> HIDE DEF m, c, experts
<1>7. CASE c.excludes = {}
  BY <1>4, <1>6, <1>7 DEF Excluded, m, c
<1>8. CASE c.excludes # {} /\ Skipped(m, c) # "no"
  BY <1>4, <1>8 DEF Excluded, m, c
<1>9. CASE c.excludes # {} /\ Skipped(m, c) = "no"
  <2>1. ex = IF other THEN "yes" ELSE "no"
    BY <1>9 DEF Excluded
  <2>2. hit <=> other
    BY <1>2, <1>5, <1>9
  <2> QED
    BY <2>1, <2>2 DEF m, c
<1> QED
  BY <1>7, <1>8, <1>9 DEF m, c

LEMMA ExcludedByShards ==
  ASSUME NamesKeepModulesApart, NEW i \in DOMAIN Modules,
         quantFile.packed, Shards(Modules[i].name) # {}, SkippedShards(Modules[i]) # {}
  PROVE  Excluded(Modules[i], ConfigFor(Modules[i]))
           = IF SkippedShards(Modules[i]) = Shards(Modules[i].name) THEN "yes" ELSE "refused"
<1> DEFINE m == Modules[i]
           c == ConfigFor(m)
<1>1. c.packed = quantFile.packed /\ m.kind # "experts"
  BY ConfigExcludes DEF NamesKeepModulesApart, Apart, KindsFit
<1>2. c.excludes # {}
  BY DEF SkippedShards
<1> HIDE DEF m, c
<1>3. Skipped(m, c) = IF SkippedShards(m) = Shards(m.name) THEN "yes" ELSE "refused"
  <2> DEFINE skipped == {s \in Shards(m.name) :
                           \E p \in c.excludes : p.wild = "none" /\ p.path = Append(Parent(m.name), s)}
  <2>1. skipped = SkippedShards(m)
    BY DEF SkippedShards, c
  <2>2. Skipped(m, c) = IF skipped = {} THEN "no" ELSE IF skipped = Shards(m.name) THEN "yes" ELSE "refused"
    BY <1>1 DEF Skipped, m
  <2> HIDE DEF skipped
  <2> QED
    BY <2>1, <2>2 DEF m
<1> QED
  BY <1>2, <1>3 DEF Excluded, m, c

(* Unquantized tensors of a module. *)
Bare(module) == {t \in Own(module) : quantFile.storage[t] = "none"}

LEMMA ExcludedFacts ==
  ASSUME NamesKeepModulesApart, FileInv, NEW i \in DOMAIN Modules
  PROVE  LET m  == Modules[i]
             ex == Excluded(m, ConfigFor(m))
         IN  /\ ex \in {"yes", "no", "refused"}
             /\ ex = "yes" => Bare(m) # {} /\ (Shards(m.name) # {} => Bare(m) = Own(m))
             /\ Bare(m) = Own(m) /\ (quantFile.packed \/ Shards(m.name) = {}) => ex = "yes"
             /\ ex = "refused" => Shards(m.name) # {} /\ Bare(m) \notin {{}, Own(m)}
             /\ quantFile.packed /\ Shards(m.name) # {} /\ Bare(m) \notin {{}, Own(m)} => ex = "refused"
<1> DEFINE m == Modules[i]
           ex == Excluded(m, ConfigFor(m))
           K == SkippedShards(m)
<1>1. Own(m) # {} /\ NamesFit(m) /\ TreesFit(m) /\ Own(m) \subseteq Tensors
  BY ModuleTypes DEF NamesKeepModulesApart, Apart
<1>2. HitBy(m) => Bare(m) # {} /\ (Shards(m.name) # {} => Bare(m) = Own(m))
  BY HitByOwn DEF Bare
<1>3. ASSUME NEW t \in Bare(m), Shards(m.name) = {} \/ \E p \in ExcludedTrees : Matches(t, p)
      PROVE  HitBy(m)
  BY <1>3, OwnHits DEF Bare
<1>4. CASE Shards(m.name) = {}
  <2>1. ex = IF HitBy(m) THEN "yes" ELSE "no"
    BY <1>4, ExcludedByHit
  <2>2. HitBy(m) <=> Bare(m) # {}
    BY <1>2, <1>3, <1>4
  <2> HIDE DEF m, ex
  <2> QED
    BY <2>1, <2>2, <1>1, <1>4 DEF m, ex
<1>5. CASE Shards(m.name) # {} /\ ~quantFile.packed
  <2>1. ex = IF HitBy(m) THEN "yes" ELSE "no"
    BY <1>5, ExcludedByHit
  <2> HIDE DEF m, ex
  <2> QED
    BY <2>1, <1>1, <1>2, <1>5 DEF m, ex
<1>6. CASE Shards(m.name) # {} /\ quantFile.packed
  <2>1. K = {} => ex = IF HitBy(m) THEN "yes" ELSE "no"
    BY ExcludedByHit
  <2>2. K # {} => ex = IF K = Shards(m.name) THEN "yes" ELSE "refused"
    BY <1>6, ExcludedByShards
  <2> DEFINE shard(s) == Append(Parent(m.name), s)
             Free(t) == \A p \in ExcludedTrees : ~Matches(t, p)
  <2>3. \A s \in Shards(m.name) : s \in K <=> \E t \in Bare(m) : NameFor(m, t) = shard(s) /\ Free(t)
    BY ShardSkipped DEF Bare
  <2>4. /\ \A s \in Shards(m.name) : \E t \in Own(m) : NameFor(m, t) = shard(s)
        /\ \A t \in Own(m) : \E s \in Shards(m.name) : NameFor(m, t) = shard(s)
        /\ \A t, u \in Own(m) : NameFor(m, t) = NameFor(m, u) => t = u
    <3> DEFINE names == {shard(s) : s \in Shards(m.name)}
    <3>1. /\ \A t \in Tensors : NameFor(m, t) \in names <=> t \in Own(m)
          /\ \A name \in names : \E t \in Own(m) : NameFor(m, t) = name
          /\ \A t, u \in Own(m) : NameFor(m, t) = NameFor(m, u) => t = u
      BY <1>1, <1>6 DEF NamesFit
    <3>2. \A s \in Shards(m.name) : shard(s) \in names
      OBVIOUS
    <3>3. \A name \in names : \E s \in Shards(m.name) : name = shard(s)
      OBVIOUS
    <3> HIDE DEF names, shard, m
    <3> QED
      BY <3>1, <3>2, <3>3, <1>1 DEF m
  <2>5. ASSUME NEW t \in Own(m), ~Free(t) PROVE Bare(m) = Own(m) /\ HitBy(m) /\ K = {}
    <3>1. PICK p \in ExcludedTrees : Matches(t, p)
      BY <2>5
    <3>2. \A u \in Own(m) : Matches(u, p)
      BY <1>1, <3>1 DEF TreesFit, ExcludedTrees
    <3>3. Bare(m) = Own(m)
      BY <1>1, <3>1, <3>2, ListOfExcluded DEF Bare
    <3>4. HitBy(m)
      BY <3>1, <3>3, <1>3
    <3>5. \A u \in Own(m) : ~Free(u)
      BY <3>1, <3>2
    <3>6. K \subseteq Shards(m.name)
      BY DEF SkippedShards
    <3> HIDE DEF m, K, Free
    <3> QED
      BY <3>3, <3>4, <3>5, <3>6, <2>3 DEF Bare
  <2>6. K \subseteq Shards(m.name)
    BY DEF SkippedShards
  <2>7. Bare(m) \subseteq Own(m)
    BY DEF Bare
  <2> HIDE DEF m, K, ex, Free, shard
  <2>8. CASE Bare(m) = {}
    <3>1. K = {} /\ ~HitBy(m)
      BY <2>3, <2>6, <2>8, <1>2
    <3> QED
      BY <3>1, <2>1, <2>8, <1>1 DEF m, ex
  <2>9. CASE Bare(m) = Own(m)
    <3>1. CASE \E t \in Own(m) : ~Free(t)
      <4>1. ex = "yes"
        BY <3>1, <2>1, <2>5
      <4> QED
        BY <4>1, <2>9, <1>1 DEF m, ex
    <3>2. CASE \A t \in Own(m) : Free(t)
      <4>1. K = Shards(m.name)
        BY <3>2, <2>3, <2>4, <2>6, <2>9
      <4>2. ex = "yes"
        BY <4>1, <2>2, <1>6
      <4> QED
        BY <4>2, <2>9, <1>1 DEF m, ex
    <3> QED
      BY <3>1, <3>2
  <2>10. CASE Bare(m) # {} /\ Bare(m) # Own(m)
    <3>1. \A t \in Own(m) : Free(t)
      BY <2>5, <2>10
    <3>2. PICK t \in Bare(m), u \in Own(m) \ Bare(m) : TRUE
      BY <2>7, <2>10
    <3>3. K # {}
      BY <3>1, <3>2, <2>3, <2>4, <2>7
    <3>4. K # Shards(m.name)
      BY <3>2, <2>3, <2>4, <2>7
    <3>5. ex = "refused"
      BY <3>3, <3>4, <2>2
    <3> QED
      BY <3>5, <2>10, <1>6 DEF m, ex
  <2> QED
    BY <2>8, <2>9, <2>10
<1> QED
  BY <1>4, <1>5, <1>6

-----------------------------------------------------------------------------
(* The methods of modules.                                                 *)

(* The group size of the configuration is the checkpoint's, if it is used. *)
LEMMA GroupFacts ==
  ASSUME FileInv, NEW module
  PROVE  /\ ~Mixed => ConfigFor(module).group = quantFile.group
         /\ Mixed /\ (\E t \in Tensors : quantFile.storage[t] \in NvFp4) =>
              ConfigFor(module).group = quantFile.group
<1> DEFINE listed == IF Mixed THEN QuantizedLayers(quantFile) ELSE <<>>
           first == SelectInSeq(listed, Grouped)
           group == CASE quantFile.top                -> quantFile.group
                      [] ~quantFile.top /\ first > 0 -> listed[first].group
                      [] OTHER                        -> 16
           at == {i \in 1 .. Len(listed) : Grouped(listed[i])}
<1>1. ConfigFor(module).group = Parsed(quantFile).group
  BY ConfigExcludes
<1>2. Parsed(quantFile).group = group
  BY DEF Parsed, Mixed
<1>3. CASE quantFile.top
  BY <1>1, <1>2, <1>3
<1>4. CASE ~quantFile.top /\ ~Mixed
  <2>1. at = {} /\ first = 0
    BY <1>4 DEF SelectInSeq
  <2>2. group = 16
    BY <1>4, <2>1
  <2>3. quantFile.group = 16
    BY <1>4 DEF FileInv, WellFormed, Mixed
  <2> QED
    BY <1>1, <1>2, <1>4, <2>2, <2>3
<1>5. CASE ~quantFile.top /\ Mixed /\ \E t \in Tensors : quantFile.storage[t] \in NvFp4
  <2> DEFINE E == {Entry(quantFile, t) : t \in Quantized(quantFile)}
  <2>1. listed \in Seq(E) /\ Range(listed) = E
    BY <1>5, ListingFacts
  <2>2. PICK t \in Tensors : quantFile.storage[t] \in NvFp4
    BY <1>5
  <2>3. Entry(quantFile, t) \in E /\ Grouped(Entry(quantFile, t))
    BY <2>2 DEF Quantized, Grouped, Entry, NvFp4
  <2>4. \A e \in E : Grouped(e) => e.group = quantFile.group
    BY DEF Grouped, Entry, NvFp4
  <2>5. first = IF at = {} THEN 0 ELSE Min(at)
    BY DEF SelectInSeq
  <2> HIDE DEF listed, E, first
  <2>6. at \in SUBSET Nat /\ 0 \notin at
    OBVIOUS
  <2>7. DOMAIN listed = 1 .. Len(listed) /\ Len(listed) \in Nat /\ \A i \in 1 .. Len(listed) : listed[i] \in E
    BY <2>1
  <2>8. at # {}
    BY <2>1, <2>3, <2>7 DEF Range
  <2>9. Min(at) \in at
    <3> HIDE DEF at
    <3> QED
      BY <2>6, <2>8, MinOf
  <2>10. first > 0 /\ first \in 1 .. Len(listed) /\ Grouped(listed[first])
    BY <2>5, <2>7, <2>8, <2>9
  <2>11. group = listed[first].group
    BY <1>5, <2>10
  <2> QED
    BY <1>1, <1>2, <2>4, <2>7, <2>10, <2>11
<1> QED
  BY <1>3, <1>4, <1>5

LEMMA MethodGroups ==
  ASSUME FileInv, NEW i \in DOMAIN Modules, NEW form \in Uniform \cup {"none", "FP8_PB_WO"},
         ~Mixed \/ \E t \in Tensors : quantFile.storage[t] = form
  PROVE  Method(form, ConfigFor(Modules[i]).group) = Method(form, quantFile.group)
<1>1. CASE form \in NvFp4
  BY <1>1, GroupFacts
<1>2. CASE form \notin NvFp4
  BY <1>2 DEF Method
<1> QED
  BY <1>1, <1>2

(* The formats of a module's tensors. *)
FormatsOf(module) == {quantFile.storage[t] : t \in Own(module)}

LEMMA FormatsFacts ==
  ASSUME FileInv, NEW i \in DOMAIN Modules
  PROVE  LET m == Modules[i]
         IN  /\ FormatsOf(m) # {} /\ FormatsOf(m) \subseteq Uniform \cup {"none", "FP8_PB_WO"}
             /\ Algos(m) = FormatsOf(m) \ {"none"}
             /\ "none" \in FormatsOf(m) <=> Bare(m) # {}
             /\ Bare(m) = Own(m) <=> Algos(m) = {}
             /\ \A form \in FormatsOf(m) : \E t \in Tensors : quantFile.storage[t] = form
             /\ IsFiniteSet(FormatsOf(m))
             /\ Stored(m) = IF m.kind = "ple" /\ quantFile.ple # "none" THEN {quantFile.ple} ELSE FormatsOf(m)
<1> DEFINE m == Modules[i]
<1>1. Own(m) # {} /\ Own(m) \subseteq Tensors /\ m.tensors \in Seq(Own(m)) /\ Own(m) = Range(m.tensors)
  BY ModuleTypes DEF Own
<1>2. \A t \in Own(m) : quantFile.storage[t] \in Uniform \cup {"none", "FP8_PB_WO"}
  BY <1>1, StoredFormat
<1>4. IsFiniteSet(FormatsOf(m))
  <2> DEFINE s == m.tensors
             f == [j \in 1 .. Len(s) |-> quantFile.storage[s[j]]]
  <2>1. s \in Seq(Own(m)) /\ Own(m) = Range(s)
    BY <1>1
  <2> HIDE DEF s, m
  <2>2. Len(s) \in Nat /\ DOMAIN s = 1 .. Len(s)
    BY <2>1
  <2>3. IsFiniteSet(1 .. Len(s))
    BY <2>2, FS_Interval
  <2>4. f \in Surjection(1 .. Len(s), FormatsOf(m))
    BY <2>1, <2>2 DEF Range, FormatsOf, Surjection
  <2> HIDE DEF f
  <2> QED
    BY <2>3, <2>4, FS_Surjection
<1>5. {quantFile.storage[m.tensors[j]] : j \in DOMAIN m.tensors} = FormatsOf(m)
  BY DEF FormatsOf, Own, Range
<1>6. Stored(m) = IF m.kind = "ple" /\ quantFile.ple # "none" THEN {quantFile.ple} ELSE FormatsOf(m)
  BY <1>5 DEF Stored
<1> HIDE DEF m
<1>7. Algos(m) = FormatsOf(m) \ {"none"}
  BY <1>1 DEF Algos, FormatsOf, Quantized
<1>8. ("none" \in FormatsOf(m) <=> Bare(m) # {}) /\ (Bare(m) = Own(m) <=> Algos(m) = {})
  BY <1>1, <1>7 DEF Bare, FormatsOf
<1>9. FormatsOf(m) # {} /\ FormatsOf(m) \subseteq Uniform \cup {"none", "FP8_PB_WO"}
  BY <1>1, <1>2 DEF FormatsOf
<1>10. \A form \in FormatsOf(m) : \E t \in Tensors : quantFile.storage[t] = form
  BY <1>1 DEF FormatsOf
<1> QED
  BY <1>4, <1>6, <1>7, <1>8, <1>9, <1>10 DEF m

LEMMA SetsOfOne ==
  ASSUME NEW S, IsFiniteSet(S)
  PROVE  /\ (\A a, b \in S : a = b) => Cardinality(S) <= 1
         /\ Cardinality(S) \in Nat
         /\ (\E a, b \in S : a # b) => Cardinality(S) > 1
         /\ Cardinality(S) = 1 => \E a : S = {a}
<1>1. Cardinality(S) \in Nat
  BY FS_CardinalityType
<1>2. Cardinality(S) = 0 <=> S = {}
  BY FS_EmptySet
<1>3. Cardinality(S) = 1 <=> \E a : S = {a}
  BY FS_Singleton
<1>4. (\A a, b \in S : a = b) => S = {} \/ \E a : S = {a}
  OBVIOUS
<1>5. (\E a, b \in S : a # b) => ~(S = {} \/ \E a : S = {a})
  OBVIOUS
<1> QED
  BY <1>1, <1>2, <1>3, <1>4, <1>5

(* What a module of a mixed checkpoint finds. *)
LEMMA ResolveFacts ==
  ASSUME NamesKeepModulesApart, FileInv, Mixed, NEW i \in DOMAIN Modules
  PROVE  LET m     == Modules[i]
             found == Resolve(m.name, ConfigFor(m))
         IN  /\ \A a : Algos(m) = {a} => found = a
             /\ Algos(m) = {} /\ m.kind # "experts" => found = "none"
             /\ Shards(m.name) = {} /\ Algos(m) # {} => found \in Algos(m)
             /\ found = "refused" => Shards(m.name) # {} /\ \E a, b \in Algos(m) : a # b
             /\ Shards(m.name) # {} /\ (\E a, b \in Algos(m) : a # b) => found = "refused"
<1> DEFINE m == Modules[i]
           found == Resolve(m.name, ConfigFor(m))
<1>1. IsFiniteSet(Algos(m)) /\ "refused" \notin Algos(m)
  BY FormatsFacts, FS_Subset DEF Uniform
<1>2. CASE Shards(m.name) = {}
  <2>1. /\ found # "refused" /\ (Algos(m) # {} => found \in Algos(m))
        /\ Algos(m) = {} /\ m.kind # "experts" => found = "none"
    BY <1>2, ResolvePlain
  <2> HIDE DEF found, m
  <2> QED
    BY <2>1, <1>2 DEF found, m
<1>3. CASE Shards(m.name) # {}
  <2>1. found = Agreed(Algos(m))
    BY <1>3, ResolvePacked
  <2>2. \A a : Algos(m) = {a} => found = a
    BY <2>1, AgreedFacts
  <2>3. Algos(m) = {} => found = "none"
    BY <2>1, AgreedFacts
  <2>4. ASSUME NEW a \in Algos(m), NEW b \in Algos(m), a # b PROVE found = "refused"
    <3>1. Cardinality(Algos(m)) # 1
      BY <1>1, <2>4, SetsOfOne
    <3> QED
      BY <2>1, <3>1, <2>4 DEF Agreed
  <2>5. Algos(m) = {} \/ (\E a : Algos(m) = {a}) \/ \E a, b \in Algos(m) : a # b
    <3> DEFINE A == Algos(m)
    <3> HIDE DEF A
    <3>1. A = {} \/ (\E a : A = {a}) \/ \E a, b \in A : a # b
      OBVIOUS
    <3> QED
      BY <3>1 DEF A
  <2>6. found = "refused" => \E a, b \in Algos(m) : a # b
    BY <1>1, <2>2, <2>3, <2>5
  <2> HIDE DEF found, m
  <2> QED
    BY <1>3, <2>2, <2>3, <2>4, <2>6 DEF found, m
<1> QED
  BY <1>2, <1>3

(* get_quant_method of a linear layer or of experts. *)
LEMMA LayerMethod ==
  ASSUME NEW i \in DOMAIN Modules, Modules[i].kind # "ple"
  PROVE  LET m  == Modules[i]
             c  == ConfigFor(m)
             ex == Excluded(m, c)
         IN  /\ ex = "refused" => MethodFor(m) = Refused
             /\ ex = "yes" => MethodFor(m) = Unquantized
             /\ ex = "no" /\ Mixed => MethodFor(m) = MixedMethod(m, Resolve(m.name, c), c.group)
             /\ ex = "no" /\ ~Mixed => MethodFor(m) = Method(quantFile.algo, c.group)
<1> DEFINE m == Modules[i]
           c == ConfigFor(m)
<1>1. c.algo = quantFile.algo
  BY ConfigExcludes
<1>2. m.kind # "ple" /\ MethodFor(m) = MethodOf(m, c, quantFile.ple)
  BY DEF MethodFor
<1> HIDE DEF m, c
<1> QED
  BY <1>1, <1>2 DEF MethodOf, Mixed, m, c

(* A method fits the tensors of its module. *)
Fits(module) ==
  \A form \in Stored(module) :
    Stored(module) = {form} /\ Served(module, form) =>
      IF module.kind = "ple"
      THEN MethodFor(module).format = (IF form \in NvFp4 THEN "NVFP4" ELSE form)
      ELSE MethodFor(module) = Method(form, quantFile.group)

LEMMA LayersFit ==
  ASSUME NamesKeepModulesApart, FileInv, NEW i \in DOMAIN Modules, Modules[i].kind # "ple", MethodFor(Modules[i]) # Refused
  PROVE  Fits(Modules[i])
<1> DEFINE m  == Modules[i]
           c  == ConfigFor(m)
           ex == Excluded(m, c)
           found == Resolve(m.name, c)
           X  == Uniform \cup {"none", "FP8_PB_WO"}
<1> SUFFICES ASSUME NEW form \in FormatsOf(m), FormatsOf(m) = {form}, Served(m, form)
             PROVE  MethodFor(m) = Method(form, quantFile.group)
  BY FormatsFacts DEF Fits
<1>1. /\ ex \in {"yes", "no"}
      /\ ex = "yes" => form = "none"
      /\ form = "none" /\ (quantFile.packed \/ Shards(m.name) = {}) => ex = "yes"
  <2>1. ex # "refused"
    BY LayerMethod
  <2>2. (Bare(m) # {} <=> form = "none") /\ (Bare(m) = Own(m) <=> Algos(m) = {})
        /\ (Algos(m) = {} <=> form = "none")
    BY FormatsFacts
  <2> HIDE DEF m, ex
  <2> QED
    BY <2>1, <2>2, ExcludedFacts DEF m, ex
<1>2. form \in X /\ \E t \in Tensors : quantFile.storage[t] = form
  BY FormatsFacts
<1>3. Method(form, c.group) = Method(form, quantFile.group)
  BY <1>2, MethodGroups
<1>4. Method("none", quantFile.group) = Unquantized
  BY DEF Method, Unquantized, NvFp4
<1>5. CASE ex = "yes"
  BY <1>1, <1>4, <1>5, LayerMethod
<1>6. CASE ex = "no" /\ ~Mixed
  <2>1. quantFile.packed /\ Range(quantFile.storage) \ {"none"} \subseteq {quantFile.algo}
    BY <1>6 DEF FileInv, WellFormed, Mixed
  <2>2. form # "none"
    BY <2>1, <1>1, <1>6
  <2>3. form \in Range(quantFile.storage)
    BY <1>2 DEF Range, FileInv
  <2>4. form = quantFile.algo
    BY <2>1, <2>2, <2>3
  <2> QED
    BY <2>4, <1>3, <1>6, LayerMethod
<1>7. CASE ex = "no" /\ Mixed
  <2>1. MethodFor(m) = MixedMethod(m, found, c.group)
    BY <1>7, LayerMethod
  <2>2. Algos(m) = {form} \ {"none"}
    BY FormatsFacts
  <2>3. CASE form = "none"
    <3>1. Shards(m.name) # {}
      BY <2>3, <1>1, <1>7
    <3>2. m.kind # "experts" /\ Algos(m) = {}
      BY <3>1, <2>2, <2>3 DEF NamesKeepModulesApart, Apart, KindsFit
    <3>3. found = "none"
      BY <3>2, <1>7, ResolveFacts
    <3> HIDE DEF m, found, c
    <3>4. MixedMethod(m, "none", c.group) = Unquantized
      BY DEF MixedMethod, Uniform
    <3> QED
      BY <3>3, <3>4, <2>1, <2>3, <1>4 DEF m
  <2>4. CASE form # "none"
    <3>1. Algos(m) = {form}
      BY <2>2, <2>4
    <3>2. found = form
      BY <3>1, <1>7, ResolveFacts
    <3>3. form \in Uniform \/ (form = "FP8_PB_WO" /\ m.kind = "experts")
      BY <2>4, <1>2 DEF Served
    <3> HIDE DEF m, found, c
    <3>4. MixedMethod(m, form, c.group) = Method(form, c.group)
      BY <3>3 DEF MixedMethod, Uniform
    <3> QED
      BY <3>2, <3>4, <2>1, <1>3 DEF m, c
  <2> QED
    BY <2>3, <2>4
<1> QED
  BY <1>1, <1>5, <1>6, <1>7

(* _get_ple_embedding_quant_method *)
LEMMA TableMethod ==
  ASSUME NamesKeepModulesApart, FileInv, NEW i \in DOMAIN Modules, Modules[i].kind = "ple"
  PROVE  LET m == Modules[i]
         IN  \/ quantFile.ple # "none" /\ MethodFor(m) = Method(quantFile.ple, 16)
             \/ /\ quantFile.ple = "none" /\ Mixed /\ Algos(m) = {} /\ MethodFor(m) = Unquantized
             \/ /\ quantFile.ple = "none" /\ Mixed
                /\ \E algo \in Algos(m) :
                     /\ \A form : Algos(m) = {form} => algo = form
                     /\ MethodFor(m) = IF algo \in {"FP8", "NVFP4"} THEN Method(algo, 16) ELSE Refused
             \/ /\ quantFile.ple = "none" /\ quantFile.algo \in NvFp4
                /\ MethodFor(m) = IF Bare(m) # {} THEN Unquantized ELSE Method("NVFP4", 16)
             \/ /\ quantFile.ple = "none" /\ ~Mixed /\ quantFile.algo \notin NvFp4
                /\ Algos(m) = {} /\ MethodFor(m) = Unquantized
<1> DEFINE m == Modules[i]
           c == ConfigFor(m)
           found == Resolve(m.name, c)
           ex == Excluded(m, c)
<1>1. m.kind = "ple" /\ Shards(m.name) = {} /\ c.algo = quantFile.algo
  BY ConfigExcludes DEF NamesKeepModulesApart, Apart, KindsFit
<1>2. MethodFor(m) = PleMethod(m, c, quantFile.ple)
  <2>1. MethodFor(m) = MethodOf(m, c, quantFile.ple)
    BY DEF MethodFor
  <2> HIDE DEF m, c
  <2> QED
    BY <1>1, <2>1 DEF MethodOf
<1> DEFINE got == MethodFor(m) dtype == quantFile.ple
<1>3. dtype # "none" => got = Method(dtype, 16)
  <2> HIDE DEF m, c, dtype, got
  <2> QED
    BY <1>2 DEF PleMethod, got, dtype
<1>4. dtype = "none" /\ Mixed =>
        got = IF found = "none" THEN Unquantized
              ELSE IF found \in {"FP8", "NVFP4"} THEN Method(found, 16) ELSE Refused
  <2> HIDE DEF m, c, got
  <2> QED
    BY <1>1, <1>2 DEF PleMethod, got, Mixed, NvFp4
<1>5. dtype = "none" /\ quantFile.algo \in NvFp4 =>
        got = IF ex = "yes" THEN Unquantized ELSE Method("NVFP4", 16)
  <2> HIDE DEF m, c, got
  <2> QED
    BY <1>1, <1>2 DEF PleMethod, got, NvFp4
<1>6. dtype = "none" /\ ~Mixed /\ quantFile.algo \notin NvFp4 => got = Unquantized
  <2> HIDE DEF m, c, got
  <2> QED
    BY <1>1, <1>2 DEF PleMethod, got, Mixed
<1>7. CASE dtype # "none"
  BY <1>3, <1>7
<1>8. CASE dtype = "none" /\ Mixed
  <2>1. /\ Algos(m) = {} => found = "none"
        /\ Algos(m) # {} => found \in Algos(m)
        /\ \A form : Algos(m) = {form} => found = form
    BY <1>1, <1>8, ResolveFacts
  <2>2. "none" \notin Algos(m)
    BY FormatsFacts
  <2> HIDE DEF m, found, got
  <2>3. CASE Algos(m) = {}
    BY <2>1, <2>3, <1>4, <1>8 DEF m, got
  <2>4. CASE Algos(m) # {}
    <3>1. found \in Algos(m) /\ found # "none"
      BY <2>1, <2>2, <2>4
    <3> QED
      BY <2>1, <3>1, <1>4, <1>8 DEF m, got
  <2> QED
    BY <2>3, <2>4
<1>9. CASE dtype = "none" /\ quantFile.algo \in NvFp4
  <2>1. ex = "yes" <=> Bare(m) # {}
    <3>1. CASE Bare(m) = {}
      BY <3>1, ExcludedFacts
    <3>2. CASE Bare(m) # {}
      <4>1. ex = IF HitBy(m) THEN "yes" ELSE "no"
        BY <1>1, ExcludedByHit
      <4>2. HitBy(m)
        BY <3>2, <1>1, OwnHits DEF Bare
      <4> QED
        BY <4>1, <4>2, <3>2
    <3> QED
      BY <3>1, <3>2
  <2> HIDE DEF m, ex, got
  <2> QED
    BY <2>1, <1>5, <1>9 DEF m, got
<1>10. CASE dtype = "none" /\ ~Mixed /\ quantFile.algo \notin NvFp4
  <2>1. \A t \in PleTensors : quantFile.storage[t] = "none"
    BY <1>10 DEF FileInv, WellFormed, Mixed
  <2>2. Own(m) \subseteq PleTensors
    BY <1>1 DEF PleTensors, Own
  <2>3. Algos(m) = {}
    BY <2>1, <2>2 DEF Algos, Quantized
  <2> QED
    BY <2>3, <1>6, <1>10
<1> QED
  BY <1>7, <1>8, <1>9, <1>10

LEMMA TablesFit ==
  ASSUME NamesKeepModulesApart, FileInv, NEW i \in DOMAIN Modules, Modules[i].kind = "ple", MethodFor(Modules[i]) # Refused
  PROVE  Fits(Modules[i])
<1> DEFINE m == Modules[i]
           got == MethodFor(m)
<1> SUFFICES ASSUME NEW form \in Stored(m), Stored(m) = {form}
             PROVE  got.format = IF form \in NvFp4 THEN "NVFP4" ELSE form
  BY DEF Fits
<1>1. \A a, g : Method(a, g).format = a
  BY DEF Method
<1>2. Unquantized.format = "none"
  BY DEF Method, Unquantized
<1>3. CASE quantFile.ple # "none"
  <2>1. got = Method(quantFile.ple, 16)
    BY <1>3, TableMethod
  <2>2. form = quantFile.ple /\ form \in {"FP8", "NVFP4"}
    BY <1>3, FormatsFacts DEF FileInv
  <2> QED
    BY <2>1, <2>2, <1>1 DEF NvFp4
<1>4. CASE quantFile.ple = "none"
  <2>1. FormatsOf(m) = {form} /\ Algos(m) = {form} \ {"none"} /\ (Bare(m) # {} <=> form = "none")
    BY <1>4, FormatsFacts
  <2>2. form # "none" => Algos(m) = {form}
    BY <2>1
  <2>3. CASE Mixed /\ Algos(m) = {}
    <3>1. got = Unquantized
      BY <2>3, <1>4, TableMethod DEF Mixed, NvFp4
    <3>2. form = "none"
      BY <2>2, <2>3
    <3> QED
      BY <3>1, <3>2, <1>2 DEF NvFp4
  <2>4. CASE Mixed /\ Algos(m) # {}
    <3>1. Algos(m) = {form} /\ got # Refused
      BY <2>1, <2>4
    <3>2. form \in {"FP8", "NVFP4"} /\ got = Method(form, 16)
      BY <2>4, <3>1, <1>4, TableMethod DEF Mixed, NvFp4
    <3> QED
      BY <3>2, <1>1 DEF NvFp4
  <2>5. CASE quantFile.algo \in NvFp4
    <3>1. got = IF Bare(m) # {} THEN Unquantized ELSE Method("NVFP4", 16)
      BY <2>5, <1>4, TableMethod DEF Mixed, NvFp4
    <3>2. form # "none" => form = quantFile.algo
      <4>1. Range(quantFile.storage) \ {"none"} \subseteq {quantFile.algo}
        BY <2>5 DEF FileInv, WellFormed, NvFp4
      <4>2. form \in Range(quantFile.storage)
        <5>1. \E t \in Tensors : quantFile.storage[t] = form
          BY <2>1, FormatsFacts
        <5> QED
          BY <5>1 DEF Range, FileInv
      <4> QED
        BY <4>1, <4>2
    <3>3. CASE form = "none"
      BY <3>1, <3>3, <2>1, <1>2 DEF NvFp4
    <3>4. CASE form # "none"
      BY <3>1, <3>2, <3>4, <2>1, <2>5, <1>1
    <3> QED
      BY <3>3, <3>4
  <2>6. CASE ~Mixed /\ quantFile.algo \notin NvFp4
    <3>1. Algos(m) = {} /\ got = Unquantized
      BY <2>6, <1>4, TableMethod
    <3> QED
      BY <3>1, <2>2, <1>2 DEF NvFp4
  <2> QED
    BY <2>3, <2>4, <2>5, <2>6
<1> QED
  BY <1>3, <1>4

(* A packed layer whose shards disagree is refused. *)
LEMMA DisagreeingRefused ==
  ASSUME NamesKeepModulesApart, FileInv, NEW i \in DOMAIN Modules, Shards(Modules[i].name) # {}, MethodFor(Modules[i]) # Refused
  PROVE  Cardinality(Stored(Modules[i]) \ IF quantFile.packed THEN {} ELSE {"none"}) <= 1
<1> DEFINE m == Modules[i]
           c == ConfigFor(m)
           ex == Excluded(m, c)
           S == Stored(m) \ IF quantFile.packed THEN {} ELSE {"none"}
<1>1. m.kind = "linear"
  BY DEF NamesKeepModulesApart, Apart, KindsFit
<1>2. Stored(m) = FormatsOf(m) /\ IsFiniteSet(Stored(m))
  BY <1>1, FormatsFacts
<1>3. IsFiniteSet(S)
  BY <1>2, FS_Subset
<1>4. ASSUME NEW a \in S, NEW b \in S, a # b PROVE FALSE
  <2>1. ex # "refused"
    BY <1>1, LayerMethod
  <2>2. ("none" \in FormatsOf(m) <=> Bare(m) # {}) /\ Algos(m) = FormatsOf(m) \ {"none"}
        /\ (Bare(m) = Own(m) <=> Algos(m) = {})
    BY FormatsFacts
  <2>3. Algos(m) # {}
    BY <1>2, <1>4, <2>2
  <2>4. ex = "no"
    BY <2>1, <2>2, <2>3, ExcludedFacts
  <2>5. a # "none" /\ b # "none"
    <3>1. CASE quantFile.packed
      <4>1. Bare(m) = {}
        BY <3>1, <2>1, <2>2, <2>3, ExcludedFacts
      <4> QED
        BY <4>1, <2>2, <1>2
    <3>2. CASE ~quantFile.packed
      BY <3>2
    <3> QED
      BY <3>1, <3>2
  <2>6. a \in Algos(m) /\ b \in Algos(m)
    BY <2>2, <2>5, <1>2
  <2>7. CASE Mixed
    <3>1. Resolve(m.name, c) = "refused"
      BY <2>6, <2>7, <1>4, ResolveFacts
    <3>2. MethodFor(m) = MixedMethod(m, Resolve(m.name, c), c.group)
      BY <2>4, <2>7, <1>1, LayerMethod
    <3> HIDE DEF m, c
    <3>3. MethodFor(m) = Refused
      BY <3>1, <3>2 DEF MixedMethod, Uniform
    <3> QED
      BY <3>3 DEF m
  <2>8. CASE ~Mixed
    <3>1. Range(quantFile.storage) \ {"none"} \subseteq {quantFile.algo}
      BY <2>8 DEF FileInv, WellFormed, Mixed
    <3>2. a \in Range(quantFile.storage) /\ b \in Range(quantFile.storage)
      <4>1. \A form \in FormatsOf(m) : \E t \in Tensors : quantFile.storage[t] = form
        BY FormatsFacts
      <4>2. DOMAIN quantFile.storage = Tensors
        BY DEF FileInv
      <4> QED
        BY <4>1, <4>2, <2>2, <2>6 DEF Range
    <3> QED
      BY <3>1, <3>2, <2>5, <1>4
  <2> QED
    BY <2>7, <2>8
<1> QED
  BY <1>3, <1>4, SetsOfOne

(* Nothing else is refused but tables without an embedding method. *)
LEMMA DeservedRefusal ==
  ASSUME NamesKeepModulesApart, FileInv, NEW i \in DOMAIN Modules, MethodFor(Modules[i]) = Refused
  PROVE  \/ Shards(Modules[i].name) # {} /\ Cardinality(Stored(Modules[i])) > 1
         \/ Modules[i].kind = "ple" /\ ~(Stored(Modules[i]) \subseteq {"none", "FP8", "NVFP4"})
<1> DEFINE m == Modules[i]
           c == ConfigFor(m)
           ex == Excluded(m, c)
           found == Resolve(m.name, c)
<1>1. \A a, g : a # "refused" => Method(a, g) # Refused
  BY DEF Method, Refused
<1>2. CASE m.kind = "ple"
  <2>1. Unquantized # Refused /\ Method("NVFP4", 16) # Refused
    BY <1>1 DEF Unquantized
  <2>2. quantFile.ple = "none" /\ \E algo \in Algos(m) : algo \notin {"FP8", "NVFP4"}
    <3>1. quantFile.ple = "none"
      <4>1. quantFile.ple # "refused"
        BY DEF FileInv
      <4>2. Method(quantFile.ple, 16) # Refused
        BY <4>1, <1>1
      <4> QED
        BY <4>2, <1>2, TableMethod
    <3>2. \A algo \in {"FP8", "NVFP4"} : Method(algo, 16) # Refused
      BY <1>1
    <3> QED
      BY <3>1, <3>2, <2>1, <1>2, TableMethod
  <2>3. Stored(m) = FormatsOf(m) /\ Algos(m) = FormatsOf(m) \ {"none"}
    BY <2>2, FormatsFacts
  <2> QED
    BY <2>2, <2>3, <1>2
<1>3. CASE m.kind # "ple"
  <2>1. Shards(m.name) # {} /\ \E a, b \in FormatsOf(m) : a # b
    <3>1. ("none" \in FormatsOf(m) <=> Bare(m) # {}) /\ Algos(m) = FormatsOf(m) \ {"none"}
          /\ (Bare(m) = Own(m) <=> Algos(m) = {})
      BY FormatsFacts
    <3>2. CASE ex = "refused"
      <4>1. Shards(m.name) # {} /\ Bare(m) \notin {{}, Own(m)}
        BY <3>2, ExcludedFacts
      <4> HIDE DEF m
      <4>2. "none" \in FormatsOf(m) /\ Algos(m) # {}
        BY <3>1, <4>1
      <4> QED
        BY <3>1, <4>1, <4>2
    <3>3. CASE ex = "yes"
      <4>1. MethodFor(m) = Unquantized
        BY <3>3, <1>3, LayerMethod
      <4> QED
        BY <4>1, <1>1 DEF Unquantized
    <3>4. CASE ex = "no" /\ ~Mixed
      <4>1. MethodFor(m) = Method(quantFile.algo, c.group) /\ quantFile.algo # "refused"
        BY <3>4, <1>3, LayerMethod DEF FileInv, Uniform
      <4> QED
        BY <4>1, <1>1
    <3>5. CASE ex = "no" /\ Mixed
      <4>1. MethodFor(m) = MixedMethod(m, found, c.group)
        BY <3>5, <1>3, LayerMethod
      <4>2. found = "refused"
        <5> SUFFICES ASSUME found # "refused" PROVE FALSE
          OBVIOUS
        <5> HIDE DEF m, c, found
        <5>1. MethodFor(m) = Method(found, c.group) \/ MethodFor(m) = Unquantized
          BY <4>1 DEF MixedMethod
        <5> QED
          BY <5>1, <1>1 DEF Unquantized, m
      <4> QED
        BY <4>2, <3>1, <3>5, ResolveFacts
    <3> QED
      BY <3>2, <3>3, <3>4, <3>5, ExcludedFacts
  <2>2. Stored(m) = FormatsOf(m) /\ IsFiniteSet(Stored(m))
    BY <1>3, FormatsFacts
  <2> QED
    BY <2>1, <2>2, SetsOfOne
<1> QED
  BY <1>2, <1>3

-----------------------------------------------------------------------------
(* Configuring and building.                                               *)

LEMMA QuantInitInv == QuantInit => QuantIInv
<1> SUFFICES ASSUME QuantInit PROVE QuantIInv
  OBVIOUS
<1>1. PICK s \in Storages :
        /\ quantFile \in [storage : {s}, algo : {"MIXED_PRECISION"} \cup (Uniform \cap Range(s)),
                          excludes : {Excludes(s, w) : w \in {"none", "*", ".*"}},
                          backwards : BOOLEAN, top : BOOLEAN, group : Groups,
                          ple : {"none", "FP8", "NVFP4"}, packed : BOOLEAN]
        /\ WellFormed(quantFile)
  BY DEF QuantInit, QuantFiles
<1>2. s \in [Tensors -> Usual \cup Unusual]
  <2> DEFINE Odd == UNION {kSubset(k, Tensors) : k \in 0 .. MaxUnusual}
  <2>1. PICK usual \in Usual, odd \in UNION {[S -> Unusual] : S \in Odd} :
          s = [t \in Tensors |-> IF t \in DOMAIN odd THEN odd[t] ELSE usual]
    BY DEF Storages
  <2>2. \A t \in DOMAIN odd : odd[t] \in Unusual
    BY <2>1
  <2> QED
    BY <2>1, <2>2
<1>3. /\ quantFile.storage = s /\ quantFile.group \in Groups
      /\ quantFile.algo \in Uniform \cup {"MIXED_PRECISION"}
      /\ quantFile.ple \in {"none", "FP8", "NVFP4"}
      /\ quantFile.top \in BOOLEAN /\ quantFile.packed \in BOOLEAN /\ quantFile.backwards \in BOOLEAN
      /\ \E wild \in {"none", "*", ".*"} : quantFile.excludes = Excludes(s, wild)
  BY <1>1
<1>4. quantFile.group \in Nat
  BY <1>3, QuantAssumption
<1>5. FileInv
  BY <1>1, <1>2, <1>3, <1>4 DEF FileInv
<1>6. ConfigInv
  BY DEF QuantInit, ConfigInv
<1>7. MethodsInv
  <2>1. methods = <<>> /\ status = "file" /\ Len(Modules) \in Nat
    BY QuantAssumption DEF QuantInit
  <2> QED
    BY <2>1 DEF MethodsInv
<1> QED
  BY <1>5, <1>6, <1>7 DEF QuantIInv

(* A module is built with the configuration of its model. *)
LEMMA BuildWithOwn ==
  ASSUME QuantIInv, Building, NextModule.draft = (status = "draft")
  PROVE  /\ Len(methods) + 1 \in DOMAIN Modules
         /\ MethodOf(NextModule, config, quantFile.ple) = MethodFor(NextModule)
<1>1. Len(methods) + 1 \in DOMAIN Modules
  <2>1. Len(methods) \in Nat
    BY DEF QuantIInv, MethodsInv
  <2>2. DOMAIN Modules = 1 .. Len(Modules) /\ Len(Modules) \in Nat
    BY QuantAssumption
  <2> QED
    BY <2>1, <2>2 DEF Building
<1>2. NextModule.draft \in BOOLEAN
  BY <1>1, QuantAssumption DEF NextModule
<1>3. config = ConfigFor(NextModule)
  BY <1>2 DEF QuantIInv, ConfigInv, ConfigFor, Building
<1> QED
  BY <1>1, <1>3 DEF MethodFor

LEMMA QuantStep == QuantIInv /\ [QuantNext]_quantVars => QuantIInv'
<1> SUFFICES ASSUME QuantIInv, [QuantNext]_quantVars PROVE QuantIInv'
  OBVIOUS
<1>1. quantFile' = quantFile
  BY DEF QuantNext, Configure, ConfigureDraft, Build, Refuse, quantVars
<1>2. FileInv'
  BY <1>1 DEF FileInv, WellFormed, QuantIInv
<1>3. ASSUME NEW module PROVE MethodFor(module)' = MethodFor(module)
  BY <1>1 DEF MethodFor, ConfigFor
<1>4. CASE Configure
  <2>1. CASE quantFile.algo = "MIXED_PRECISION" /\ config.listed = <<>>
    <3>1. status' = "refused" /\ UNCHANGED <<config, methods>>
      BY <2>1, <1>4 DEF Configure, Refuse
    <3>2. ConfigInv'
      BY <3>1 DEF ConfigInv
    <3>3. MethodsInv'
      BY <2>1, <3>1, <1>1, <1>3 DEF QuantIInv, MethodsInv
    <3> QED
      BY <3>2, <3>3, <1>2 DEF QuantIInv
  <2>2. CASE ~(quantFile.algo = "MIXED_PRECISION" /\ config.listed = <<>>)
    <3>1. status' = "target" /\ config' = ForTarget(config) /\ methods' = methods /\ status = "file"
      BY <2>2, <1>4 DEF Configure
    <3>2. config' = ForTarget(Parsed(quantFile))
      BY <3>1 DEF QuantIInv, ConfigInv
    <3>3. ConfigInv'
      BY <3>1, <3>2, <1>1 DEF ConfigInv
    <3>4. MethodsInv'
      BY <3>1, <1>3 DEF QuantIInv, MethodsInv
    <3> QED
      BY <3>3, <3>4, <1>2 DEF QuantIInv
  <2> QED
    BY <2>1, <2>2
<1>5. CASE ConfigureDraft
  <2>1. status' = "draft" /\ config' = ForDraft(Parsed(quantFile)) /\ methods' = methods
    BY <1>5 DEF ConfigureDraft
  <2>2. ConfigInv'
    BY <2>1, <1>1 DEF ConfigInv
  <2>3. MethodsInv'
    BY <2>1, <1>3 DEF QuantIInv, MethodsInv
  <2> QED
    BY <2>2, <2>3, <1>2 DEF QuantIInv
<1>6. CASE Build
  <2>1. Building /\ NextModule.draft = (status = "draft")
    BY <1>6 DEF Build
  <2>2. Len(methods) + 1 \in DOMAIN Modules /\ NextModule = Modules[Len(methods) + 1]
        /\ MethodOf(NextModule, config, quantFile.ple) = MethodFor(NextModule)
    BY <2>1, BuildWithOwn DEF NextModule
  <2> DEFINE method == MethodFor(NextModule)
  <2>3. CASE method = Refused
    <3>1. status' = "refused" /\ UNCHANGED <<config, methods>>
      BY <2>2, <2>3, <1>6 DEF Build, Refuse
    <3>2. ConfigInv'
      BY <3>1 DEF ConfigInv
    <3>3. MethodFor(Modules[Len(methods) + 1])' = Refused
      BY <2>2, <2>3, <3>1, <1>3
    <3>4. MethodsInv'
      BY <2>2, <3>1, <3>3, <1>3 DEF QuantIInv, MethodsInv
    <3> QED
      BY <3>2, <3>4, <1>2 DEF QuantIInv
  <2>4. CASE method # Refused
    <3>1. methods' = Append(methods, method) /\ UNCHANGED <<config, status>>
      BY <2>2, <2>4, <1>6 DEF Build
    <3>2. ConfigInv'
      BY <3>1, <1>1 DEF QuantIInv, ConfigInv
    <3>3. status # "refused"
      BY <2>1 DEF Building
    <3>4. /\ methods \in Seq(Range(methods)) /\ Len(methods) < Len(Modules)
          /\ \A i \in DOMAIN methods : methods[i] = MethodFor(Modules[i]) /\ methods[i] # Refused
      BY <2>1 DEF QuantIInv, MethodsInv, Building
    <3>5. method = MethodFor(Modules[Len(methods) + 1])
      BY <2>2
    <3> HIDE DEF method
    <3>6. /\ Len(methods') = Len(methods) + 1 /\ DOMAIN methods' = 1 .. Len(methods) + 1
          /\ \A i \in 1 .. Len(methods) : methods'[i] = methods[i]
          /\ methods'[Len(methods) + 1] = method
          /\ Len(methods) \in Nat /\ DOMAIN methods = 1 .. Len(methods)
      <4> DEFINE S == Range(methods) \cup {method}
      <4>1. methods \in Seq(S) /\ method \in S
        BY <3>4
      <4> HIDE DEF S
      <4> QED
        BY <3>1, <4>1
    <3>7. methods' \in Seq(Range(methods'))
      <4>1. Range(methods') = Range(methods) \cup {method}
        BY <3>6 DEF Range
      <4>2. methods \in Seq(Range(methods) \cup {method})
        BY <3>4
      <4> DEFINE S == Range(methods) \cup {method}
      <4>3. method \in S /\ methods \in Seq(S)
        BY <4>2
      <4> HIDE DEF S
      <4>4. Append(methods, method) \in Seq(S)
        BY <4>3
      <4> QED
        BY <4>1, <4>4, <3>1 DEF S
    <3>8. \A i \in DOMAIN methods' : methods'[i] = MethodFor(Modules[i]) /\ methods'[i] # Refused
      BY <2>4, <3>4, <3>5, <3>6
    <3>9. MethodsInv'
      <4>1. Len(Modules) \in Nat
        BY QuantAssumption
      <4>2. Len(methods') <= Len(Modules)
        BY <3>4, <3>6, <4>1
      <4> QED
        BY <3>1, <3>3, <3>7, <3>8, <4>2, <1>3 DEF MethodsInv
    <3> QED
      BY <3>2, <3>9, <1>2 DEF QuantIInv
  <2> QED
    BY <2>3, <2>4
<1>7. CASE UNCHANGED quantVars
  <2>1. UNCHANGED <<config, methods, status>>
    BY <1>7 DEF quantVars
  <2>2. ConfigInv'
    BY <2>1, <1>1 DEF QuantIInv, ConfigInv
  <2>3. MethodsInv'
    BY <2>1, <1>1, <1>3 DEF QuantIInv, MethodsInv
  <2> QED
    BY <2>2, <2>3, <1>2 DEF QuantIInv
<1> QED
  BY <1>4, <1>5, <1>6, <1>7 DEF QuantNext

(* Every module built has the method that its configuration gives it, and  *)
(* none was built that the code refuses.                                   *)
THEOREM QuantInvariant == QuantSpec => []QuantIInv
<1>1. QuantInit => QuantIInv
  BY QuantInitInv
<1>2. QuantIInv /\ [QuantNext]_quantVars => QuantIInv'
  BY QuantStep
<1> QED
  BY <1>1, <1>2, PTL DEF QuantSpec

(* modelopt_patched.py, get_quant_method: a module all of whose tensors    *)
(* are stored in one format gets the method of that format.                *)
THEOREM MethodsFit ==
  ASSUME NamesKeepModulesApart
  PROVE  QuantSpec => []MethodsFitTheCheckpoint
<1>1. QuantIInv => MethodsFitTheCheckpoint
  <2> SUFFICES ASSUME QuantIInv, NEW i \in DOMAIN methods,
                      NEW form \in Stored(Modules[i]),
                      Stored(Modules[i]) = {form}, Served(Modules[i], form)
               PROVE  IF Modules[i].kind = "ple"
                      THEN methods[i].format = (IF form \in NvFp4 THEN "NVFP4" ELSE form)
                      ELSE methods[i] = Method(form, quantFile.group)
    BY DEF MethodsFitTheCheckpoint
  <2>1. FileInv /\ methods[i] = MethodFor(Modules[i]) /\ methods[i] # Refused
    BY DEF QuantIInv, MethodsInv
  <2>2. i \in DOMAIN Modules
    <3>1. DOMAIN methods = 1 .. Len(methods) /\ Len(methods) \in Nat /\ Len(methods) <= Len(Modules)
      BY DEF QuantIInv, MethodsInv
    <3>2. DOMAIN Modules = 1 .. Len(Modules) /\ Len(Modules) \in Nat
      BY QuantAssumption
    <3> QED
      BY <3>1, <3>2
  <2>3. Fits(Modules[i])
    BY <2>1, <2>2, LayersFit, TablesFit
  <2> QED
    BY <2>1, <2>3 DEF Fits
<1> QED
  BY <1>1, QuantInvariant, PTL

(* modelopt_patched.py, is_layer_skipped and _resolve_quant_algo: a packed *)
(* layer whose shards are stored differently is not built.                 *)
THEOREM Disagreement ==
  ASSUME NamesKeepModulesApart
  PROVE  QuantSpec => []DisagreementIsRefused
<1>1. QuantIInv => DisagreementIsRefused
  <2> SUFFICES ASSUME QuantIInv, NEW i \in DOMAIN methods, Shards(Modules[i].name) # {}
               PROVE  Cardinality(Stored(Modules[i]) \ IF quantFile.packed THEN {} ELSE {"none"}) <= 1
    BY DEF DisagreementIsRefused
  <2>1. FileInv /\ MethodFor(Modules[i]) # Refused
    BY DEF QuantIInv, MethodsInv
  <2>2. i \in DOMAIN Modules
    <3>1. DOMAIN methods = 1 .. Len(methods) /\ Len(methods) \in Nat /\ Len(methods) <= Len(Modules)
      BY DEF QuantIInv, MethodsInv
    <3>2. DOMAIN Modules = 1 .. Len(Modules) /\ Len(Modules) \in Nat
      BY QuantAssumption
    <3> QED
      BY <3>1, <3>2
  <2> QED
    BY <2>1, <2>2, DisagreeingRefused
<1> QED
  BY <1>1, QuantInvariant, PTL

(* modelopt_patched.py, get_quant_method: a model is refused only for      *)
(* shards that disagree, an empty listing, or a PLE table in a format      *)
(* without an embedding method.                                            *)
THEOREM Refusals ==
  ASSUME NamesKeepModulesApart
  PROVE  QuantSpec => []RefusalsAreDeserved
<1>1. QuantIInv => RefusalsAreDeserved
  <2> SUFFICES ASSUME QuantIInv, status = "refused",
                      ~(quantFile.algo = "MIXED_PRECISION" /\ config.listed = <<>>)
               PROVE  \E i \in DOMAIN Modules :
                        \/ Shards(Modules[i].name) # {} /\ Cardinality(Stored(Modules[i])) > 1
                        \/ Modules[i].kind = "ple" /\ ~(Stored(Modules[i]) \subseteq {"none", "FP8", "NVFP4"})
    BY DEF RefusalsAreDeserved
  <2>1. FileInv /\ \E i \in DOMAIN Modules : MethodFor(Modules[i]) = Refused
    BY DEF QuantIInv, MethodsInv
  <2> QED
    BY <2>1, DeservedRefusal
<1> QED
  BY <1>1, QuantInvariant, PTL

=============================================================================
