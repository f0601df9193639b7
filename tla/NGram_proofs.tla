----------------------------- MODULE NGram_proofs -----------------------------
(***************************************************************************)
(* Every token is hashed with the n-gram of its own request, for every     *)
(* number of requests, size of the n-grams, cut into batches and padding.  *)
(*                                                                         *)
(* The argument follows the code: query_start_loc assigns every position   *)
(* of a batch to one request and one column, the scatter writes exactly    *)
(* one token to it, so that a row with its context is a stretch of the     *)
(* request's own tokens; the segment position then says how far back that  *)
(* stretch is free of an EOS.                                              *)
(***************************************************************************)
EXTENDS NGram, Sequences, FiniteSetTheorems, NaturalsInduction, TLAPS

(* The counters; the workspace may hold anything. *)
TypeOK ==
  /\ eosAt \in [Reqs -> SUBSET (1 .. MaxLen)]
  /\ n \in [Reqs -> 0 .. MaxLen] /\ len \in [Reqs -> 0 .. MaxTokens]
  /\ \A r \in Reqs : n[r] + len[r] <= MaxLen

IInv == TypeOK /\ OwnNGrams

(* The batches: how many tokens of every request. *)
Cuts == [Reqs -> 0 .. MaxTokens]

LEMMA Constants ==
  /\ NumReqs \in Nat \ {0} /\ NgramSize \in Nat /\ NgramSize >= 2
  /\ MaxLen \in Nat /\ MaxTokens \in Nat \ {0} /\ MaxPadding \in Nat
BY NGramAssumption

-----------------------------------------------------------------------------
(* Numbers.                                                                *)

LEMMA LeastNat ==
  ASSUME NEW T \in SUBSET Nat, T # {}
  PROVE  \E x \in T : \A y \in T : x <= y
<1>1. IsWellFoundedOn(OpToRel(<, Nat), Nat)
  BY NatLessThanWellFounded
<1>2. PICK x \in T : \A y \in T : ~(<<y, x>> \in OpToRel(<, Nat))
  BY <1>1, WFMin
<1>3. \A y \in T : ~(y < x) /\ y \in Nat /\ x \in Nat
  BY <1>2 DEF OpToRel
<1>4. \A y \in T : x <= y
  BY <1>3
<1> QED
  BY <1>4

(* A bounded set of numbers has a maximum. *)
LEMMA MaxOfBounded ==
  ASSUME NEW S \in SUBSET Nat, S # {}, NEW bound \in Nat, \A y \in S : y <= bound
  PROVE  Max(S) \in S /\ \A y \in S : y <= Max(S)
<1> DEFINE Above == {m \in Nat : \A y \in S : y <= m}
<1>1. PICK m \in Above : \A k \in Above : m <= k
  <2>1. Above \in SUBSET Nat /\ bound \in Above
    OBVIOUS
  <2> HIDE DEF Above
  <2> QED
    BY <2>1, LeastNat
<1>2. m \in S
  <2> SUFFICES ASSUME m \notin S PROVE FALSE
    OBVIOUS
  <2>1. \A y \in S : y < m /\ y <= m - 1
    BY <1>1
  <2>2. m - 1 \in Nat
    <3>1. PICK y \in S : TRUE
      OBVIOUS
    <3>2. y \in Nat /\ m \in Nat /\ y < m
      BY <1>1, <2>1, <3>1
    <3> QED
      BY <3>2
  <2>3. m - 1 \in Above /\ ~(m <= m - 1)
    BY <1>1, <2>1, <2>2
  <2> QED
    BY <1>1, <2>3
<1>3. \E x \in S : \A y \in S : x >= y
  BY <1>1, <1>2
<1>4. Max(S) \in S /\ \A y \in S : Max(S) >= y
  BY <1>3 DEF Max
<1> QED
  BY <1>4

-----------------------------------------------------------------------------
(* query_start_loc.                                                        *)

(* The recursion of StartLoc. *)
StartStep(ls, m, f) == [r \in 0 .. m |-> IF r = 0 THEN 0 ELSE f[r - 1] + ls[r]]

LEMMA StartExists ==
  ASSUME NEW ls
  PROVE  \A m \in Nat : \E f : f = StartStep(ls, m, f)
<1> DEFINE Bad == {m \in Nat : ~(\E f : f = StartStep(ls, m, f))}
<1>1. SUFFICES ASSUME Bad # {} PROVE FALSE
  OBVIOUS
<1>2. PICK m \in Bad : \A k \in Bad : m <= k
  BY <1>1, LeastNat
<1>3. m # 0
  <2> DEFINE f == [r \in 0 .. 0 |-> 0]
  <2>1. f = StartStep(ls, 0, f)
    BY DEF StartStep
  <2> QED
    BY <1>2, <2>1
<1>4. PICK f : f = StartStep(ls, m - 1, f)
  <2>1. m - 1 \in Nat /\ m - 1 \notin Bad
    BY <1>2, <1>3
  <2> QED
    BY <2>1
<1> DEFINE e == [r \in 0 .. m |-> IF r = m THEN f[m - 1] + ls[m] ELSE f[r]]
<1>5. e = StartStep(ls, m, e)
  BY <1>2, <1>3, <1>4 DEF StartStep
<1> QED
  BY <1>2, <1>5

LEMMA StartDef ==
  ASSUME NEW ls
  PROVE  /\ StartLoc(ls)[0] = 0
         /\ \A r \in Reqs : StartLoc(ls)[r] = StartLoc(ls)[r - 1] + ls[r]
<1> DEFINE o == CHOOSE f : f = StartStep(ls, NumReqs, f)
<1>1. o = StartStep(ls, NumReqs, o)
  BY Constants, StartExists
<1>2. StartLoc(ls) = o
  BY DEF StartLoc, StartStep
<1> HIDE DEF o
<1>3. \A r \in 0 .. NumReqs : o[r] = IF r = 0 THEN 0 ELSE o[r - 1] + ls[r]
  BY <1>1 DEF StartStep
<1>4. o[0] = 0
  BY <1>3, Constants
<1>5. \A r \in Reqs : o[r] = o[r - 1] + ls[r]
  BY <1>3, Constants DEF Reqs
<1> QED
  BY <1>2, <1>4, <1>5

LEMMA StartType ==
  ASSUME NEW ls \in Cuts
  PROVE  \A r \in 0 .. NumReqs : StartLoc(ls)[r] \in Nat
<1> DEFINE Bad == {r \in 0 .. NumReqs : StartLoc(ls)[r] \notin Nat}
<1>1. SUFFICES ASSUME Bad # {} PROVE FALSE
  OBVIOUS
<1>2. PICK r \in Bad : \A k \in Bad : r <= k
  <2>1. Bad \in SUBSET Nat
    BY Constants
  <2> HIDE DEF Bad
  <2> QED
    BY <1>1, <2>1, LeastNat
<1>3. r # 0
  BY <1>2, StartDef
<1>4. r \in Reqs /\ r - 1 \in 0 .. NumReqs /\ r - 1 < r
  BY <1>2, <1>3, Constants DEF Reqs
<1>5. StartLoc(ls)[r - 1] \in Nat
  <2>1. r - 1 \notin Bad
    BY <1>2, <1>4
  <2> QED
    BY <1>4, <2>1
<1>6. ls[r] \in Nat
  BY <1>4, Constants DEF Cuts
<1>7. StartLoc(ls)[r] = StartLoc(ls)[r - 1] + ls[r]
  BY <1>4, StartDef
<1>8. StartLoc(ls)[r] \in Nat
  BY <1>5, <1>6, <1>7
<1> QED
  BY <1>2, <1>8

LEMMA StartMonotone ==
  ASSUME NEW ls \in Cuts, NEW a \in 0 .. NumReqs, NEW b \in 0 .. NumReqs, a <= b
  PROVE  StartLoc(ls)[a] <= StartLoc(ls)[b]
<1> DEFINE q == StartLoc(ls)
           Bad == {r \in 0 .. NumReqs : a <= r /\ ~(q[a] <= q[r])}
<1>1. SUFFICES ASSUME Bad # {} PROVE FALSE
  OBVIOUS
<1>2. PICK r \in Bad : \A k \in Bad : r <= k
  <2>1. Bad \in SUBSET Nat
    BY Constants
  <2> HIDE DEF Bad
  <2> QED
    BY <1>1, <2>1, LeastNat
<1>3. q[a] \in Nat /\ q[r] \in Nat /\ ~(q[a] <= q[r])
  BY <1>2, StartType
<1>4. r # a
  BY <1>2, <1>3
<1>5. r \in Reqs /\ r - 1 \in 0 .. NumReqs /\ a <= r - 1 /\ r - 1 < r
  BY <1>2, <1>4, Constants DEF Reqs
<1>6. q[a] <= q[r - 1] /\ q[r - 1] \in Nat
  <2>1. r - 1 \notin Bad
    BY <1>2, <1>5
  <2> QED
    BY <1>5, <2>1, StartType
<1>7. ls[r] \in Nat /\ q[r] = q[r - 1] + ls[r]
  BY <1>5, StartDef, Constants DEF Cuts
<1> HIDE DEF q
<1> QED
  BY <1>3, <1>6, <1>7

(* The positions of a request, and those after all requests. *)
LEMMA RequestFound ==
  ASSUME NEW ls \in Cuts, NEW r \in Reqs, NEW p \in Nat,
         StartLoc(ls)[r - 1] <= p, p < StartLoc(ls)[r]
  PROVE  RequestOf(StartLoc(ls), p) = r
<1> DEFINE q == StartLoc(ls)
           started == {x \in 0 .. NumReqs : q[x] <= p}
<1>1. r \in Nat \ {0} /\ r <= NumReqs /\ NumReqs \in Nat /\ r - 1 \in 0 .. NumReqs /\ r \in 0 .. NumReqs
  BY Constants DEF Reqs
<1>2. ASSUME NEW x \in 0 .. NumReqs PROVE q[x] <= p <=> x <= r - 1
  <2>1. q[x] \in Nat /\ q[r] \in Nat /\ q[r - 1] \in Nat
    BY <1>1, StartType
  <2>2. x <= r - 1 => q[x] <= q[r - 1]
    BY <1>1, StartMonotone
  <2>3. r <= x => q[r] <= q[x]
    BY <1>1, StartMonotone
  <2>4. x <= r - 1 \/ r <= x
    BY <1>1
  <2>5. ~(x <= r - 1 /\ r <= x)
    BY <1>1
  <2>6. q[r - 1] <= p /\ p < q[r]
    OBVIOUS
  <2> HIDE DEF q
  <2> QED
    BY <2>1, <2>2, <2>3, <2>4, <2>5, <2>6
<1>3. started = 0 .. (r - 1)
  <2> HIDE DEF q
  <2> QED
    BY <1>1, <1>2
<1>4. Cardinality(started) = r
  <2>1. Cardinality(0 .. (r - 1)) = IF 0 > r - 1 THEN 0 ELSE (r - 1) - 0 + 1
    <3>1. 0 \in Int /\ r - 1 \in Int
      BY <1>1
    <3> QED
      BY <3>1, FS_Interval
  <2>2. Cardinality(0 .. (r - 1)) = r
    BY <1>1, <2>1
  <2> HIDE DEF started
  <2> QED
    BY <1>3, <2>2
<1>5. ~(r > NumReqs)
  BY <1>1
<1> QED
  BY <1>4, <1>5 DEF RequestOf

LEMMA PaddingFound ==
  ASSUME NEW ls \in Cuts, NEW p \in Nat, StartLoc(ls)[NumReqs] <= p
  PROVE  RequestOf(StartLoc(ls), p) = NumReqs
<1> DEFINE q == StartLoc(ls)
           started == {x \in 0 .. NumReqs : q[x] <= p}
<1>1. NumReqs \in Nat /\ NumReqs \in 0 .. NumReqs
  BY Constants
<1>2. ASSUME NEW x \in 0 .. NumReqs PROVE q[x] <= p
  <2>1. q[x] \in Nat /\ q[NumReqs] \in Nat /\ q[x] <= q[NumReqs]
    BY <1>1, StartType, StartMonotone
  <2>2. q[NumReqs] <= p
    OBVIOUS
  <2> HIDE DEF q
  <2> QED
    BY <2>1, <2>2
<1>3. started = 0 .. NumReqs
  BY <1>2
<1>4. Cardinality(started) = NumReqs + 1
  <2>1. Cardinality(0 .. NumReqs) = IF 0 > NumReqs THEN 0 ELSE NumReqs - 0 + 1
    BY <1>1, FS_Interval
  <2>2. Cardinality(0 .. NumReqs) = NumReqs + 1
    BY <1>1, <2>1
  <2> HIDE DEF started
  <2> QED
    BY <1>3, <2>2
<1>5. NumReqs + 1 > NumReqs
  BY <1>1
<1> QED
  BY <1>4, <1>5 DEF RequestOf

LEMMA TokenHasRequest ==
  ASSUME NEW ls \in Cuts, NEW p \in Nat, p < StartLoc(ls)[NumReqs]
  PROVE  \E r \in Reqs : StartLoc(ls)[r - 1] <= p /\ p < StartLoc(ls)[r]
<1> DEFINE q == StartLoc(ls)
           After == {x \in 0 .. NumReqs : p < q[x]}
<1>1. PICK r \in After : \A k \in After : r <= k
  <2>1. After \in SUBSET Nat /\ NumReqs \in After
    BY Constants
  <2> HIDE DEF After
  <2> QED
    BY <2>1, LeastNat
<1>2. r # 0
  <2>1. q[0] = 0
    BY StartDef
  <2>2. p < q[r]
    BY <1>1
  <2> HIDE DEF q
  <2> QED
    BY <2>1, <2>2
<1>3. r \in Reqs /\ r - 1 \in 0 .. NumReqs /\ r - 1 < r
  BY <1>1, <1>2, Constants DEF Reqs
<1>4. r - 1 \notin After
  BY <1>1, <1>3
<1>5. q[r - 1] \in Nat
  BY <1>3, StartType
<1>6. q[r - 1] <= p
  <2>1. ~(p < q[r - 1])
    BY <1>3, <1>4
  <2> HIDE DEF q
  <2> QED
    BY <1>5, <2>1
<1> QED
  BY <1>1, <1>3, <1>6

-----------------------------------------------------------------------------
(* The scatter.                                                            *)

LEMMA WideEnough ==
  ASSUME NEW ls \in Cuts
  PROVE  /\ Columns(ls) \in 1 .. MaxTokens
         /\ \A r \in Reqs : ls[r] <= Columns(ls)
         /\ ~offload => Columns(ls) = MaxTokens
<1> DEFINE lens == {1} \cup {ls[r] : r \in Reqs}
<1>1. MaxTokens \in Nat \ {0}
  BY Constants
<1>2. \A r \in Reqs : ls[r] \in 0 .. MaxTokens
  BY DEF Cuts
<1>3. lens \in SUBSET (0 .. MaxTokens) /\ 1 \in lens /\ \A r \in Reqs : ls[r] \in lens
  BY <1>1, <1>2
<1> HIDE DEF lens
<1>4. Max(lens) \in lens /\ \A y \in lens : y <= Max(lens)
  <2>1. lens \in SUBSET Nat /\ lens # {} /\ \A y \in lens : y <= MaxTokens
    BY <1>1, <1>3
  <2> QED
    BY <1>1, <2>1, MaxOfBounded
<1>5. Columns(ls) = IF offload THEN Max(lens) ELSE MaxTokens
  BY DEF Columns, lens
<1>6. CASE offload
  <2>1. Max(lens) \in 0 .. MaxTokens /\ 1 <= Max(lens) /\ \A r \in Reqs : ls[r] <= Max(lens)
    BY <1>3, <1>4
  <2>2. Max(lens) \in 1 .. MaxTokens
    BY <1>1, <2>1
  <2> QED
    BY <1>5, <1>6, <2>1, <2>2
<1>7. CASE ~offload
  <2>1. MaxTokens \in 1 .. MaxTokens /\ \A r \in Reqs : ls[r] <= MaxTokens
    BY <1>1, <1>2
  <2> QED
    BY <1>5, <1>7, <2>1
<1> QED
  BY <1>6, <1>7

(* The position of the j-th token of a request, and its place in the rows. *)
At(ls, r, j) == StartLoc(ls)[r - 1] + j - 1

LEMMA TokenPlace ==
  ASSUME NEW ls \in Cuts, NEW r \in Reqs, NEW j \in 1 .. ls[r]
  PROVE  /\ At(ls, r, j) \in Nat /\ At(ls, r, j) < StartLoc(ls)[NumReqs]
         /\ RequestOf(StartLoc(ls), At(ls, r, j)) = r
         /\ Column(ls, At(ls, r, j)) = j - 1
<1> DEFINE q == StartLoc(ls)
           p == At(ls, r, j)
<1>1. r \in 1 .. NumReqs /\ r - 1 \in 0 .. NumReqs /\ r \in 0 .. NumReqs
      /\ NumReqs \in 0 .. NumReqs /\ r <= NumReqs
  BY Constants DEF Reqs
<1>2. q[r - 1] \in Nat /\ q[r] \in Nat /\ q[NumReqs] \in Nat /\ q[r] <= q[NumReqs]
  BY <1>1, StartType, StartMonotone
<1>3. ls[r] \in Nat /\ q[r] = q[r - 1] + ls[r]
  BY StartDef, Constants DEF Cuts
<1>4. p = q[r - 1] + j - 1
  BY DEF At
<1> HIDE DEF q, p
<1>5. p \in Nat /\ q[r - 1] <= p /\ p < q[r] /\ p < q[NumReqs] /\ p - q[r - 1] = j - 1
  BY <1>2, <1>3, <1>4
<1>6. RequestOf(q, p) = r
  BY <1>5, RequestFound DEF q
<1>7. Column(ls, p) = j - 1
  <2>1. Columns(ls) \in Nat /\ ls[r] <= Columns(ls)
    BY WideEnough, Constants
  <2>2. ~(j - 1 > Columns(ls) - 1)
    BY <1>3, <2>1
  <2>3. Column(ls, p) = IF p - q[RequestOf(q, p) - 1] > Columns(ls) - 1 THEN Columns(ls) - 1
                        ELSE p - q[RequestOf(q, p) - 1]
    BY DEF Column, q
  <2> QED
    BY <1>5, <1>6, <2>2, <2>3
<1> QED
  BY <1>5, <1>6, <1>7 DEF q, p

(***************************************************************************)
(* One token is scattered to the place of a token: those of the graph      *)
(* padding stay out in the offload process, and come after the last        *)
(* request's tokens on the GPU, whose rows have room for them.             *)
(***************************************************************************)
LEMMA ScatteredOnce ==
  ASSUME NEW ls \in Cuts, NEW pad \in Nat, StartLoc(ls)[NumReqs] + pad <= MaxTokens,
         NEW r \in Reqs, NEW j \in 1 .. ls[r]
  PROVE  Scattered(ls, pad, r, j - 1) = {At(ls, r, j)}
<1> DEFINE q == StartLoc(ls)
           total == q[NumReqs]
<1>1. NumReqs \in Nat \ {0} /\ MaxTokens \in Nat \ {0} /\ NumReqs \in 0 .. NumReqs /\ NumReqs \in Reqs
      /\ NumReqs - 1 \in 0 .. NumReqs
  BY Constants DEF Reqs
<1>2. total \in Nat /\ q[NumReqs - 1] \in Nat
  BY <1>1, StartType
<1>3. NumValid(ls, pad) = IF offload THEN total ELSE total + pad
  BY DEF NumValid
<1>4. At(ls, r, j) \in Scattered(ls, pad, r, j - 1)
  <2>1. At(ls, r, j) \in Nat /\ At(ls, r, j) < total
    BY TokenPlace
  <2>2. At(ls, r, j) \in 0 .. (NumValid(ls, pad) - 1)
    <3> HIDE DEF total
    <3>1. NumValid(ls, pad) \in Nat /\ total <= NumValid(ls, pad)
      BY <1>2, <1>3
    <3> QED
      BY <1>2, <2>1, <3>1
  <2> QED
    BY <2>2, TokenPlace DEF Scattered
<1>5. ASSUME NEW p \in Scattered(ls, pad, r, j - 1) PROVE p = At(ls, r, j)
  <2>1. p \in 0 .. (NumValid(ls, pad) - 1) /\ RequestOf(q, p) = r /\ Column(ls, p) = j - 1
    BY DEF Scattered
  <2>2. p \in Nat /\ p < NumValid(ls, pad)
    <3>1. NumValid(ls, pad) \in Nat
      <4> HIDE DEF total
      <4> QED
        BY <1>2, <1>3
    <3> QED
      BY <2>1, <3>1
  <2>3. CASE p < total
    <3>1. PICK s \in Reqs : q[s - 1] <= p /\ p < q[s]
      BY <2>2, <2>3, TokenHasRequest
    <3>2. s = r
      BY <2>1, <2>2, <3>1, RequestFound
    <3> DEFINE i == p - q[r - 1] + 1
    <3>3. q[r - 1] \in Nat /\ q[r] \in Nat /\ ls[r] \in Nat /\ q[r] = q[r - 1] + ls[r]
      <4>1. r - 1 \in 0 .. NumReqs /\ r \in 0 .. NumReqs
        BY Constants DEF Reqs
      <4> QED
        BY <4>1, StartType, StartDef, Constants DEF Cuts
    <3>4. q[r - 1] <= p /\ p < q[r]
      BY <3>1, <3>2
    <3> HIDE DEF q
    <3>5. i \in 1 .. ls[r] /\ p = q[r - 1] + i - 1
      BY <2>2, <3>3, <3>4
    <3> HIDE DEF i
    <3>6. p = At(ls, r, i)
      BY <3>5 DEF At, q
    <3>7. Column(ls, p) = i - 1
      BY <3>5, <3>6, TokenPlace
    <3>8. i = j
      BY <2>1, <3>3, <3>5, <3>7
    <3> QED
      BY <3>6, <3>8
  <2>4. CASE ~(p < total)
    <3>1. ~offload /\ NumValid(ls, pad) = total + pad /\ total <= p
      <4>0. total <= p
        <5> HIDE DEF total
        <5> QED
          BY <1>2, <2>2, <2>4
      <4>1. ~offload
        BY <1>3, <2>2, <2>4
      <4> QED
        BY <1>3, <4>0, <4>1
    <3>2. r = NumReqs
      BY <2>1, <2>2, <3>1, PaddingFound
    <3> DEFINE c == p - q[NumReqs - 1]
    <3>3. Column(ls, p) = IF c > MaxTokens - 1 THEN MaxTokens - 1 ELSE c
      <4>1. Columns(ls) = MaxTokens
        BY <3>1, WideEnough
      <4>2. RequestOf(q, p) = NumReqs
        BY <2>1, <3>2
      <4> HIDE DEF q
      <4> QED
        BY <4>1, <4>2 DEF Column, q
    <3>4. total = q[NumReqs - 1] + ls[NumReqs] /\ ls[NumReqs] \in Nat
      BY <1>1, StartDef, Constants DEF Cuts
    <3>5. p < total + pad /\ total + pad <= MaxTokens
      BY <2>2, <3>1
    <3>6. j <= ls[NumReqs] /\ j \in Nat
      BY <3>2, <3>4
    <3> HIDE DEF total, q
    <3>7. c >= ls[NumReqs] /\ c <= MaxTokens - 1 /\ c \in Nat
      BY <1>1, <1>2, <2>2, <3>1, <3>4, <3>5
    <3> HIDE DEF c
    <3>8. Column(ls, p) >= j
      BY <1>1, <3>3, <3>4, <3>6, <3>7
    <3>9. FALSE
      BY <2>1, <3>6, <3>8
    <3> QED
      BY <3>9
  <2> QED
    BY <2>3, <2>4
<1> QED
  BY <1>4, <1>5

LEMMA Packed ==
  ASSUME NEW ls \in Cuts, NEW pad \in Nat, StartLoc(ls)[NumReqs] + pad <= MaxTokens,
         NEW r \in Reqs, NEW j \in 1 .. ls[r], TypeOK
  PROVE  Pack(ls, pad)[r][j] = Token(r, n[r] + len[r] + j)
<1> DEFINE p == At(ls, r, j)
           from == Scattered(ls, pad, r, j - 1)
<1>1. ls[r] \in 0 .. MaxTokens /\ ls[r] <= Columns(ls) /\ Columns(ls) \in 1 .. MaxTokens /\ MaxTokens \in Nat
  BY WideEnough, Constants DEF Cuts
<1>2. j \in 1 .. MaxTokens /\ ~(j > Columns(ls))
  BY <1>1
<1>3. from = {p}
  BY ScatteredOnce
<1>4. Pack(ls, pad)[r][j] = Input(ls, Max(from))
  <2>1. Pack(ls, pad)[r][j] = IF j > Columns(ls) THEN buffer[r][j]
                              ELSE IF from = {} THEN Eos ELSE Input(ls, Max(from))
    BY <1>2 DEF Pack
  <2> QED
    BY <1>2, <1>3, <2>1
<1>5. p \in Nat /\ p < StartLoc(ls)[NumReqs] /\ RequestOf(StartLoc(ls), p) = r
  BY TokenPlace
<1>6. Max(from) = p
  <2>1. Max({p}) = p
    <3> HIDE DEF p
    <3>1. p >= p /\ \A x \in {p} : x = p
      BY <1>5
    <3> QED
      BY <3>1 DEF Max
  <2> QED
    BY <1>3, <2>1
<1>7. Input(ls, p) = Token(r, n[r] + len[r] + p - StartLoc(ls)[r - 1] + 1)
  BY <1>5 DEF Input
<1>8. n[r] + len[r] + p - StartLoc(ls)[r - 1] + 1 = n[r] + len[r] + j
  <2>1. StartLoc(ls)[r - 1] \in Nat
    <3>1. r - 1 \in 0 .. NumReqs
      BY Constants DEF Reqs
    <3> QED
      BY <3>1, StartType
  <2>2. n[r] \in Nat /\ len[r] \in Nat /\ j \in Nat
    BY <1>1, Constants DEF TypeOK
  <2>3. p = StartLoc(ls)[r - 1] + j - 1
    BY DEF At
  <2> HIDE DEF p
  <2> QED
    BY <2>1, <2>2, <2>3
<1> QED
  BY <1>4, <1>6, <1>7, <1>8

-----------------------------------------------------------------------------
(* The rows and the n-grams.                                               *)

(* What a row holds of the request's position q. *)
Cell(r, q) == IF q < 1 THEN Eos ELSE Token(r, q)

LEMMA TokenIsNotEos ==
  ASSUME NEW r, NEW q
  PROVE  <<r, q>> # Eos
<1>1. Len(<<r, q>>) = 2 /\ Len(Eos) = 0
  BY DEF Eos
<1> QED
  BY <1>1

LEMMA CellIsEos ==
  ASSUME NEW r \in Reqs, NEW q \in Int, TypeOK
  PROVE  Cell(r, q) = Eos <=> (q < 1 \/ q \in eosAt[r])
BY TokenIsNotEos DEF Cell, Token

(***************************************************************************)
(* A row with its context is the stretch of the request's tokens that ends *)
(* at its last token of the batch.                                         *)
(***************************************************************************)
LEMMA RowIsStretch ==
  ASSUME NEW ls \in Cuts, NEW pad \in Nat, StartLoc(ls)[NumReqs] + pad <= MaxTokens,
         NEW r \in Reqs, NEW x \in 1 .. (NgramSize - 1 + ls[r]), TypeOK
  PROVE  Row(Pack(ls, pad), r)[x] = Cell(r, n[r] + len[r] + x - (NgramSize - 1))
<1> DEFINE m == n[r] + len[r]
           packed == Pack(ls, pad)
<1>1. ls[r] \in 0 .. MaxTokens /\ MaxTokens \in Nat /\ NgramSize \in Nat /\ NgramSize >= 2
  BY Constants DEF Cuts
<1>2. n[r] \in Nat /\ len[r] \in Nat
  BY Constants DEF TypeOK
<1>3. x \in 1 .. (NgramSize - 1 + MaxTokens) /\ x \in Nat
  BY <1>1
<1>4. Row(packed, r)[x] = IF x < NgramSize THEN Context(r)[x] ELSE packed[r][x - NgramSize + 1]
  <2> HIDE DEF packed
  <2> QED
    BY <1>3 DEF Row
<1>5. CASE x < NgramSize
  <2>1. x \in 1 .. (NgramSize - 1)
    BY <1>1, <1>3, <1>5
  <2>2. Context(r)[x] = Cell(r, n[r] + len[r] - (NgramSize - 1) + x)
    BY <2>1 DEF Context, Cell
  <2>3. n[r] + len[r] - (NgramSize - 1) + x = n[r] + len[r] + x - (NgramSize - 1)
    BY <1>1, <1>2, <1>3
  <2> QED
    BY <1>4, <1>5, <2>2, <2>3
<1>6. CASE ~(x < NgramSize)
  <2> DEFINE j == x - NgramSize + 1
  <2>1. j \in 1 .. ls[r]
    BY <1>1, <1>3, <1>6
  <2>2. n[r] + len[r] + j = n[r] + len[r] + x - (NgramSize - 1)
    BY <1>1, <1>2, <1>3
  <2>3. n[r] + len[r] + j >= 1 /\ n[r] + len[r] + j \in Int
    BY <1>1, <1>2, <2>1
  <2> HIDE DEF j
  <2>4. packed[r][j] = Token(r, n[r] + len[r] + j)
    BY <2>1, Packed
  <2>5. Token(r, n[r] + len[r] + j) = Cell(r, n[r] + len[r] + j)
    <3> DEFINE q == n[r] + len[r] + j
    <3>1. ~(q < 1)
      BY <2>3
    <3> HIDE DEF q
    <3>2. Token(r, q) = Cell(r, q)
      BY <3>1 DEF Cell
    <3> QED
      BY <3>2 DEF q
  <2> QED
    BY <1>4, <1>6, <2>2, <2>4, <2>5 DEF j
<1> QED
  BY <1>5, <1>6

(* The tokens that the segment position spans are free of an EOS. *)
LEMMA SegmentIsOpen ==
  ASSUME NEW row, NEW i \in Nat \ {0}, NEW shift \in Nat, shift < i
  PROVE  SegmentPosition(row, i) >= shift <=> \A x \in (i - shift) .. (i - 1) : row[x] # Eos
<1> DEFINE ends == {0} \cup {x \in 1 .. (i - 1) : row[x] = Eos}
           last == Max(ends)
<1>1. last \in ends /\ \A y \in ends : y <= last
  <2>1. ends \in SUBSET Nat /\ ends # {} /\ \A y \in ends : y <= i
    OBVIOUS
  <2> HIDE DEF ends
  <2> QED
    BY <2>1, MaxOfBounded
<1>2. SegmentPosition(row, i) = i - last - 1
  BY DEF SegmentPosition
<1> HIDE DEF last
<1>3. last \in Nat /\ last <= i - 1
  BY <1>1
<1>4. SegmentPosition(row, i) >= shift <=> last < i - shift
  BY <1>2, <1>3
<1>5. ASSUME last < i - shift, NEW x \in (i - shift) .. (i - 1) PROVE row[x] # Eos
  <2>1. x \in 1 .. (i - 1) /\ ~(x <= last)
    BY <1>3, <1>5
  <2>2. x \notin ends
    BY <1>1, <2>1
  <2> QED
    BY <2>1, <2>2
<1>6. ASSUME ~(last < i - shift) PROVE \E x \in (i - shift) .. (i - 1) : row[x] = Eos
  <2>1. last \in (i - shift) .. (i - 1) /\ last # 0
    BY <1>3, <1>6
  <2>2. row[last] = Eos
    BY <1>1, <2>1
  <2> QED
    BY <2>1, <2>2
<1> QED
  BY <1>4, <1>5, <1>6

(***************************************************************************)
(* What a batch hashes for the j-th token of a request in it is the n-gram *)
(* of that token, whatever the other requests, the padding and the         *)
(* workspace are.                                                          *)
(***************************************************************************)
THEOREM GramOfToken ==
  ASSUME NEW ls \in Cuts, NEW pad \in Nat, StartLoc(ls)[NumReqs] + pad <= MaxTokens,
         NEW r \in Reqs, NEW j \in 1 .. ls[r], TypeOK
  PROVE  Gram(ls, Pack(ls, pad), StartLoc(ls)[r - 1] + j - 1) = NGramOf(r, n[r] + len[r] + j)
<1> DEFINE p == At(ls, r, j)
           row == Row(Pack(ls, pad), r)
           i == j - 1 + NgramSize
           q == n[r] + len[r] + j
<1>1. ls[r] \in Nat /\ NgramSize \in Nat /\ NgramSize >= 2 /\ j \in Nat \ {0} /\ j <= ls[r]
      /\ n[r] \in Nat /\ len[r] \in Nat
  BY Constants DEF TypeOK, Cuts
<1>2. i \in Nat \ {0} /\ q \in Nat \ {0}
  BY <1>1
<1>3. ASSUME NEW x \in 1 .. i
      PROVE  /\ q - (i - x) \in Int
             /\ row[x] = Cell(r, q - (i - x))
             /\ row[x] = Eos <=> (q - (i - x) < 1 \/ q - (i - x) \in eosAt[r])
  <2>1. x \in 1 .. (NgramSize - 1 + ls[r]) /\ x \in Nat
    BY <1>1
  <2>2. q - (i - x) = n[r] + len[r] + x - (NgramSize - 1)
    BY <1>1, <2>1
  <2>3. row[x] = Cell(r, n[r] + len[r] + x - (NgramSize - 1))
    BY <2>1, RowIsStretch
  <2>4. q - (i - x) \in Int
    BY <1>2, <2>1
  <2> HIDE DEF q, i, row
  <2>5. row[x] = Cell(r, q - (i - x))
    BY <2>2, <2>3
  <2> QED
    BY <2>4, <2>5, CellIsEos
<1>4. Gram(ls, Pack(ls, pad), p) = [shift \in 0 .. (NgramSize - 1) |-> Shifted(row, i, shift)]
  BY TokenPlace DEF Gram
<1>5. ASSUME NEW shift \in 0 .. (NgramSize - 1)
      PROVE  Shifted(row, i, shift) =
               IF q - shift >= 1 /\ \A y \in (q - shift) .. (q - 1) : y \notin eosAt[r]
               THEN Token(r, q - shift)
               ELSE Eos
  <2> DEFINE free == \A y \in (q - shift) .. (q - 1) : y \notin eosAt[r]
             open == \A x \in (i - shift) .. (i - 1) : row[x] # Eos
  <2>1. shift \in Nat /\ shift < i /\ i - shift \in 1 .. i
    BY <1>1
  <2>2. row[i - shift] = Cell(r, q - shift)
    <3> HIDE DEF i, q, row
    <3>1. q - (i - (i - shift)) = q - shift
      BY <1>2, <2>1
    <3> QED
      BY <1>3, <2>1, <3>1
  <2>3. Shifted(row, i, shift) = IF open THEN row[i - shift] ELSE Eos
    <3>1. SegmentPosition(row, i) >= shift <=> open
      <4> HIDE DEF i, row
      <4> QED
        BY <1>2, <2>1, SegmentIsOpen
    <3> HIDE DEF i, row, open
    <3>2. CASE shift = 0
      <4>1. open
        BY <1>2, <3>2 DEF open
      <4>2. i - shift = i
        BY <1>2, <3>2
      <4> QED
        BY <3>2, <4>1, <4>2 DEF Shifted
    <3>3. CASE shift # 0
      <4>1. i - shift >= 1
        BY <2>1
      <4> QED
        BY <3>1, <3>3, <4>1 DEF Shifted
    <3> QED
      BY <3>2, <3>3
  <2>4. CASE q - shift < 1
    <3>1. row[i - shift] = Eos
      BY <2>2, <2>4 DEF Cell
    <3>2. ~(q - shift >= 1)
      <4> HIDE DEF q
      <4> QED
        BY <1>2, <2>1, <2>4
    <3> QED
      BY <2>3, <3>1, <3>2
  <2>5. CASE q - shift >= 1
    <3>1. row[i - shift] = Token(r, q - shift)
      <4>1. ~(q - shift < 1)
        <5> HIDE DEF q
        <5> QED
          BY <1>2, <2>1, <2>5
      <4> HIDE DEF q, i, row
      <4> QED
        BY <2>2, <4>1 DEF Cell
    <3>2. open => free
      <4> SUFFICES ASSUME open, NEW y \in (q - shift) .. (q - 1), y \in eosAt[r] PROVE FALSE
        OBVIOUS
      <4> DEFINE x == i - (q - y)
      <4> HIDE DEF i, q, row
      <4>1. x \in (i - shift) .. (i - 1) /\ x \in 1 .. i /\ q - (i - x) = y
        BY <1>2, <2>1, <2>5
      <4> HIDE DEF x
      <4>2. row[x] = Eos
        BY <1>3, <4>1
      <4> QED
        BY <4>1, <4>2
    <3>3. free => open
      <4> SUFFICES ASSUME free, NEW x \in (i - shift) .. (i - 1), row[x] = Eos PROVE FALSE
        OBVIOUS
      <4> DEFINE y == q - (i - x)
      <4> HIDE DEF i, q, row
      <4>1. x \in 1 .. i /\ y \in (q - shift) .. (q - 1) /\ ~(y < 1)
        BY <1>2, <2>1, <2>5
      <4>2. y < 1 \/ y \in eosAt[r]
        BY <1>3, <4>1
      <4> HIDE DEF y
      <4> QED
        BY <4>1, <4>2
    <3>4. Shifted(row, i, shift) = IF free THEN Token(r, q - shift) ELSE Eos
      <4> HIDE DEF open, free, i, q, row
      <4> QED
        BY <2>3, <3>1, <3>2, <3>3
    <3> QED
      BY <2>5, <3>4 DEF free
  <2> QED
    <3> HIDE DEF q, row, i, free
    <3>1. q - shift \in Int
      BY <1>2, <2>1
    <3>2. q - shift < 1 \/ q - shift >= 1
      BY <3>1
    <3> QED
      BY <2>4, <2>5, <3>2 DEF free
<1>6. NGramOf(r, q) =
        [shift \in 0 .. (NgramSize - 1) |->
           IF q - shift >= 1 /\ \A y \in (q - shift) .. (q - 1) : y \notin eosAt[r]
           THEN Token(r, q - shift)
           ELSE Eos]
  <2> HIDE DEF q
  <2> QED
    BY DEF NGramOf
<1> HIDE DEF row, i
<1>7. Gram(ls, Pack(ls, pad), p) = NGramOf(r, q)
  <2> HIDE DEF q, p
  <2> QED
    BY <1>4, <1>5, <1>6
<1> QED
  BY <1>7 DEF At

-----------------------------------------------------------------------------
(* The invariant.                                                          *)

LEMMA InitInv == Init => IInv
<1> SUFFICES ASSUME Init PROVE IInv
  OBVIOUS
<1>1. TypeOK
  BY Constants DEF Init, TypeOK
<1>2. OwnNGrams
  BY DEF Init, OwnNGrams
<1> QED
  BY <1>1, <1>2 DEF IInv

LEMMA ForwardInv ==
  ASSUME TypeOK, Forward
  PROVE  IInv'
<1>1. PICK ls \in [Reqs -> 0 .. MaxTokens], pad \in 0 .. MaxPadding :
        /\ StartLoc(ls)[NumReqs] > 0 /\ StartLoc(ls)[NumReqs] + pad <= MaxTokens
        /\ \A r \in Reqs : n[r] + len[r] + ls[r] <= MaxLen
        /\ n' = [r \in Reqs |-> n[r] + len[r]]
        /\ len' = ls
        /\ grams' = [i \in 1 .. (StartLoc(ls)[NumReqs] + pad) |-> Gram(ls, Pack(ls, pad), i - 1)]
        /\ eosAt' = eosAt
  BY DEF Forward
<1>2. ls \in Cuts /\ pad \in Nat
  BY Constants DEF Cuts
<1>3. \A r \in Reqs : n[r] \in Nat /\ len[r] \in Nat /\ n[r] + len[r] <= MaxLen /\ ls[r] \in Nat
  BY Constants DEF TypeOK
<1>4. TypeOK'
  <2>1. eosAt' \in [Reqs -> SUBSET (1 .. MaxLen)] /\ len' \in [Reqs -> 0 .. MaxTokens]
    BY <1>1 DEF TypeOK
  <2>2. \A r \in Reqs : n'[r] \in 0 .. MaxLen /\ n'[r] + len'[r] <= MaxLen
    BY <1>1, <1>3, Constants
  <2>3. n' \in [Reqs -> 0 .. MaxLen]
    BY <1>1, <2>2
  <2> QED
    BY <2>1, <2>2, <2>3 DEF TypeOK
<1>5. ASSUME NEW r \in Reqs, NEW j \in 1 .. ls[r]
      PROVE  grams'[StartLoc(ls)[r - 1] + j] = NGramOf(r, n[r] + len[r] + j)
  <2> DEFINE i == StartLoc(ls)[r - 1] + j
             total == StartLoc(ls)[NumReqs]
  <2>1. At(ls, r, j) \in Nat /\ At(ls, r, j) < total
    BY <1>2, TokenPlace
  <2>2. i \in Nat /\ total \in Nat /\ At(ls, r, j) = i - 1
    <3>1. r - 1 \in 0 .. NumReqs /\ NumReqs \in 0 .. NumReqs
      BY Constants DEF Reqs
    <3>2. StartLoc(ls)[r - 1] \in Nat /\ total \in Nat
      BY <1>2, <3>1, StartType
    <3>3. j \in Nat
      BY <1>3
    <3> HIDE DEF total
    <3> QED
      BY <3>2, <3>3 DEF At
  <2>3. Gram(ls, Pack(ls, pad), At(ls, r, j)) = NGramOf(r, n[r] + len[r] + j)
    BY <1>1, <1>2, GramOfToken DEF At
  <2> HIDE DEF i, total
  <2>4. i \in 1 .. (total + pad)
    BY <1>2, <2>1, <2>2
  <2>5. grams'[i] = Gram(ls, Pack(ls, pad), i - 1)
    BY <1>1, <2>4 DEF total
  <2>6. Gram(ls, Pack(ls, pad), i - 1) = NGramOf(r, n[r] + len[r] + j)
    BY <2>2, <2>3
  <2> QED
    BY <2>5, <2>6 DEF i
<1>6. OwnNGrams'
  <2>1. ASSUME NEW r \in Reqs, NEW j \in 1 .. ls[r]
        PROVE  grams'[StartLoc(ls)[r - 1] + j] = NGramOf(r, n[r] + j)'
    <3>1. n'[r] = n[r] + len[r]
      BY <1>1
    <3>2. NGramOf(r, n'[r] + j) = grams'[StartLoc(ls)[r - 1] + j]
      BY <1>5, <3>1
    <3> QED
      BY <1>1, <3>2 DEF NGramOf, Token
  <2> QED
    BY <1>1, <2>1 DEF OwnNGrams
<1> QED
  BY <1>4, <1>6 DEF IInv

LEMMA NextInv == IInv /\ [Next]_vars => IInv'
<1> SUFFICES ASSUME IInv, [Next]_vars PROVE IInv'
  OBVIOUS
<1>1. CASE Forward
  BY <1>1, ForwardInv DEF IInv
<1>2. CASE UNCHANGED vars
  BY <1>2 DEF IInv, TypeOK, OwnNGrams, NGramOf, Token, vars
<1> QED
  BY <1>1, <1>2 DEF Next, Exhausted

(***************************************************************************)
(* Every token of every batch has the n-gram of its position in its own    *)
(* request, after every sequence of forwards.                              *)
(***************************************************************************)
THEOREM OwnNGramsTheorem == Spec => []OwnNGrams
<1>1. IInv => OwnNGrams
  BY DEF IInv
<1> QED
  BY <1>1, InitInv, NextInv, PTL DEF Spec

=============================================================================
