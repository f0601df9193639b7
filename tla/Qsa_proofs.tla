------------------------------ MODULE Qsa_proofs ------------------------------
(* Theorems about Qsa and about Drafter, for every value of their constants. *)
EXTENDS QsaInv, DrafterInv, FiniteSetTheorems, TLAPS

-----------------------------------------------------------------------------
(* Facts of arithmetic.                                                    *)

LEMMA DivFacts ==
  ASSUME NEW a \in Nat, NEW b \in Nat \ {0}
  PROVE  /\ a \div b \in Nat /\ a % b \in 0 .. (b - 1)
         /\ a = b * (a \div b) + (a % b)
<1>1. a = b * (a \div b) + (a % b) /\ 0 <= a % b /\ a % b < b /\ a \div b \in Int
  BY Z3
<1>2. a \div b \in Nat
  BY Z3
<1>3. a % b \in Int
  BY Z3
<1> QED BY <1>1, <1>2, <1>3

LEMMA MulMono ==
  ASSUME NEW a \in Nat, NEW b \in Nat, NEW c \in Nat, a <= b
  PROVE  a * c <= b * c
BY Z3

(* A quotient is the number of whole multiples. *)
LEMMA DivAtLeast ==
  ASSUME NEW a \in Nat, NEW b \in Nat \ {0}, NEW q \in Nat
  PROVE  q * b <= a <=> q <= a \div b
<1>1. a \div b \in Nat /\ a % b \in 0 .. (b - 1) /\ a = b * (a \div b) + (a % b)
  BY DivFacts
<1>2. ASSUME q <= a \div b PROVE q * b <= a
  BY <1>1, <1>2, MulMono
<1>3. ASSUME q > a \div b PROVE q * b > a
  <2>1. (a \div b + 1) * b <= q * b
    BY <1>1, <1>3, MulMono
  <2>2. (a \div b + 1) * b = b * (a \div b) + b
    BY <1>1
  <2>3. q * b \in Nat /\ b * (a \div b) \in Nat
    BY <1>1
  <2> QED
    BY <1>1, <2>1, <2>2, <2>3
<1>4. q * b \in Nat
  OBVIOUS
<1> QED
  BY <1>1, <1>2, <1>3, <1>4

(* Positions closer than a ring is wide have columns of their own. *)
LEMMA Columns ==
  ASSUME NEW p \in Nat, NEW x \in Nat, NEW w \in Nat \ {0}, p < x, x < p + w
  PROVE  p % w # x % w
<1> SUFFICES ASSUME p % w = x % w PROVE FALSE
  OBVIOUS
<1>1. /\ p \div w \in Nat /\ x \div w \in Nat /\ p % w \in 0 .. (w - 1)
      /\ p = w * (p \div w) + (p % w) /\ x = w * (x \div w) + (x % w)
  BY DivFacts
<1> DEFINE i == p \div w  j == x \div w  rem == p % w
<1>2. i \in Nat /\ j \in Nat /\ rem \in Nat /\ p = w * i + rem /\ x = w * j + rem
  BY <1>1
<1> HIDE DEF i, j, rem
<1>3. CASE j <= i
  <2>1. j * w <= i * w
    BY <1>2, <1>3, MulMono
  <2> QED
    BY <1>2, <2>1
<1>4. CASE i + 1 <= j
  <2>1. (i + 1) * w <= j * w
    BY <1>2, <1>4, MulMono
  <2>2. (i + 1) * w = w * i + w /\ j * w = w * j /\ w * i \in Nat /\ w * j \in Nat
    BY <1>2
  <2> QED
    BY <1>2, <2>1, <2>2
<1> QED
  BY <1>2, <1>3, <1>4

-----------------------------------------------------------------------------
(* Groups and their entries.                                               *)

(* The last position of a group. *)
End(b) == b * Ratio + Ratio - 1

LEMMA EndFacts ==
  ASSUME NEW b \in Nat
  PROVE  /\ End(b) \in Nat
         /\ End(b) \div Ratio = b
         /\ (End(b) + 1) % Ratio = 0
<1>0. Ratio \in Nat \ {0} /\ b * Ratio \in Nat /\ (b + 1) * Ratio = b * Ratio + Ratio
  BY SelectAssumption
<1>1. End(b) \in Nat /\ End(b) + 1 = (b + 1) * Ratio
  BY <1>0 DEF End
<1>2. End(b) \div Ratio = b
  <2>1. b * Ratio <= End(b) /\ ~((b + 1) * Ratio <= End(b))
    BY <1>0 DEF End
  <2>2. b <= End(b) \div Ratio /\ ~(b + 1 <= End(b) \div Ratio)
    BY <1>0, <1>1, <2>1, DivAtLeast
  <2>3. End(b) \div Ratio \in Nat
    BY <1>0, <1>1, DivFacts
  <2> QED
    BY <2>2, <2>3
<1>3. (End(b) + 1) % Ratio = 0
  <2> DEFINE e == End(b) + 1  k == e \div Ratio
  <2>0. e \in Nat /\ e = (b + 1) * Ratio
    BY <1>1
  <2>2. b + 1 <= k
    BY <1>0, <2>0, DivAtLeast
  <2> HIDE DEF e
  <2>1. k \in Nat /\ e % Ratio \in 0 .. (Ratio - 1) /\ e = Ratio * k + (e % Ratio)
    BY <1>0, <2>0, DivFacts
  <2> HIDE DEF k
  <2>3. (b + 1) * Ratio <= k * Ratio
    BY <1>0, <2>1, <2>2, MulMono
  <2>4. k * Ratio = Ratio * k /\ k * Ratio \in Nat
    BY <1>0, <2>1
  <2>5. e % Ratio = 0
    BY <1>0, <2>0, <2>1, <2>3, <2>4
  <2> QED
    BY <2>5 DEF e
<1> QED
  BY <1>1, <1>2, <1>3

(* Where (p + 1) % Ratio = 0, a group ends. *)
LEMMA EndsAreEnds ==
  ASSUME NEW p \in Nat, (p + 1) % Ratio = 0
  PROVE  p \div Ratio \in Nat /\ p = End(p \div Ratio)
<1>0. Ratio \in Nat \ {0}
  BY SelectAssumption
<1> DEFINE k == (p + 1) \div Ratio
<1>1. k \in Nat /\ p + 1 = Ratio * k
  BY <1>0, DivFacts
<1> HIDE DEF k
<1>2. k # 0
  BY <1>0, <1>1
<1>3. k - 1 \in Nat /\ Ratio * k = (k - 1) * Ratio + Ratio
  BY <1>0, <1>1, <1>2
<1>4. p = End(k - 1)
  BY <1>0, <1>1, <1>3 DEF End
<1>5. p \div Ratio = k - 1
  BY <1>3, <1>4, EndFacts
<1> QED
  BY <1>3, <1>4, <1>5

(* The page of a group that ends within the bound is in the table. *)
LEMMA EntryIndex ==
  ASSUME NEW b \in Nat, End(b) < MaxLen
  PROVE  /\ b \div PageSize \in Indices
         /\ b % PageSize \in 0 .. (PageSize - 1)
         /\ b = PageSize * (b \div PageSize) + (b % PageSize)
<1>0. Ratio \in Nat \ {0} /\ PageSize \in Nat \ {0} /\ MaxLen \in Nat
  BY SelectAssumption, QsaAssumption, RequestsAssumption
<1> DEFINE c == b \div PageSize  s == Ratio * PageSize
<1>1. /\ c \in Nat /\ b % PageSize \in 0 .. (PageSize - 1)
      /\ b = PageSize * c + (b % PageSize)
  BY <1>0, DivFacts
<1>2. s \in Nat \ {0}
  BY <1>0
<1>3. c * s <= MaxLen - 1
  <2> HIDE DEF c
  <2>1. c * PageSize \in Nat /\ c * PageSize <= b
    BY <1>0, <1>1
  <2>2. (c * PageSize) * Ratio <= b * Ratio
    BY <1>0, <2>1, MulMono
  <2>3. b * Ratio <= MaxLen - 1 /\ b * Ratio \in Nat
    BY <1>0 DEF End
  <2>4. (c * PageSize) * Ratio = c * s
    BY <1>0, <1>1
  <2>5. (c * PageSize) * Ratio \in Nat
    BY <1>0, <2>1
  <2> HIDE DEF s
  <2> QED
    BY <1>0, <2>2, <2>3, <2>4, <2>5
<1> HIDE DEF c, s
<1>4. (c + 1) * s <= MaxLen + s - 1
  <2>1. (c + 1) * s = c * s + s /\ c * s \in Nat
    BY <1>1, <1>2
  <2> QED
    BY <1>0, <1>2, <1>3, <2>1
<1>5. TableWidth = (MaxLen + s - 1) \div s /\ MaxLen + s - 1 \in Nat
  BY <1>0, <1>2 DEF TableWidth, s
<1>6. c + 1 <= TableWidth /\ TableWidth \in Nat
  <2>1. c + 1 <= (MaxLen + s - 1) \div s
    BY <1>1, <1>2, <1>4, <1>5, DivAtLeast
  <2>2. (MaxLen + s - 1) \div s \in Nat
    BY <1>2, <1>5, DivFacts
  <2> QED
    BY <1>5, <2>1, <2>2
<1> QED
  BY <1>1, <1>6 DEF Indices, c

(* Different groups of a request have different entries. *)
LEMMA EntriesDiffer ==
  ASSUME TypeOK, OwnedInv, NEW r \in Reqs, ringOf[r] # None,
         NEW b \in Nat, NEW c \in Nat, End(b) < MaxLen, End(c) < MaxLen,
         Entry(r, b) = Entry(r, c)
  PROVE  b = c
<1>1. /\ b \div PageSize \in Indices /\ b = PageSize * (b \div PageSize) + (b % PageSize)
      /\ c \div PageSize \in Indices /\ c = PageSize * (c \div PageSize) + (c % PageSize)
  BY EntryIndex
<1>2. table[r][b \div PageSize] = table[r][c \div PageSize] /\ b % PageSize = c % PageSize
  BY DEF Entry
<1>3. b \div PageSize = c \div PageSize
  BY <1>1, <1>2 DEF OwnedInv
<1> QED
  BY <1>1, <1>2, <1>3

(* Entries of different requests are different. *)
LEMMA EntriesOwned ==
  ASSUME TypeOK, OwnedInv, NEW r \in Reqs, NEW s \in Reqs, r # s,
         ringOf[r] # None, ringOf[s] # None,
         NEW b \in Nat, NEW c \in Nat, End(b) < MaxLen, End(c) < MaxLen
  PROVE  Entry(r, b) # Entry(s, c)
<1>1. b \div PageSize \in Indices /\ c \div PageSize \in Indices
  BY EntryIndex
<1>2. table[r][b \div PageSize] # table[s][c \div PageSize]
  BY <1>1 DEF OwnedInv
<1> QED
  BY <1>2 DEF Entry

LEMMA EntryType ==
  ASSUME TypeOK, OwnedInv, NEW r \in Reqs, ringOf[r] # None, NEW b \in Nat, End(b) < MaxLen
  PROVE  Entry(r, b) \in DOMAIN cache
<1>1. b \div PageSize \in Indices /\ b % PageSize \in 0 .. (PageSize - 1)
  BY EntryIndex
<1>2. table[r][b \div PageSize] \in Pages
  BY <1>1 DEF OwnedInv
<1> QED
  BY <1>1, <1>2 DEF TypeOK, Entries, Entry

(* The groups of the accepted tokens, and the open one. *)
LEMMA Complete ==
  ASSUME NEW m \in Nat, NEW b \in Nat
  PROVE  b \in 0 .. (m \div Ratio - 1) <=> End(b) < m
<1>0. Ratio \in Nat \ {0} /\ m \div Ratio \in Nat
  BY SelectAssumption, DivFacts
<1>1. (b + 1) * Ratio <= m <=> b + 1 <= m \div Ratio
  BY <1>0, DivAtLeast
<1>2. (b + 1) * Ratio = b * Ratio + Ratio /\ b * Ratio \in Nat
  BY <1>0
<1> QED
  BY <1>0, <1>1, <1>2 DEF End

LEMMA OpenGroup ==
  ASSUME NEW m \in Nat
  PROVE  /\ m % Ratio \in 0 .. (Ratio - 1)
         /\ m - (m % Ratio) = (m \div Ratio) * Ratio
         /\ m \div Ratio \in Nat
<1>0. Ratio \in Nat \ {0}
  BY SelectAssumption
<1>1. m \div Ratio \in Nat /\ m % Ratio \in 0 .. (Ratio - 1) /\ m = Ratio * (m \div Ratio) + (m % Ratio)
  BY <1>0, DivFacts
<1>2. Ratio * (m \div Ratio) = (m \div Ratio) * Ratio /\ Ratio * (m \div Ratio) \in Nat
  BY <1>0, <1>1
<1> QED
  BY <1>0, <1>1, <1>2

LEMMA OpenGroupMoves ==
  ASSUME NEW l \in Nat, NEW m \in Nat, l <= m
  PROVE  /\ l % Ratio \in Nat /\ m % Ratio \in Nat
         /\ l - (l % Ratio) <= m - (m % Ratio)
<1> DEFINE j == l \div Ratio  k == m \div Ratio
<1>0. Ratio \in Nat \ {0}
  BY SelectAssumption
<1>1. j \in Nat /\ k \in Nat /\ l - (l % Ratio) = j * Ratio /\ m - (m % Ratio) = k * Ratio
  BY OpenGroup
<1>2. l % Ratio \in Nat /\ m % Ratio \in Nat
  BY <1>0, DivFacts
<1>3. j * Ratio <= l
  BY <1>0, <1>1, DivAtLeast
<1>4. j * Ratio <= m
  BY <1>0, <1>1, <1>3
<1>5. j <= k
  BY <1>0, <1>1, <1>4, DivAtLeast
<1> HIDE DEF j, k
<1>6. j * Ratio <= k * Ratio
  BY <1>0, <1>1, <1>5, MulMono
<1> QED
  BY <1>1, <1>6, <1>2

-----------------------------------------------------------------------------
(* A step of a request.                                                    *)

(* What the two kinds of steps have in common. *)
Fed(r, len, acc) ==
  /\ r \in Reqs /\ len \in Nat /\ acc \in 1 .. len /\ len - acc <= NumSpec
  /\ ringOf[r] # None /\ n[r] + len <= MaxLen

LEMMA FedFacts ==
  ASSUME TypeOK, NEW r, NEW len, NEW acc, Fed(r, len, acc)
  PROVE  /\ n[r] \in Nat /\ len \in Nat /\ acc \in Nat /\ acc >= 1 /\ acc <= len
         /\ MaxLen \in Nat /\ n[r] + len <= MaxLen /\ n[r] + acc \in 0 .. MaxLen
         /\ Ratio \in Nat \ {0} /\ RingSize \in Nat \ {0} /\ NumSpec \in Nat
         /\ RingSize >= Ratio + NumSpec - 1
         /\ len - acc <= NumSpec
         /\ ringOf[r] \in Rings
<1>1. n[r] \in 0 .. MaxLen /\ ringOf[r] \in Rings
  BY DEF TypeOK, Fed
<1> QED
  BY <1>1, SelectAssumption, QsaAssumption, RequestsAssumption, RingAssumption DEF Fed

(* The rows with a compressed slot are the ends of groups. *)
LEMMA EndsFacts ==
  ASSUME TypeOK, NEW r, NEW len, NEW acc, Fed(r, len, acc), NEW p \in Ends(r, len)
  PROVE  /\ p \in Nat /\ p >= n[r] /\ p < n[r] + len /\ p < MaxLen
         /\ p \div Ratio \in Nat /\ p = End(p \div Ratio)
<1>1. p \in Nat /\ p >= n[r] /\ p < n[r] + len /\ p < MaxLen
  BY FedFacts DEF Ends
<1>2. (p + 1) % Ratio = 0
  BY DEF Ends
<1> QED
  BY <1>1, <1>2, EndsAreEnds

(* A key of the open group, from before the step, is found in the ring. *)
LEMMA RingHolds ==
  ASSUME IInv, NEW r, NEW len, NEW acc, Fed(r, len, acc),
         NEW b \in Nat, NEW q \in Nat, b * Ratio <= q, q < n[r], n[r] <= End(b)
  PROVE  ring[ringOf[r]][RingColumn(r, q)] = Key(r, n[r] + acc, q)
<1>0. TypeOK /\ RingIsHistory
  BY DEF IInv
<1>1. /\ n[r] \in Nat /\ acc \in Nat /\ Ratio \in Nat \ {0} /\ acc >= 1
  BY <1>0, FedFacts
<1>2. n[r] \div Ratio = b
  <2>1. b <= n[r] \div Ratio
    BY <1>1, DivAtLeast
  <2>2. ~(b \in 0 .. (n[r] \div Ratio - 1))
    <3>1. b \in 0 .. (n[r] \div Ratio - 1) <=> End(b) < n[r]
      BY <1>1, Complete
    <3>2. End(b) \in Nat
      BY EndFacts
    <3> QED
      BY <1>1, <3>1, <3>2
  <2>3. n[r] \div Ratio \in Nat
    BY <1>1, OpenGroup
  <2> QED
    BY <2>1, <2>2, <2>3
<1>3. n[r] - (n[r] % Ratio) = b * Ratio
  BY <1>1, <1>2, OpenGroup
<1>4. q \in (n[r] - (n[r] % Ratio)) .. (n[r] - 1)
  <2>1. b * Ratio \in Nat
    BY <1>1
  <2> QED
    BY <1>1, <1>3, <2>1
<1>5. ring[ringOf[r]][q % RingSize] = Key(r, n[r], q)
  BY <1>0, <1>4 DEF RingIsHistory, Fed
<1>6. Key(r, n[r], q) = Key(r, n[r] + acc, q)
  BY <1>1 DEF Key
<1> QED
  BY <1>5, <1>6 DEF RingColumn

(* Every group the step completes is pooled from its own keys. *)
LEMMA PooledIsGroup ==
  ASSUME IInv, NEW r, NEW len, NEW acc, Fed(r, len, acc),
         NEW b \in Nat, n[r] <= End(b)
  PROVE  Pooled(r, acc, End(b)) = Group(r, n[r] + acc, b)
<1>0. n[r] \in Nat /\ acc \in Nat /\ Ratio \in Nat \ {0}
  BY FedFacts DEF IInv
<1>1. ASSUME NEW k \in 0 .. (Ratio - 1)
      PROVE  (IF End(b) - (Ratio - 1 - k) >= n[r]
              THEN Key(r, n[r] + acc, End(b) - (Ratio - 1 - k))
              ELSE ring[ringOf[r]][RingColumn(r, End(b) - (Ratio - 1 - k))])
             = Key(r, n[r] + acc, b * Ratio + k)
  <2> DEFINE q == b * Ratio + k
  <2>1. b * Ratio \in Nat /\ q \in Nat /\ b * Ratio <= q
    BY <1>0
  <2>2. End(b) - (Ratio - 1 - k) = q
    BY <1>0, <2>1 DEF End
  <2>3. CASE q >= n[r]
    BY <2>2, <2>3
  <2>4. CASE q < n[r]
    <3>1. ring[ringOf[r]][RingColumn(r, q)] = Key(r, n[r] + acc, q)
      BY <2>1, <2>4, RingHolds
    <3> QED
      BY <1>0, <2>1, <2>2, <2>4, <3>1
  <2> QED
    BY <1>0, <2>1, <2>3, <2>4
<1> QED
  BY <1>1 DEF Pooled, Group

(* After the compression every group the rows reach has its own entry.     *)
LEMMA CacheHolds ==
  ASSUME IInv, NEW r, NEW len, NEW acc, Fed(r, len, acc),
         NEW b \in Nat, End(b) < n[r] + len
  PROVE  Compressed(r, len, acc)[Entry(r, b)] = Group(r, n[r] + acc, b)
<1>0. /\ TypeOK /\ OwnedInv /\ GroupsAreHistory
      /\ r \in Reqs /\ ringOf[r] # None
  BY DEF IInv, Fed
<1>1. /\ n[r] \in Nat /\ acc \in Nat /\ len \in Nat /\ Ratio \in Nat \ {0}
      /\ MaxLen \in Nat /\ n[r] + len <= MaxLen
  BY <1>0, FedFacts
<1>2. End(b) \in Nat /\ End(b) < MaxLen /\ End(b) \div Ratio = b /\ (End(b) + 1) % Ratio = 0
  BY <1>1, EndFacts
<1>3. Entry(r, b) \in DOMAIN cache
  BY <1>0, <1>2, EntryType
<1>4. \A x \in Ends(r, len) : Entry(r, x \div Ratio) = Entry(r, b) => x = End(b)
  <2> SUFFICES ASSUME NEW x \in Ends(r, len), Entry(r, x \div Ratio) = Entry(r, b)
               PROVE  x = End(b)
    OBVIOUS
  <2>1. x \div Ratio \in Nat /\ x = End(x \div Ratio) /\ x < MaxLen
    BY <1>0, EndsFacts
  <2>2. x \div Ratio = b
    BY <1>0, <1>2, <2>1, EntriesDiffer
  <2> QED
    BY <2>1, <2>2
<1>5. CASE n[r] <= End(b)
  <2>1. End(b) \in Ends(r, len)
    BY <1>1, <1>2, <1>5 DEF Ends
  <2>2. (CHOOSE x \in Ends(r, len) : Entry(r, b) = Entry(r, x \div Ratio)) = End(b)
    BY <1>2, <1>4, <2>1
  <2>3. \E x \in Ends(r, len) : Entry(r, b) = Entry(r, x \div Ratio)
    BY <1>2, <2>1
  <2>4. Compressed(r, len, acc)[Entry(r, b)] = Pooled(r, acc, End(b))
    BY <1>3, <2>2, <2>3 DEF Compressed
  <2> QED
    BY <1>5, <2>4, PooledIsGroup
<1>6. CASE End(b) < n[r]
  <2>1. ~\E x \in Ends(r, len) : Entry(r, b) = Entry(r, x \div Ratio)
    <3> SUFFICES ASSUME NEW x \in Ends(r, len), Entry(r, b) = Entry(r, x \div Ratio)
                 PROVE  FALSE
      OBVIOUS
    <3>1. x = End(b) /\ x >= n[r] /\ x \in Nat
      BY <1>0, <1>4, EndsFacts
    <3> QED
      BY <1>1, <1>6, <3>1
  <2>2. Compressed(r, len, acc)[Entry(r, b)] = cache[Entry(r, b)]
    BY <1>3, <2>1 DEF Compressed
  <2>3. cache[Entry(r, b)] = Group(r, n[r], b)
    BY <1>0, <1>1, <1>6, Complete DEF GroupsAreHistory
  <2>4. Group(r, n[r], b) = Group(r, n[r] + acc, b)
    <3>1. \A k \in 0 .. (Ratio - 1) : b * Ratio + k < n[r] /\ b * Ratio + k \in Nat
      <4>1. b * Ratio \in Nat
        BY <1>1
      <4> QED
        BY <1>1, <1>6, <4>1 DEF End
    <3> QED
      BY <1>1, <3>1 DEF Group, Key
  <2> QED
    BY <2>2, <2>3, <2>4
<1> QED
  BY <1>1, <1>2, <1>5, <1>6

(* The entries of other requests stay. *)
LEMMA CacheKeeps ==
  ASSUME IInv, NEW r, NEW len, NEW acc, Fed(r, len, acc),
         NEW s \in Reqs, s # r, ringOf[s] # None, NEW b \in Nat, End(b) < MaxLen
  PROVE  Compressed(r, len, acc)[Entry(s, b)] = cache[Entry(s, b)]
<1>0. TypeOK /\ OwnedInv /\ r \in Reqs /\ ringOf[r] # None
  BY DEF IInv, Fed
<1>1. Entry(s, b) \in DOMAIN cache
  BY <1>0, EntryType
<1>2. ~\E x \in Ends(r, len) : Entry(s, b) = Entry(r, x \div Ratio)
  <2> SUFFICES ASSUME NEW x \in Ends(r, len) PROVE Entry(s, b) # Entry(r, x \div Ratio)
    OBVIOUS
  <2>1. x \div Ratio \in Nat /\ End(x \div Ratio) < MaxLen
    BY <1>0, EndsFacts
  <2> QED
    BY <1>0, <2>1, EntriesOwned
<1> QED
  BY <1>1, <1>2 DEF Compressed

(***************************************************************************)
(* After the raw keys are stored, the ring holds the open group of the     *)
(* accepted tokens: a rejected row lies less than a ring behind it.        *)
(***************************************************************************)
LEMMA RingStoredHolds ==
  ASSUME IInv, NEW r, NEW len, NEW acc, Fed(r, len, acc),
         NEW m, m = n[r] + acc, NEW p \in Nat, p < m, p >= m - (m % Ratio)
  PROVE  RingStored(r, len, acc)[ringOf[r]][p % RingSize] = Key(r, m, p)
<1>0. TypeOK /\ RingIsHistory /\ r \in Reqs
  BY DEF IInv, Fed
<1>1. /\ n[r] \in Nat /\ len \in Nat /\ acc \in Nat /\ acc >= 1 /\ acc <= len
      /\ m \in Nat /\ Ratio \in Nat \ {0} /\ RingSize \in Nat \ {0} /\ NumSpec \in Nat
      /\ RingSize >= Ratio + NumSpec - 1 /\ len - acc <= NumSpec /\ ringOf[r] \in Rings
  BY <1>0, FedFacts
<1> DEFINE i == p % RingSize
           rows == {x \in n[r] .. (n[r] + len - 1) :
                      x >= n[r] + len - RingSize /\ RingColumn(r, x) = i}
<1>2. i \in 0 .. (RingSize - 1)
  BY <1>1, DivFacts
<1>3. m % Ratio \in 0 .. (Ratio - 1) /\ p >= m - Ratio + 1
  <2>1. m % Ratio \in 0 .. (Ratio - 1)
    BY <1>1, OpenGroup
  <2> QED
    BY <1>1, <2>1
<1>4. RingStored(r, len, acc)[ringOf[r]][i] =
        IF rows = {} THEN ring[ringOf[r]][i] ELSE Key(r, m, Max(rows))
  <2> HIDE DEF i
  <2> QED
    BY <1>0, <1>1, <1>2 DEF RingStored, TypeOK
<1>5. \A x \in rows : x = p
  <2> SUFFICES ASSUME NEW x \in rows PROVE x = p
    OBVIOUS
  <2>1. /\ x \in Nat /\ x >= n[r] + len - RingSize /\ x <= n[r] + len - 1
        /\ x % RingSize = p % RingSize
    BY <1>1 DEF RingColumn
  <2>2. x < p + RingSize
    BY <1>1, <1>3, <2>1
  <2>3. p < x + RingSize
    BY <1>1, <2>1
  <2>4. ~(p < x) /\ ~(x < p)
    BY <1>1, <2>1, <2>2, <2>3, Columns
  <2> QED
    BY <2>1, <2>4
<1>6. CASE p >= n[r]
  <2>1. p \in rows
    BY <1>1, <1>3, <1>6 DEF RingColumn
  <2>2. rows = {p}
    BY <1>5, <2>1
  <2>3. Max({p}) = p
    BY DEF Max
  <2> QED
    BY <1>4, <2>2, <2>3
<1>7. CASE p < n[r]
  <2>1. rows = {}
    BY <1>1, <1>5, <1>7
  <2>2. p >= n[r] - (n[r] % Ratio)
    <3>0. m \in Nat /\ n[r] <= m /\ p >= m - (m % Ratio)
      BY <1>1
    <3>1. /\ n[r] % Ratio \in Nat /\ m % Ratio \in Nat
          /\ n[r] - (n[r] % Ratio) <= m - (m % Ratio)
      BY <1>1, <3>0, OpenGroupMoves
    <3> QED
      BY <1>1, <3>0, <3>1
  <2>3. p \in (n[r] - (n[r] % Ratio)) .. (n[r] - 1)
    <3>1. n[r] % Ratio \in 0 .. (Ratio - 1)
      BY <1>1, OpenGroup
    <3> QED
      BY <1>1, <1>7, <2>2, <3>1
  <2>4. ring[ringOf[r]][i] = Key(r, n[r], p)
    BY <1>0, <2>3 DEF RingIsHistory
  <2>5. Key(r, n[r], p) = Key(r, m, p)
    BY <1>1, <1>7 DEF Key
  <2> QED
    BY <1>4, <2>1, <2>4, <2>5
<1> QED
  BY <1>1, <1>6, <1>7

-----------------------------------------------------------------------------
(* Each action preserves the invariant.                                    *)

LEMMA VisibleIsPast ==
  ASSUME NEW q \in Nat, NEW s \in Nat, q < s
  PROVE  Visible(q, s) = (q + 1) \div Ratio /\ Visible(q, s) \in Nat
<1>0. Ratio \in Nat \ {0}
  BY SelectAssumption
<1> DEFINE j == (q + 1) \div Ratio  k == s \div Ratio
<1>1. j \in Nat /\ k \in Nat
  BY <1>0, DivFacts
<1>2. j * Ratio <= q + 1
  BY <1>0, <1>1, DivAtLeast
<1>3. j * Ratio <= s
  BY <1>0, <1>1, <1>2
<1>4. j <= k
  BY <1>0, <1>1, <1>3, DivAtLeast
<1>5. Visible(q, s) = Least(j, k)
  BY DEF Visible
<1> HIDE DEF j, k
<1> QED
  BY <1>1, <1>4, <1>5 DEF Least, j

LEMMA KeyType ==
  ASSUME NEW r \in Reqs, NEW p \in 0 .. (MaxLen - 1), NEW m \in Nat
  PROVE  Key(r, m, p) \in Keys
<1>1. \A a \in BOOLEAN : <<r, p, a>> \in Keys
  BY DEF Keys
<1>2. (p < m) \in BOOLEAN
  OBVIOUS
<1> QED
  BY <1>1, <1>2 DEF Key

LEMMA StepInv ==
  ASSUME IInv, NEW r, NEW len, NEW acc, Fed(r, len, acc), Step(r, len, acc)
  PROVE  IInv'
<1>0. /\ TypeOK /\ OwnedInv /\ RingIsHistory /\ GroupsAreHistory
      /\ r \in Reqs /\ ringOf[r] # None
  BY DEF IInv, Fed
<1>1. /\ n[r] \in Nat /\ len \in Nat /\ acc \in Nat /\ acc >= 1 /\ acc <= len
      /\ MaxLen \in Nat /\ n[r] + len <= MaxLen /\ n[r] + acc \in 0 .. MaxLen
      /\ Ratio \in Nat \ {0} /\ RingSize \in Nat \ {0}
  BY <1>0, FedFacts
<1>2. /\ n' = [n EXCEPT ![r] = n[r] + acc]
      /\ ring' = RingStored(r, len, acc) /\ cache' = Compressed(r, len, acc)
      /\ ringOf' = ringOf /\ table' = table
  BY DEF Step
<1>3. n'[r] = n[r] + acc /\ \A s \in Reqs : s # r => n'[s] = n[s]
  BY <1>0, <1>2 DEF TypeOK
<1>4. OwnedInv'
  BY <1>0, <1>1, <1>2, <1>3 DEF OwnedInv
<1>5. RingIsHistory'
  <2> SUFFICES ASSUME NEW s \in Reqs, NEW p \in (n'[s] - (n'[s] % Ratio)) .. (n'[s] - 1)
               PROVE  ring'[ringOf[s]][p % RingSize] = Key(s, n'[s], p)
    BY <1>2 DEF RingIsHistory, Key
  <2>0. n'[s] \in Nat
    BY <1>0, <1>1, <1>3 DEF TypeOK
  <2>1. /\ n'[s] % Ratio \in 0 .. (Ratio - 1) /\ n'[s] - (n'[s] % Ratio) \in Nat
        /\ p \in Nat /\ p < n'[s] /\ p >= n'[s] - (n'[s] % Ratio)
    <3>1. /\ n'[s] % Ratio \in 0 .. (Ratio - 1)
          /\ n'[s] - (n'[s] % Ratio) = (n'[s] \div Ratio) * Ratio
          /\ n'[s] \div Ratio \in Nat
      BY <2>0, OpenGroup
    <3> DEFINE first == n'[s] - (n'[s] % Ratio)
               next  == n'[s]
    <3>2. n'[s] - (n'[s] % Ratio) \in Nat
      BY <1>1, <3>1
    <3>3. first \in Nat /\ next \in Nat /\ p \in first .. (next - 1)
      BY <2>0, <3>2
    <3> HIDE DEF first, next
    <3>4. p \in Nat /\ p < next /\ p >= first
      BY <3>3
    <3> QED
      BY <3>1, <3>2, <3>4 DEF first, next
  <2>2. CASE s = r
    <3>1. n'[s] = n[r] + acc
      BY <1>3, <2>2
    <3> QED
      BY <1>2, <2>1, <2>2, <3>1, RingStoredHolds
  <2>3. CASE s # r
    <3>1. n'[s] = n[s] /\ n[s] # 0
      BY <1>3, <2>0, <2>1, <2>3
    <3>2. ringOf[s] # None /\ ringOf[s] # ringOf[r]
      BY <1>0, <2>3, <3>1 DEF OwnedInv
    <3>3. ring'[ringOf[s]] = ring[ringOf[s]]
      BY <1>0, <1>2, <3>2 DEF RingStored, TypeOK
    <3>4. ring[ringOf[s]][p % RingSize] = Key(s, n[s], p)
      BY <1>0, <3>1 DEF RingIsHistory
    <3> QED
      BY <3>1, <3>3, <3>4
  <2> QED
    BY <2>2, <2>3
<1>6. GroupsAreHistory'
  <2> SUFFICES ASSUME NEW s \in Reqs, NEW b \in 0 .. (n'[s] \div Ratio - 1)
               PROVE  cache'[Entry(s, b)] = Group(s, n'[s], b)
    BY <1>2 DEF GroupsAreHistory, Group, Key, Entry
  <2>0. n'[s] \in Nat /\ n'[s] <= MaxLen
    BY <1>0, <1>1, <1>3 DEF TypeOK
  <2>1. n'[s] \div Ratio \in Nat
    BY <1>1, <2>0, DivFacts
  <2>2. b \in Nat
    BY <2>1
  <2>3. End(b) < n'[s] /\ End(b) \in Nat
    BY <2>0, <2>2, Complete, EndFacts
  <2>4. CASE s = r
    <3>1. End(b) < n[r] + len
      BY <1>1, <1>3, <2>3, <2>4
    <3> QED
      BY <1>2, <1>3, <2>2, <2>4, <3>1, CacheHolds
  <2>5. CASE s # r
    <3>1. n'[s] = n[s] /\ n[s] # 0
      BY <1>3, <2>0, <2>3, <2>5
    <3>2. ringOf[s] # None
      BY <1>0, <3>1 DEF OwnedInv
    <3>3. End(b) < MaxLen
      BY <1>1, <2>0, <2>3
    <3>4. cache'[Entry(s, b)] = cache[Entry(s, b)]
      BY <1>2, <2>2, <2>5, <3>2, <3>3, CacheKeeps
    <3>5. cache[Entry(s, b)] = Group(s, n[s], b)
      BY <1>0, <3>1 DEF GroupsAreHistory
    <3> QED
      BY <3>1, <3>4, <3>5
  <2> QED
    BY <2>4, <2>5
<1>7. QueriesSeeTheirPast'
  <2> DEFINE seen == [q \in n[r] .. (n[r] + len - 1) |->
                        [b \in 0 .. (Visible(q, n[r] + len) - 1) |-> cache'[Entry(r, b)]]]
  <2>1. /\ step'.seen = seen /\ step'.r = r /\ step'.from = n[r] /\ step'.acc = acc
    BY DEF Step
  <2>2. ASSUME NEW q \in DOMAIN seen
        PROVE  /\ DOMAIN seen[q] = 0 .. ((q + 1) \div Ratio - 1)
               /\ \A b \in DOMAIN seen[q] : seen[q][b] = Group(r, n[r] + acc, b)
    <3>1. q \in Nat /\ q < n[r] + len /\ q \in n[r] .. (n[r] + len - 1)
      BY <1>1
    <3>2. n[r] + len \in Nat /\ q + 1 \in Nat
      BY <1>1, <3>1
    <3>3. Visible(q, n[r] + len) = (q + 1) \div Ratio /\ Visible(q, n[r] + len) \in Nat
      BY <3>1, <3>2, VisibleIsPast
    <3>4. seen[q] = [b \in 0 .. ((q + 1) \div Ratio - 1) |-> cache'[Entry(r, b)]]
      BY <3>1, <3>3
    <3>5. ASSUME NEW b \in 0 .. ((q + 1) \div Ratio - 1)
          PROVE  cache'[Entry(r, b)] = Group(r, n[r] + acc, b)
      <4>1. b \in Nat
        BY <3>3
      <4>2. End(b) < q + 1 /\ End(b) \in Nat
        BY <3>2, <4>1, Complete, EndFacts
      <4>3. End(b) < n[r] + len
        BY <1>1, <3>1, <4>2
      <4> QED
        BY <1>2, <4>1, <4>3, CacheHolds
    <3> QED
      BY <3>4, <3>5
  <2> HIDE DEF seen
  <2>3. \A q \in DOMAIN step'.seen :
          /\ DOMAIN step'.seen[q] = 0 .. ((q + 1) \div Ratio - 1)
          /\ \A b \in DOMAIN step'.seen[q] :
               step'.seen[q][b] = Group(step'.r, step'.from + step'.acc, b)
    BY <2>1, <2>2
  <2> QED
    BY <2>3 DEF QueriesSeeTheirPast, Group, Key
<1>8. TypeOK'
  <2>1. n' \in [Reqs -> 0 .. MaxLen]
    BY <1>0, <1>1, <1>2 DEF TypeOK
  <2>2. \A p \in n[r] .. (n[r] + len - 1), m \in Nat : Key(r, m, p) \in Keys
    <3> SUFFICES ASSUME NEW p \in n[r] .. (n[r] + len - 1), NEW m \in Nat
                 PROVE  Key(r, m, p) \in Keys
      OBVIOUS
    <3>1. p \in 0 .. (MaxLen - 1)
      BY <1>1
    <3> QED
      BY <1>0, <3>1, KeyType
  <2>3. ring' \in [Rings -> [0 .. (RingSize - 1) -> Keys \cup {None}]]
    <3> DEFINE rows(i) == {p \in n[r] .. (n[r] + len - 1) :
                             p >= n[r] + len - RingSize /\ RingColumn(r, p) = i}
               old == ring[ringOf[r]]
               new == [i \in 0 .. (RingSize - 1) |->
                         IF rows(i) = {} THEN old[i] ELSE Key(r, n[r] + acc, Max(rows(i)))]
    <3>1. ringOf[r] \in Rings /\ old \in [0 .. (RingSize - 1) -> Keys \cup {None}]
      BY <1>0, FedFacts DEF TypeOK
    <3>2. ASSUME NEW i \in 0 .. (RingSize - 1), rows(i) # {}
          PROVE  Max(rows(i)) \in n[r] .. (n[r] + len - 1)
      <4>1. \A p, q \in rows(i) : p = q
        <5> SUFFICES ASSUME NEW p \in rows(i), NEW q \in rows(i) PROVE p = q
          OBVIOUS
        <5>1. /\ p \in Nat /\ q \in Nat /\ p < q + RingSize /\ q < p + RingSize
              /\ p % RingSize = q % RingSize
          BY <1>1 DEF RingColumn
        <5>2. ~(p < q) /\ ~(q < p)
          BY <1>1, <5>1, Columns
        <5> QED
          BY <5>1, <5>2
      <4>2. PICK p \in rows(i) : TRUE
        BY <3>2
      <4>3. rows(i) = {p} /\ p \in n[r] .. (n[r] + len - 1) /\ p \in Int
        BY <4>1, <4>2
      <4>4. Max({p}) = p
        BY <4>3 DEF Max
      <4> QED
        BY <4>3, <4>4
    <3>3. ring' = [ring EXCEPT ![ringOf[r]] = new]
      BY <1>2 DEF RingStored
    <3> HIDE DEF rows, old
    <3>4. new \in [0 .. (RingSize - 1) -> Keys \cup {None}]
      BY <1>1, <2>2, <3>1, <3>2
    <3> HIDE DEF new
    <3> QED
      BY <1>0, <3>3, <3>4 DEF TypeOK
  <2>4. cache' \in [Entries -> [0 .. (Ratio - 1) -> Keys \cup {None}] \cup {None}]
    <3>1. DOMAIN cache = Entries
      BY <1>0 DEF TypeOK
    <3>2. \A p \in Ends(r, len) : Pooled(r, acc, p) \in [0 .. (Ratio - 1) -> Keys \cup {None}]
      <4> SUFFICES ASSUME NEW p \in Ends(r, len)
                   PROVE  Pooled(r, acc, p) \in [0 .. (Ratio - 1) -> Keys \cup {None}]
        OBVIOUS
      <4>1. p \in Nat /\ p >= n[r] /\ p < n[r] + len /\ p \div Ratio \in Nat /\ p = End(p \div Ratio)
        BY <1>0, EndsFacts
      <4>2. Pooled(r, acc, p) = Group(r, n[r] + acc, p \div Ratio)
        BY <4>1, PooledIsGroup
      <4>3. \A k \in 0 .. (Ratio - 1) :
              (p \div Ratio) * Ratio + k \in 0 .. (MaxLen - 1)
        <5> DEFINE g == p \div Ratio
        <5>1. g * Ratio \in Nat /\ p = g * Ratio + Ratio - 1
          BY <1>1, <4>1 DEF End
        <5> HIDE DEF g
        <5>2. \A k \in 0 .. (Ratio - 1) : g * Ratio + k \in 0 .. (MaxLen - 1)
          BY <1>1, <4>1, <5>1
        <5> QED
          BY <5>2 DEF g
      <4>4. \A k \in 0 .. (Ratio - 1) :
              Key(r, n[r] + acc, (p \div Ratio) * Ratio + k) \in Keys
        <5>1. \A x \in 0 .. (MaxLen - 1), m \in Nat : Key(r, m, x) \in Keys
          BY <1>0, KeyType
        <5>2. n[r] + acc \in Nat
          BY <1>1
        <5> QED
          BY <4>3, <5>1, <5>2
      <4> QED
        BY <4>2, <4>4 DEF Group
    <3>3. \A e \in Entries : (\E p \in Ends(r, len) : e = Entry(r, p \div Ratio)) =>
            (CHOOSE p \in Ends(r, len) : e = Entry(r, p \div Ratio)) \in Ends(r, len)
      OBVIOUS
    <3>4. \A e \in Entries : cache'[e] \in [0 .. (Ratio - 1) -> Keys \cup {None}] \cup {None}
      BY <1>0, <1>2, <3>1, <3>2, <3>3 DEF Compressed, TypeOK
    <3>5. cache' = [e \in Entries |-> cache'[e]]
      BY <1>2, <3>1 DEF Compressed
    <3> QED
      BY <3>4, <3>5
  <2> QED
    BY <1>0, <1>2, <2>1, <2>3, <2>4 DEF TypeOK
<1> QED
  BY <1>4, <1>5, <1>6, <1>7, <1>8 DEF IInv

LEMMA PrefillInv ==
  ASSUME IInv, NEW r \in Reqs, Prefill(r)
  PROVE  IInv'
<1>1. PICK len \in 1 .. MaxChunk : Step(r, len, len)
  BY DEF Prefill
<1>2. len \in Nat /\ len \in 1 .. len /\ len - len <= NumSpec
  BY QsaAssumption, RequestsAssumption
<1>3. Fed(r, len, len)
  BY <1>1, <1>2 DEF Fed, Step
<1> QED
  BY <1>1, <1>3, StepInv

LEMMA DecodeInv ==
  ASSUME IInv, NEW r \in Reqs, Decode(r)
  PROVE  IInv'
<1>a. PICK len \in 1 .. (NumSpec + 1) : \E acc \in 1 .. len : Step(r, len, acc)
  BY DEF Decode
<1>1. PICK acc \in 1 .. len : Step(r, len, acc)
  BY <1>a
<1>2. len \in Nat /\ len - acc <= NumSpec
  BY <1>a, <1>1, QsaAssumption, RequestsAssumption
<1>3. Fed(r, len, acc)
  BY <1>1, <1>2 DEF Fed, Step
<1> QED
  BY <1>1, <1>3, StepInv

(* A request without tokens makes no claim on ring and pages. *)
LEMMA NoTokens ==
  /\ (0 - (0 % Ratio)) .. (0 - 1) = {}
  /\ 0 .. (0 \div Ratio - 1) = {}
<1>0. Ratio \in Nat \ {0}
  BY SelectAssumption
<1>1. /\ 0 \div Ratio \in Nat /\ 0 % Ratio \in 0 .. (Ratio - 1)
      /\ 0 = Ratio * (0 \div Ratio) + (0 % Ratio)
  BY <1>0, DivFacts
<1>2. 0 \div Ratio = 0 /\ 0 % Ratio = 0
  BY <1>0, Z3
<1> QED
  BY <1>2

LEMMA AdmitInv ==
  ASSUME IInv, NEW r \in Reqs, Admit(r)
  PROVE  IInv'
<1>0. /\ TypeOK /\ OwnedInv /\ RingIsHistory /\ GroupsAreHistory /\ QueriesSeeTheirPast
  BY DEF IInv
<1>1. /\ ringOf[r] = None /\ n[r] = 0 /\ UNCHANGED <<n, ring, cache, step>>
  BY <1>0 DEF Admit, OwnedInv
<1>2. PICK b \in Rings : (\A q \in Reqs : ringOf[q] # b) /\ ringOf' = [ringOf EXCEPT ![r] = b]
  BY DEF Admit
<1>3. PICK t \in [Indices -> Pages] :
        /\ \A i, j \in Indices : t[i] = t[j] => i = j
        /\ \A q \in Reqs, i \in Indices : ringOf[q] # None =>
             \A j \in DOMAIN table[q] : table[q][j] # t[i]
        /\ table' = [table EXCEPT ![r] = t]
  BY DEF Admit, Indices
<1>4. /\ ringOf'[r] = b /\ b # None /\ table'[r] = t
      /\ \A q \in Reqs : q # r => ringOf'[q] = ringOf[q] /\ table'[q] = table[q]
  BY <1>0, <1>1, <1>2, <1>3 DEF TypeOK
<1>5. TypeOK'
  BY <1>0, <1>1, <1>2, <1>3 DEF TypeOK
<1>6. OwnedInv'
  <2>1. \A q \in Reqs : ringOf[q] # None => DOMAIN table[q] = Indices
    BY <1>0 DEF OwnedInv
  <2>2. ASSUME NEW q \in Reqs, ringOf'[q] = None PROVE n'[q] = 0
    BY <1>0, <1>1, <1>4, <2>2 DEF OwnedInv
  <2>3. ASSUME NEW q \in Reqs, ringOf'[q] # None
        PROVE  /\ table'[q] \in [Indices -> Pages]
               /\ \A i, j \in Indices : table'[q][i] = table'[q][j] => i = j
    BY <1>0, <1>3, <1>4, <2>3 DEF OwnedInv
  <2>4. ASSUME NEW q \in Reqs, NEW s \in Reqs, q # s, ringOf'[q] # None, ringOf'[s] # None
        PROVE  /\ ringOf'[q] # ringOf'[s]
               /\ \A i, j \in Indices : table'[q][i] # table'[s][j]
    <3>1. CASE q # r /\ s # r
      BY <1>0, <1>4, <2>4, <3>1 DEF OwnedInv
    <3>2. CASE q = r
      BY <1>2, <1>3, <1>4, <2>1, <2>4, <3>2
    <3>3. CASE s = r
      BY <1>2, <1>3, <1>4, <2>1, <2>4, <3>3
    <3> QED
      BY <3>1, <3>2, <3>3
  <2> QED
    BY <2>2, <2>3, <2>4 DEF OwnedInv
<1>7. RingIsHistory'
  <2> SUFFICES ASSUME NEW s \in Reqs, NEW p \in (n[s] - (n[s] % Ratio)) .. (n[s] - 1)
               PROVE  ring[ringOf'[s]][p % RingSize] = Key(s, n[s], p)
    BY <1>1 DEF RingIsHistory, Key
  <2>1. s # r
    BY <1>1, NoTokens
  <2> QED
    BY <1>0, <1>4, <2>1 DEF RingIsHistory
<1>8. GroupsAreHistory'
  <2> SUFFICES ASSUME NEW s \in Reqs, NEW c \in 0 .. (n[s] \div Ratio - 1)
               PROVE  cache[<<table'[s][c \div PageSize], c % PageSize>>] = Group(s, n[s], c)
    BY <1>1 DEF GroupsAreHistory, Group, Key, Entry
  <2>1. s # r
    BY <1>1, NoTokens
  <2> QED
    BY <1>0, <1>4, <2>1 DEF GroupsAreHistory, Entry
<1>9. QueriesSeeTheirPast'
  BY <1>0, <1>1 DEF QueriesSeeTheirPast, Group, Key
<1> QED
  BY <1>5, <1>6, <1>7, <1>8, <1>9 DEF IInv

LEMMA ReleaseInv ==
  ASSUME IInv, NEW r \in Reqs, Release(r)
  PROVE  IInv'
<1>0. /\ TypeOK /\ OwnedInv /\ RingIsHistory /\ GroupsAreHistory
  BY DEF IInv
<1>1. /\ ringOf' = [ringOf EXCEPT ![r] = None] /\ table' = [table EXCEPT ![r] = None]
      /\ n' = [n EXCEPT ![r] = 0] /\ step' = NoStep
      /\ UNCHANGED <<ring, cache>>
  BY DEF Release
<1>2. /\ ringOf'[r] = None /\ n'[r] = 0
      /\ \A q \in Reqs : q # r =>
           ringOf'[q] = ringOf[q] /\ table'[q] = table[q] /\ n'[q] = n[q]
  BY <1>0, <1>1 DEF TypeOK
<1>3. TypeOK'
  BY <1>0, <1>1, QsaAssumption, RequestsAssumption DEF TypeOK
<1>4. OwnedInv'
  BY <1>0, <1>2 DEF OwnedInv
<1>5. RingIsHistory'
  <2> SUFFICES ASSUME NEW s \in Reqs, NEW p \in (n'[s] - (n'[s] % Ratio)) .. (n'[s] - 1)
               PROVE  ring[ringOf'[s]][p % RingSize] = Key(s, n'[s], p)
    BY <1>1 DEF RingIsHistory, Key
  <2>1. CASE s # r
    BY <1>0, <1>2, <2>1 DEF RingIsHistory
  <2>2. CASE s = r
    BY <1>2, <2>2, NoTokens
  <2> QED
    BY <2>1, <2>2
<1>6. GroupsAreHistory'
  <2> SUFFICES ASSUME NEW s \in Reqs, NEW c \in 0 .. (n'[s] \div Ratio - 1)
               PROVE  cache[<<table'[s][c \div PageSize], c % PageSize>>] = Group(s, n'[s], c)
    BY <1>1 DEF GroupsAreHistory, Group, Key, Entry
  <2>1. CASE s # r
    BY <1>0, <1>2, <2>1 DEF GroupsAreHistory, Entry
  <2>2. CASE s = r
    BY <1>2, <2>2, NoTokens
  <2> QED
    BY <2>1, <2>2
<1>7. QueriesSeeTheirPast'
  <2>1. step'.seen = <<>>
    BY <1>1 DEF NoStep
  <2> QED
    BY <2>1 DEF QueriesSeeTheirPast
<1> QED
  BY <1>3, <1>4, <1>5, <1>6, <1>7 DEF IInv

-----------------------------------------------------------------------------
(* The invariant. *)

LEMMA InitInv == Init => IInv
<1> SUFFICES ASSUME Init PROVE IInv
  OBVIOUS
<1>1. \A r \in Reqs : n[r] = 0 /\ ringOf[r] = None
  BY DEF Init
<1>2. TypeOK
  BY QsaAssumption, RequestsAssumption DEF Init, TypeOK, Entries
<1>3. OwnedInv
  BY <1>1 DEF OwnedInv
<1>4. RingIsHistory /\ GroupsAreHistory
  BY <1>1, NoTokens DEF RingIsHistory, GroupsAreHistory
<1>5. QueriesSeeTheirPast
  BY DEF Init, NoStep, QueriesSeeTheirPast
<1> QED
  BY <1>2, <1>3, <1>4, <1>5 DEF IInv

LEMMA NextInv == IInv /\ [Next]_vars => IInv'
<1> SUFFICES ASSUME IInv, [Next]_vars PROVE IInv'
  OBVIOUS
<1>1. CASE Next
  BY <1>1, PrefillInv, DecodeInv, AdmitInv, ReleaseInv DEF Next
<1>2. CASE UNCHANGED vars
  BY <1>2 DEF vars, IInv, TypeOK, OwnedInv, RingIsHistory, GroupsAreHistory,
              QueriesSeeTheirPast, Group, Key, Entry
<1> QED
  BY <1>1, <1>2

(***************************************************************************)
(* The inductive invariant holds in every reachable state of the ring and  *)
(* the pages, for any group size, ring, pages, chunks and drafts.          *)
(***************************************************************************)
THEOREM Inductive == Spec => []IInv
<1> QED
  BY InitInv, NextInv, PTL DEF Spec

(***************************************************************************)
(* A ring of Ratio + NumSpec - 1 columns keeps the open group from being   *)
(* overwritten by drafts: what qsa_compress_groups_with_ratio relies on.   *)
(***************************************************************************)
THEOREM RingsAreHistories == Spec => []RingIsHistory
<1>1. IInv => RingIsHistory
  BY DEF IInv
<1> QED
  BY <1>1, Inductive, PTL

(***************************************************************************)
(* Every pooled group of the accepted tokens is pooled from its own keys.  *)
(***************************************************************************)
THEOREM GroupsAreHistories == Spec => []GroupsAreHistory
<1>1. IInv => GroupsAreHistory
  BY DEF IInv
<1> QED
  BY <1>1, Inductive, PTL

(***************************************************************************)
(* The groups a query scores are all those of its own past.                *)
(***************************************************************************)
THEOREM PastIsSeen == Spec => []QueriesSeeTheirPast
<1>1. IInv => QueriesSeeTheirPast
  BY DEF IInv
<1> QED
  BY <1>1, Inductive, PTL

-----------------------------------------------------------------------------
(* The tiles that are read.                                                *)

LEMMA LeastNat ==
  ASSUME NEW T \in SUBSET Nat, T # {}
  PROVE  \E x \in T : \A y \in T : x <= y
<1>1. IsWellFoundedOn(OpToRel(<, Nat), Nat)
  BY NatLessThanWellFounded
<1>2. PICK x \in T : \A y \in T : ~(<<y, x>> \in OpToRel(<, Nat))
  BY <1>1, WFMin
<1>3. \A y \in T : ~(y < x) /\ y \in Nat /\ x \in Nat
  BY <1>2 DEF OpToRel
<1>4. \A y \in T : x <= y
  BY <1>3
<1> QED
  BY <1>4

(* A bounded set of numbers has a maximum. *)
LEMMA MaxOfBounded ==
  ASSUME NEW S \in SUBSET Nat, S # {}, NEW bound \in Nat, \A y \in S : y <= bound
  PROVE  Max(S) \in S /\ \A y \in S : y <= Max(S)
<1> DEFINE Above == {m \in Nat : \A y \in S : y <= m}
<1>1. PICK m \in Above : \A k \in Above : m <= k
  <2>1. Above \in SUBSET Nat /\ bound \in Above
    OBVIOUS
  <2> HIDE DEF Above
  <2> QED
    BY <2>1, LeastNat
<1>2. m \in S
  <2> SUFFICES ASSUME m \notin S PROVE FALSE
    OBVIOUS
  <2>1. \A y \in S : y < m /\ y <= m - 1
    BY <1>1
  <2>2. m - 1 \in Nat
    <3>1. PICK y \in S : TRUE
      OBVIOUS
    <3>2. y \in Nat /\ m \in Nat /\ y < m
      BY <1>1, <2>1, <3>1
    <3> QED
      BY <3>2
  <2>3. m - 1 \in Above /\ ~(m <= m - 1)
    BY <1>1, <2>1, <2>2
  <2> QED
    BY <1>1, <2>3
<1>3. \E x \in S : \A y \in S : x >= y
  BY <1>1, <1>2
<1>4. Max(S) \in S /\ \A y \in S : Max(S) >= y
  BY <1>3 DEF Max
<1> QED
  BY <1>4

(* The recursion of ShiftedOne. *)
ShiftStep(m, f) == [i \in 0 .. m |-> IF i = 0 THEN 1 ELSE 2 * f[i - 1]]

LEMMA ShiftExists == \A m \in Nat : \E f : f = ShiftStep(m, f)
<1> DEFINE Bad == {m \in Nat : ~(\E f : f = ShiftStep(m, f))}
<1>1. SUFFICES ASSUME Bad # {} PROVE FALSE
  OBVIOUS
<1>2. PICK m \in Bad : \A k \in Bad : m <= k
  BY <1>1, LeastNat
<1>3. m # 0
  <2> DEFINE f == [i \in 0 .. 0 |-> 1]
  <2>1. f = ShiftStep(0, f)
    BY DEF ShiftStep
  <2> QED
    BY <1>2, <2>1
<1>4. PICK f : f = ShiftStep(m - 1, f)
  <2>1. m - 1 \in Nat /\ m - 1 \notin Bad
    BY <1>2, <1>3
  <2> QED
    BY <2>1
<1> DEFINE e == [i \in 0 .. m |-> IF i = m THEN 2 * f[m - 1] ELSE f[i]]
<1>5. e = ShiftStep(m, e)
  BY <1>2, <1>3, <1>4 DEF ShiftStep
<1> QED
  BY <1>2, <1>5

LEMMA TilesFacts ==
  /\ Ratio \in Nat \ {0} /\ BlockTopk \in Nat \ {0} /\ BlockN \in Nat \ {0}
  /\ OutputWidth \in Nat \ {0}
  /\ NumTiles \in Nat \ {0}
  /\ OutputWidth <= NumTiles * BlockN
<1>1. Ratio \in Nat \ {0} /\ BlockTopk \in Nat \ {0} /\ BlockN \in Nat \ {0}
  BY SelectAssumption
<1> DEFINE W == OutputWidth
           sum == W + BlockN - 1
           tiles == sum \div BlockN
<1>2. W \in Nat \ {0}
  <2>1. BlockTopk * Ratio \in Nat
    BY <1>1
  <2>2. 1 * Ratio <= BlockTopk * Ratio
    BY <1>1, MulMono
  <2> QED
    BY <1>1, <2>1, <2>2 DEF OutputWidth
<1> HIDE DEF W
<1>3. sum \in Nat /\ sum >= BlockN
  BY <1>1, <1>2
<1> HIDE DEF sum
<1>4. tiles \in Nat /\ sum % BlockN \in 0 .. (BlockN - 1) /\ sum = BlockN * tiles + (sum % BlockN)
  BY <1>1, <1>3, DivFacts
<1>5. NumTiles = tiles
  BY DEF NumTiles, sum, W
<1> HIDE DEF tiles
<1>6. BlockN * tiles \in Nat /\ BlockN * tiles = tiles * BlockN
  BY <1>1, <1>4
<1>7. W <= tiles * BlockN
  BY <1>1, <1>2, <1>4, <1>6 DEF sum
<1>8. tiles # 0
  BY <1>1, <1>2, <1>7
<1> QED
  BY <1>1, <1>2, <1>4, <1>5, <1>7, <1>8 DEF W

LEMMA SplitsFacts == NumSplits \in Nat \ {0}
<1> DEFINE o == CHOOSE f : f = ShiftStep(NumTiles, f)
           Powers == {b \in 1 .. NumTiles : \E i \in 0 .. NumTiles : b = ShiftedOne[i]}
<1>1. o = ShiftStep(NumTiles, o)
  BY TilesFacts, ShiftExists
<1>2. ShiftedOne = o
  BY DEF ShiftedOne, ShiftStep
<1> HIDE DEF o
<1>3. ShiftedOne[0] = 1
  BY <1>1, <1>2, TilesFacts DEF ShiftStep
<1>4. 1 \in Powers /\ Powers \in SUBSET Nat /\ \A y \in Powers : y <= NumTiles
  BY <1>3, TilesFacts
<1>5. MaxUsefulSplits = Max(Powers)
  BY DEF MaxUsefulSplits
<1> HIDE DEF Powers
<1>6. MaxUsefulSplits \in Nat /\ 1 <= MaxUsefulSplits
  BY <1>4, <1>5, MaxOfBounded, TilesFacts
<1> QED
  BY <1>6, SelectAssumption DEF NumSplits, Least

(* Every tile is read by exactly one split. *)
LEMMA OneSplit ==
  ASSUME NEW tile \in 0 .. (NumTiles - 1)
  PROVE  \E split \in 0 .. (NumSplits - 1) :
           \A u \in 0 .. (NumSplits - 1) : tile \in SplitTiles(u) <=> u = split
<1> DEFINE T == NumTiles
           N == NumSplits
           last == (tile + 1) * N - 1
           split == last \div T
<1>1. T \in Nat \ {0} /\ N \in Nat \ {0} /\ tile \in Nat /\ tile + 1 <= T
  BY TilesFacts, SplitsFacts
<1>2. \A u : SplitTiles(u) = ((u * T) \div N) .. (((u + 1) * T) \div N - 1)
  BY DEF SplitTiles
<1> HIDE DEF T, N
<1>3. last \in Nat
  <2>1. 1 * N <= (tile + 1) * N
    BY <1>1, MulMono
  <2>2. (tile + 1) * N \in Nat
    BY <1>1
  <2> QED
    BY <1>1, <2>1, <2>2
<1>4. last < N * T
  <2>1. (tile + 1) * N <= T * N /\ T * N = N * T
    BY <1>1, MulMono
  <2>2. (tile + 1) * N \in Nat /\ N * T \in Nat
    BY <1>1
  <2> QED
    BY <2>1, <2>2
<1>5. ASSUME NEW u \in Nat
      PROVE  tile \in ((u * T) \div N) .. (((u + 1) * T) \div N - 1)
               <=> u <= split /\ ~(u + 1 <= split)
  <2> DEFINE a == u * T  b == (u + 1) * T  c == (tile + 1) * N
  <2>1. a \in Nat /\ b \in Nat /\ c \in Nat
    BY <1>1
  <2>2. u <= split <=> a <= last
    BY <1>1, <1>3, DivAtLeast
  <2>3. u + 1 <= split <=> b <= last
    BY <1>1, <1>3, DivAtLeast
  <2>4. tile + 1 <= a \div N <=> c <= a
    BY <1>1, <2>1, DivAtLeast
  <2>5. tile + 1 <= b \div N <=> c <= b
    BY <1>1, <2>1, DivAtLeast
  <2>6. last = c - 1
    OBVIOUS
  <2>7. a \div N \in Nat /\ b \div N \in Nat
    BY <1>1, <2>1, DivFacts
  <2> HIDE DEF a, b, c, last, split
  <2>8. tile \in (a \div N) .. (b \div N - 1) <=> ~(tile + 1 <= a \div N) /\ tile + 1 <= b \div N
    BY <1>1, <2>7
  <2>9. tile \in (a \div N) .. (b \div N - 1) <=> u <= split /\ ~(u + 1 <= split)
    BY <2>1, <2>2, <2>3, <2>4, <2>5, <2>6, <2>8
  <2> QED
    BY <2>9 DEF a, b
<1>6. split \in 0 .. (N - 1)
  <2>1. split \in Nat
    BY <1>1, <1>3, DivFacts
  <2>2. N <= split <=> N * T <= last
    BY <1>1, <1>3, DivAtLeast
  <2>3. N * T \in Nat
    BY <1>1
  <2> QED
    BY <1>1, <1>3, <1>4, <2>1, <2>2, <2>3
<1> HIDE DEF split, last
<1>7. ASSUME NEW u \in 0 .. (N - 1) PROVE tile \in SplitTiles(u) <=> u = split
  <2>1. u \in Nat /\ split \in Nat
    BY <1>1, <1>6
  <2>2. tile \in SplitTiles(u) <=> u <= split /\ ~(u + 1 <= split)
    BY <1>2, <1>5, <2>1
  <2> QED
    BY <2>1, <2>2
<1> QED
  BY <1>6, <1>7 DEF N

(* Every column is read exactly once. *)
LEMMA OneRead ==
  ASSUME NEW column \in 0 .. (OutputWidth - 1)
  PROVE  /\ \E split \in 0 .. (NumSplits - 1) : <<split, column>> \in Reads
         /\ \A rd, qd \in Reads : rd[2] = column /\ qd[2] = column => rd = qd
<1> DEFINE tile == column \div BlockN
<1>1. tile \in 0 .. (NumTiles - 1)
  <2>1. column \in Nat /\ BlockN \in Nat \ {0} /\ NumTiles \in Nat
    BY TilesFacts
  <2>2. NumTiles <= tile <=> NumTiles * BlockN <= column
    BY <2>1, DivAtLeast
  <2>3. tile \in Nat
    BY <2>1, DivFacts
  <2>4. NumTiles * BlockN \in Nat
    BY <2>1
  <2> QED
    BY <2>1, <2>2, <2>3, <2>4, TilesFacts
<1>2. PICK split \in 0 .. (NumSplits - 1) :
        \A u \in 0 .. (NumSplits - 1) : tile \in SplitTiles(u) <=> u = split
  BY <1>1, OneSplit
<1>3. <<split, column>> \in Reads
  BY <1>2 DEF Reads
<1>4. ASSUME NEW rd \in Reads, NEW qd \in Reads, rd[2] = column, qd[2] = column PROVE rd = qd
  <2>1. rd[1] = split /\ qd[1] = split
    BY <1>2, <1>4 DEF Reads
  <2> QED
    BY <1>4, <2>1 DEF Reads
<1> QED
  BY <1>3, <1>4

-----------------------------------------------------------------------------
(* The tokens in the columns.                                              *)

(* Complete groups before the end of position q; those that are selected.  *)
Groups(q)   == (q + 1) \div Ratio
Selected(q) == Least(Groups(q), BlockTopk)

LEMMA RankingFacts ==
  ASSUME NEW q \in Nat, NEW s \in Nat, q < s, NEW blocks \in Rankings(q, s)
  PROVE  /\ Visible(q, s) = Groups(q)
         /\ Groups(q) \in Nat /\ Selected(q) \in Nat
         /\ Selected(q) <= Groups(q) /\ Selected(q) <= BlockTopk
         /\ (Groups(q) <= BlockTopk => Selected(q) = Groups(q))
         /\ blocks \in [0 .. (Selected(q) - 1) -> 0 .. (Groups(q) - 1)]
         /\ \A i, j \in 0 .. (Selected(q) - 1) : blocks[i] = blocks[j] => i = j
         /\ Groups(q) * Ratio \in Nat /\ Groups(q) * Ratio <= q + 1
         /\ q + 1 < Groups(q) * Ratio + Ratio
         /\ Selected(q) * Ratio \in Nat
         /\ Selected(q) * Ratio <= BlockTopk * Ratio
<1>1. Ratio \in Nat \ {0} /\ BlockTopk \in Nat
  BY SelectAssumption
<1>2. Visible(q, s) = Groups(q) /\ Groups(q) \in Nat
  BY VisibleIsPast DEF Groups
<1>3. /\ Selected(q) \in Nat /\ Selected(q) <= Groups(q) /\ Selected(q) <= BlockTopk
      /\ (Groups(q) <= BlockTopk => Selected(q) = Groups(q))
  BY <1>1, <1>2 DEF Selected, Least
<1>4. /\ blocks \in [0 .. (Selected(q) - 1) -> 0 .. (Groups(q) - 1)]
      /\ \A i, j \in 0 .. (Selected(q) - 1) : blocks[i] = blocks[j] => i = j
  BY <1>2 DEF Rankings, Selected
<1>5. Groups(q) * Ratio \in Nat /\ Groups(q) * Ratio <= q + 1 /\ q + 1 < Groups(q) * Ratio + Ratio
  <2>1. /\ (q + 1) % Ratio \in 0 .. (Ratio - 1)
        /\ q + 1 = Ratio * Groups(q) + ((q + 1) % Ratio)
    BY <1>1, DivFacts DEF Groups
  <2>2. Groups(q) * Ratio \in Nat /\ Groups(q) * Ratio = Ratio * Groups(q)
    BY <1>1, <1>2
  <2> QED
    BY <1>1, <2>1, <2>2
<1>6. Selected(q) * Ratio \in Nat /\ Selected(q) * Ratio <= BlockTopk * Ratio
  BY <1>1, <1>3, MulMono
<1> QED
  BY <1>2, <1>3, <1>4, <1>5, <1>6

(* A number is told by its quotient and its remainder. *)
LEMMA DivModUnique ==
  ASSUME NEW a \in Nat, NEW b \in Nat \ {0}, NEW rem \in 0 .. (b - 1)
  PROVE  (a * b + rem) \div b = a /\ (a * b + rem) % b = rem
<1> DEFINE x == a * b + rem  k == x \div b
<1>1. a * b \in Nat /\ (a + 1) * b = a * b + b
  OBVIOUS
<1>2. x \in Nat
  BY <1>1
<1>3. a <= k /\ ~(a + 1 <= k)
  BY <1>1, <1>2, DivAtLeast
<1> HIDE DEF x
<1>4. k \in Nat /\ x % b \in 0 .. (b - 1) /\ x = b * k + (x % b)
  BY <1>2, DivFacts
<1>5. k = a
  BY <1>3, <1>4
<1>6. b * a = a * b
  OBVIOUS
<1>7. x % b = rem
  BY <1>1, <1>4, <1>5, <1>6 DEF x
<1> QED
  BY <1>5, <1>7 DEF x

(* A column below the selected ones holds a token of its group. *)
LEMMA ChosenColumn ==
  ASSUME NEW q \in Nat, NEW s \in Nat, q < s, NEW blocks \in Rankings(q, s),
         NEW column \in Nat, column < Selected(q) * Ratio
  PROVE  LET i == column \div Ratio  token == Expanded(blocks, q, s, column)
         IN  /\ i \in 0 .. (Selected(q) - 1)
             /\ token \in 0 .. q /\ token < Groups(q) * Ratio
             /\ token \div Ratio = blocks[i] /\ token % Ratio = column % Ratio
<1> DEFINE k == Selected(q)
           v == Groups(q)
           i == column \div Ratio
           rem == column % Ratio
           token == blocks[i] * Ratio + rem
<1>1. /\ Ratio \in Nat \ {0} /\ k \in Nat /\ v \in Nat
      /\ blocks \in [0 .. (k - 1) -> 0 .. (v - 1)]
      /\ v * Ratio \in Nat /\ v * Ratio <= q + 1
      /\ Visible(q, s) = v
  BY SelectAssumption, RankingFacts
<1> HIDE DEF k, v
<1>2. i \in Nat /\ rem \in 0 .. (Ratio - 1)
  BY <1>1, DivFacts
<1>3. i \in 0 .. (k - 1)
  <2>1. k <= i <=> k * Ratio <= column
    BY <1>1, DivAtLeast
  <2>2. ~(k * Ratio <= column)
    <3>1. k * Ratio \in Nat
      BY <1>1
    <3> QED
      BY <3>1 DEF k
  <2> QED
    BY <1>1, <1>2, <2>1, <2>2
<1>4. blocks[i] \in Nat /\ blocks[i] + 1 <= v
  BY <1>1, <1>3
<1> HIDE DEF rem
<1>5. token \in Nat /\ token < v * Ratio
  <2> DEFINE b == blocks[i]
  <2>1. b \in Nat /\ b + 1 <= v
    BY <1>4
  <2> HIDE DEF b
  <2>2. b * Ratio \in Nat /\ (b + 1) * Ratio = b * Ratio + Ratio
    BY <1>1, <2>1
  <2>3. (b + 1) * Ratio <= v * Ratio
    BY <1>1, <2>1, MulMono
  <2>4. b * Ratio + rem \in Nat /\ b * Ratio + rem < v * Ratio
    BY <1>1, <1>2, <2>2, <2>3
  <2> QED
    BY <2>4 DEF b
<1>6. token \div Ratio = blocks[i] /\ token % Ratio = rem
  BY <1>1, <1>2, <1>4, DivModUnique
<1>7. Expanded(blocks, q, s, column) = token
  <2>1. Least(Visible(q, s), BlockTopk) = k
    BY <1>1 DEF k, v, Selected
  <2>2. token < s
    BY <1>1, <1>5
  <2>3. column < k * Ratio
    BY DEF k
  <2> HIDE DEF token
  <2>4. token = blocks[column \div Ratio] * Ratio + (column % Ratio)
    BY DEF token, rem
  <2> QED
    BY <2>1, <2>2, <2>3, <2>4 DEF Expanded
<1> HIDE DEF token
<1>8. token \in 0 .. q
  BY <1>1, <1>5
<1> QED
  BY <1>3, <1>5, <1>6, <1>7, <1>8 DEF k, v, rem

(* A column after the selected ones holds a token of the open group, or none. *)
LEMMA OpenColumn ==
  ASSUME NEW q \in Nat, NEW s \in Nat, q < s, NEW blocks \in Rankings(q, s),
         NEW column \in Nat, column >= Selected(q) * Ratio
  PROVE  LET token == Groups(q) * Ratio + (column - Selected(q) * Ratio)
         IN  Expanded(blocks, q, s, column) = IF token <= q THEN token ELSE -1
<1> DEFINE count == Selected(q) * Ratio
           tail == Groups(q) * Ratio
<1>1. /\ count \in Nat /\ tail \in Nat /\ Ratio \in Nat /\ q + 1 < tail + Ratio
      /\ Visible(q, s) = Groups(q)
  BY SelectAssumption, RankingFacts
<1>2. Least(Visible(q, s), BlockTopk) * Ratio = count
  BY <1>1 DEF Selected
<1>3. ((q + 1) \div Ratio) * Ratio = tail
  BY DEF Groups
<1> HIDE DEF count, tail
<1>4. ~(column < count)
  BY <1>1 DEF count
<1>5. Expanded(blocks, q, s, column) =
        IF (column - count < (q + 1) - tail /\ column - count < Ratio - 1) /\ tail + column - count < s
        THEN tail + column - count ELSE -1
  BY <1>2, <1>3, <1>4 DEF Expanded
<1>6. tail + column - count = tail + (column - count)
  BY <1>1
<1>7. tail + (column - count) <= q <=>
        (column - count < (q + 1) - tail /\ column - count < Ratio - 1) /\ tail + column - count < s
  BY <1>1
<1> QED
  BY <1>5, <1>6, <1>7 DEF count, tail

(* No token is in two columns. *)
LEMMA ColumnsDiffer ==
  ASSUME NEW q \in Nat, NEW s \in Nat, q < s, NEW blocks \in Rankings(q, s),
         NEW c \in Nat, NEW d \in Nat,
         Expanded(blocks, q, s, c) >= 0, Expanded(blocks, q, s, c) = Expanded(blocks, q, s, d)
  PROVE  c = d
<1> DEFINE count == Selected(q) * Ratio
           tail == Groups(q) * Ratio
           C == Expanded(blocks, q, s, c)
           D == Expanded(blocks, q, s, d)
<1>0. count \in Nat /\ tail \in Nat /\ C >= 0 /\ C = D
  BY RankingFacts
<1>1. c < count => C < tail /\ C \in 0 .. q
  BY ChosenColumn
<1>2. d < count => D < tail /\ D \in 0 .. q
  BY ChosenColumn
<1>3. c >= count => C = IF tail + (c - count) <= q THEN tail + (c - count) ELSE -1
  BY OpenColumn
<1>4. d >= count => D = IF tail + (d - count) <= q THEN tail + (d - count) ELSE -1
  BY OpenColumn
<1>5. CASE c < count /\ d < count
  <2> DEFINE i == c \div Ratio  j == d \div Ratio
  <2>1. /\ i \in 0 .. (Selected(q) - 1) /\ C \div Ratio = blocks[i] /\ C % Ratio = c % Ratio
        /\ j \in 0 .. (Selected(q) - 1) /\ D \div Ratio = blocks[j] /\ D % Ratio = d % Ratio
    BY <1>5, ChosenColumn
  <2>2. i = j
    <3>1. blocks[i] = blocks[j]
      BY <1>0, <2>1
    <3> HIDE DEF i, j
    <3> QED
      BY <2>1, <3>1, RankingFacts
  <2>3. c % Ratio = d % Ratio
    BY <1>0, <2>1
  <2>4. c = Ratio * i + (c % Ratio) /\ d = Ratio * j + (d % Ratio)
    BY SelectAssumption, DivFacts
  <2> HIDE DEF i, j
  <2> QED
    BY <2>2, <2>3, <2>4
<1> HIDE DEF count, tail, C, D
<1>6. CASE c < count /\ d >= count
  BY <1>0, <1>1, <1>4, <1>6
<1>7. CASE c >= count /\ d < count
  BY <1>0, <1>2, <1>3, <1>7
<1>8. CASE c >= count /\ d >= count
  BY <1>0, <1>3, <1>4, <1>8
<1> QED
  BY <1>0, <1>5, <1>6, <1>7, <1>8

(* The columns of the selected groups and of the open one are read. *)
LEMMA AttendedColumn ==
  ASSUME NEW q \in Nat, NEW s \in Nat, q < s, NEW blocks \in Rankings(q, s),
         NEW column \in 0 .. (OutputWidth - 1), Expanded(blocks, q, s, column) >= 0
  PROVE  Expanded(blocks, q, s, column) \in Attended(blocks, q, s)
<1>1. PICK split \in 0 .. (NumSplits - 1) : <<split, column>> \in Reads
  BY OneRead
<1>2. <<split, column>> \in ColumnsRead(blocks, q, s)
  BY <1>1 DEF ColumnsRead
<1> QED
  BY <1>2 DEF Attended

LEMMA WidthFacts ==
  OutputWidth \in Nat /\ BlockTopk * Ratio \in Nat /\ OutputWidth = BlockTopk * Ratio + Ratio - 1
BY SelectAssumption, TilesFacts DEF OutputWidth

(***************************************************************************)
(* A query attends to each token of the selected groups and of its open    *)
(* group exactly once, to no later token, and to its whole past as long as *)
(* that fits - for every ranking, every width of the tiles and every       *)
(* number of splits.                                                       *)
(***************************************************************************)
THEOREM AttendsOnce ==
  ASSUME NEW q \in Nat, NEW s \in Nat, q < s, NEW blocks \in Rankings(q, s)
  PROVE  LET past == 0 .. q
             open == {p \in past : p >= ((q + 1) \div Ratio) * Ratio}
             tokens == Attended(blocks, q, s)
             chosen == {p \in past : \E i \in DOMAIN blocks : p \div Ratio = blocks[i]}
         IN  /\ tokens = chosen \cup open
             /\ Cardinality(ColumnsRead(blocks, q, s)) = Cardinality(tokens)
             /\ (q + 1) \div Ratio <= BlockTopk => tokens = past
<1> DEFINE k == Selected(q)
           v == Groups(q)
           count == k * Ratio
           tail == v * Ratio
           past == 0 .. q
           open == {p \in past : p >= tail}
           tokens == Attended(blocks, q, s)
           chosen == {p \in past : \E i \in DOMAIN blocks : p \div Ratio = blocks[i]}
           cols == ColumnsRead(blocks, q, s)
           E(c) == Expanded(blocks, q, s, c)
<1>1. /\ k \in Nat /\ v \in Nat /\ (v <= BlockTopk => k = v)
      /\ blocks \in [0 .. (k - 1) -> 0 .. (v - 1)]
      /\ \A i, j \in 0 .. (k - 1) : blocks[i] = blocks[j] => i = j
      /\ count \in Nat /\ tail \in Nat /\ tail <= q + 1 /\ q + 1 < tail + Ratio
      /\ count <= BlockTopk * Ratio /\ Ratio \in Nat \ {0}
  BY RankingFacts, SelectAssumption
<1>2. \A rd \in cols : rd \in Reads /\ rd[2] \in Nat /\ E(rd[2]) >= 0
  BY WidthFacts DEF ColumnsRead, Reads
<1>3. tokens = {E(rd[2]) : rd \in cols}
  BY DEF Attended
<1>4. ASSUME NEW t \in tokens PROVE t \in chosen \cup open
  <2>1. PICK rd \in cols : t = E(rd[2])
    BY <1>3
  <2>2. rd[2] \in Nat /\ t >= 0
    BY <1>2, <2>1
  <2>3. CASE rd[2] < count
    <3>1. rd[2] \div Ratio \in 0 .. (k - 1) /\ t \in 0 .. q /\ t \div Ratio = blocks[rd[2] \div Ratio]
      BY <2>1, <2>2, <2>3, ChosenColumn
    <3>2. rd[2] \div Ratio \in DOMAIN blocks
      BY <1>1, <3>1
    <3> QED
      BY <3>1, <3>2
  <2>4. CASE rd[2] >= count
    <3>1. t = IF tail + (rd[2] - count) <= q THEN tail + (rd[2] - count) ELSE -1
      BY <2>1, <2>2, <2>4, OpenColumn
    <3> DEFINE c == rd[2]
    <3>2. c \in Nat /\ c >= count /\ t = IF tail + (c - count) <= q THEN tail + (c - count) ELSE -1
      BY <2>2, <2>4, <3>1
    <3> HIDE DEF c, tail, count
    <3>3. t \in past /\ t >= tail
      BY <1>1, <2>2, <3>2
    <3> QED
      BY <3>3
  <2> QED
    BY <1>1, <2>2, <2>3, <2>4
<1>5. ASSUME NEW p \in chosen PROVE p \in tokens
  <2>1. PICK i \in 0 .. (k - 1) : p \div Ratio = blocks[i]
    BY <1>1
  <2> DEFINE rem == p % Ratio
             c == i * Ratio + rem
  <2>2. rem \in 0 .. (Ratio - 1) /\ p = Ratio * (p \div Ratio) + rem /\ p \in Nat /\ i \in Nat /\ i + 1 <= k
    <3>1. p \in Nat /\ Ratio \in Nat \ {0}
      BY <1>1
    <3>2. rem \in 0 .. (Ratio - 1) /\ p = Ratio * (p \div Ratio) + rem
      BY <3>1, DivFacts
    <3>3. k \in Nat
      BY <1>1
    <3> HIDE DEF k, rem
    <3>4. i \in Nat /\ i + 1 <= k
      BY <3>3
    <3> QED
      BY <3>1, <3>2, <3>4
  <2> HIDE DEF rem
  <2>3. c \in Nat /\ c < count
    <3>0. k \in Nat /\ Ratio \in Nat /\ count \in Nat
      BY <1>1
    <3> HIDE DEF k
    <3>1. i * Ratio \in Nat /\ (i + 1) * Ratio = i * Ratio + Ratio /\ i + 1 \in Nat
      BY <3>0, <2>2
    <3>2. (i + 1) * Ratio <= k * Ratio
      BY <3>0, <3>1, <2>2, MulMono
    <3>3. rem \in Nat /\ rem < Ratio
      BY <3>0, <2>2
    <3> QED
      BY <3>0, <3>1, <3>2, <3>3
  <2>4. c \div Ratio = i /\ c % Ratio = rem
    BY <1>1, <2>2, DivModUnique
  <2> HIDE DEF c
  <2>5. E(c) \in 0 .. q /\ E(c) \div Ratio = blocks[i] /\ E(c) % Ratio = rem
    BY <2>3, <2>4, ChosenColumn
  <2>6. E(c) = p
    <3> DEFINE t == E(c)
    <3>1. t \in Nat /\ t \div Ratio = blocks[i] /\ t % Ratio = rem
      BY <2>5
    <3> HIDE DEF t
    <3>2. t = Ratio * (t \div Ratio) + (t % Ratio)
      BY <1>1, <3>1, DivFacts
    <3>3. t = p
      BY <2>1, <2>2, <3>1, <3>2
    <3> QED
      BY <3>3 DEF t
  <2>7. c \in 0 .. (OutputWidth - 1)
    <3> DEFINE top == BlockTopk * Ratio
    <3>1. top \in Nat /\ OutputWidth = top + Ratio - 1 /\ count <= top /\ count \in Nat /\ Ratio \in Nat \ {0}
      BY <1>1, WidthFacts
    <3> HIDE DEF top, count
    <3> QED
      BY <2>3, <3>1
  <2> QED
    BY <2>2, <2>6, <2>7, AttendedColumn
<1>6. ASSUME NEW p \in open PROVE p \in tokens
  <2> DEFINE c == count + (p - tail)
  <2>1. p \in Nat /\ p <= q /\ p >= tail
    OBVIOUS
  <2> HIDE DEF count, tail
  <2>2. c \in Nat /\ c >= count /\ tail + (c - count) = p
    BY <1>1, <2>1
  <2>3. c \in 0 .. (OutputWidth - 1)
    <3> DEFINE top == BlockTopk * Ratio
    <3>1. top \in Nat /\ OutputWidth = top + Ratio - 1 /\ count <= top
      BY <1>1, WidthFacts
    <3> HIDE DEF top
    <3> QED
      BY <1>1, <2>1, <2>2, <3>1
  <2> HIDE DEF c
  <2>4. E(c) = p
    <3>1. E(c) = IF tail + (c - count) <= q THEN tail + (c - count) ELSE -1
      BY <2>2, OpenColumn DEF tail, count
    <3> QED
      BY <2>1, <2>2, <3>1
  <2> QED
    BY <2>1, <2>3, <2>4, AttendedColumn
<1>7. tokens = chosen \cup open
  BY <1>4, <1>5, <1>6
<1>8. Cardinality(cols) = Cardinality(tokens)
  <2> DEFINE f == [rd \in cols |-> E(rd[2])]
  <2>1. IsFiniteSet(cols)
    <3>1. IsFiniteSet((0 .. (NumSplits - 1)) \X (0 .. (OutputWidth - 1)))
      <4>1. NumSplits \in Int /\ OutputWidth \in Int
        BY SplitsFacts, WidthFacts
      <4>2. IsFiniteSet(0 .. (NumSplits - 1)) /\ IsFiniteSet(0 .. (OutputWidth - 1))
        <5>1. 0 \in Int /\ NumSplits - 1 \in Int /\ OutputWidth - 1 \in Int
          BY <4>1
        <5> QED
          BY <5>1, FS_Interval
      <4> QED
        BY <4>2, FS_Product
    <3>2. cols \in SUBSET ((0 .. (NumSplits - 1)) \X (0 .. (OutputWidth - 1)))
      BY DEF ColumnsRead, Reads
    <3> QED
      BY <3>1, <3>2, FS_Subset
  <2>2. ASSUME NEW rd \in cols, NEW qd \in cols, E(rd[2]) = E(qd[2]) PROVE rd = qd
    <3>1. rd[2] = qd[2]
      BY <1>2, <2>2, ColumnsDiffer
    <3>2. rd \in Reads /\ qd \in Reads /\ rd[2] \in 0 .. (OutputWidth - 1)
      BY DEF ColumnsRead, Reads
    <3> QED
      BY <3>1, <3>2, OneRead
  <2>3. f \in [cols -> tokens] /\ (\A t \in tokens : \E rd \in cols : f[rd] = t)
    BY <1>3
  <2>4. \A rd, qd \in cols : f[rd] = f[qd] => rd = qd
    BY <2>2
  <2>5. f \in Bijection(cols, tokens)
    BY <2>3, <2>4 DEF Bijection, Injection, Surjection, IsInjective
  <2> QED
    BY <2>1, <2>5, FS_Bijection DEF ExistsBijection
<1>9. ASSUME v <= BlockTopk PROVE tokens = past
  <2>1. k = v
    BY <1>1, <1>9
  <2> DEFINE idx == 0 .. (v - 1)
  <2>2. blocks \in Injection(idx, idx)
    BY <1>1, <2>1 DEF Injection, IsInjective
  <2>3. IsFiniteSet(idx)
    BY <1>1, FS_Interval
  <2>4. blocks \in Surjection(idx, idx)
    BY <2>2, <2>3, FS_Injection
  <2>5. ASSUME NEW p \in past PROVE p \in chosen \cup open
    <3>1. CASE p >= tail
      BY <3>1
    <3>2. CASE p < tail
      <4> DEFINE d == p \div Ratio
      <4>1. d \in Nat /\ (tail <= p <=> v <= d)
        <5>1. p \in Nat /\ v \in Nat /\ Ratio \in Nat \ {0}
          BY <1>1
        <5> HIDE DEF v
        <5> QED
          BY <5>1, DivAtLeast, DivFacts
      <4>2. d \in idx
        <5>1. p \in Nat /\ v \in Nat /\ tail \in Nat
          BY <1>1
        <5> HIDE DEF v, tail, d
        <5> QED
          BY <5>1, <3>2, <4>1
      <4>3. PICK i \in idx : blocks[i] = p \div Ratio
        BY <2>4, <4>2 DEF Surjection
      <4>4. i \in DOMAIN blocks
        BY <1>1, <2>1
      <4> QED
        BY <4>3, <4>4
    <3>3. p \in Nat /\ tail \in Nat
      BY <1>1
    <3>4. p >= tail \/ p < tail
      BY <3>3
    <3> QED
      BY <3>1, <3>2, <3>4
  <2> QED
    BY <1>7, <2>5
<1> QED
  BY <1>7, <1>8, <1>9 DEF Groups

-----------------------------------------------------------------------------
(* The queries of a step.                                                  *)

LEMMA SeenNext == IInv /\ SeenInv /\ [Next]_vars => SeenInv'
<1> SUFFICES ASSUME IInv, SeenInv, [Next]_vars PROVE SeenInv'
  OBVIOUS
<1>1. ASSUME NEW r \in Reqs, NEW len \in Nat, NEW acc, Step(r, len, acc) PROVE SeenInv'
  <2>1. n[r] \in Nat
    BY QsaAssumption, RequestsAssumption DEF IInv, TypeOK
  <2>2. step'.from = n[r] /\ step'.len = len /\ DOMAIN step'.seen = n[r] .. (n[r] + len - 1)
    BY <1>1 DEF Step
  <2> QED
    BY <2>1, <2>2 DEF SeenInv
<1>2. ASSUME NEW r \in Reqs, Prefill(r) PROVE SeenInv'
  <2>1. PICK len \in 1 .. MaxChunk : Step(r, len, len)
    BY <1>2 DEF Prefill
  <2> QED
    BY <1>1, <2>1, QsaAssumption, RequestsAssumption
<1>3. ASSUME NEW r \in Reqs, Decode(r) PROVE SeenInv'
  <2>1. PICK len \in 1 .. (NumSpec + 1) : \E acc \in 1 .. len : Step(r, len, acc)
    BY <1>3 DEF Decode
  <2> QED
    BY <1>1, <2>1, QsaAssumption, RequestsAssumption
<1>4. ASSUME NEW r \in Reqs, Admit(r) PROVE SeenInv'
  BY <1>4 DEF Admit, SeenInv
<1>5. ASSUME NEW r \in Reqs, Release(r) PROVE SeenInv'
  BY <1>5 DEF Release, SeenInv, NoStep
<1>6. CASE UNCHANGED vars
  BY <1>6 DEF vars, SeenInv
<1> QED
  BY <1>2, <1>3, <1>4, <1>5, <1>6 DEF Next

(***************************************************************************)
(* QueriesAttendOnce is an invariant: the attention of every query of      *)
(* every step reads each token it is to attend to exactly once.            *)
(***************************************************************************)
THEOREM AttendOnceTheorem == Spec => []QueriesAttendOnce
<1>1. Init => SeenInv
  BY DEF Init, SeenInv, NoStep
<1>2. SeenInv => QueriesAttendOnce
  <2> SUFFICES ASSUME SeenInv, NEW q \in DOMAIN step.seen,
                      NEW blocks \in Rankings(q, step.from + step.len)
               PROVE  LET s == step.from + step.len
                          past == 0 .. q
                          open == {p \in past : p >= ((q + 1) \div Ratio) * Ratio}
                          tokens == Attended(blocks, q, s)
                          chosen == {p \in past : \E i \in DOMAIN blocks : p \div Ratio = blocks[i]}
                      IN  /\ tokens = chosen \cup open
                          /\ Cardinality(ColumnsRead(blocks, q, s)) = Cardinality(tokens)
                          /\ (q + 1) \div Ratio <= BlockTopk => tokens = past
    BY DEF QueriesAttendOnce
  <2>1. q \in Nat /\ step.from + step.len \in Nat /\ q < step.from + step.len
    BY DEF SeenInv
  <2> QED
    BY <2>1, AttendsOnce
<1> QED
  BY <1>1, <1>2, SeenNext, Inductive, PTL DEF Spec

-----------------------------------------------------------------------------
(***************************************************************************)
(* The drafter, whose later passes read what the same kernels selected:    *)
(* AttendsOnce says what they attend to.                                   *)
(***************************************************************************)

(* The recursion of RowsBefore. *)
RowsStep(b, m, f) == [j \in 0 .. m |-> IF j = 0 THEN 0 ELSE f[j - 1] + b[j].len]

LEMMA RowsExists ==
  ASSUME NEW b
  PROVE  \A m \in Nat : \E f : f = RowsStep(b, m, f)
<1> DEFINE Bad == {m \in Nat : ~(\E f : f = RowsStep(b, m, f))}
<1>1. SUFFICES ASSUME Bad # {} PROVE FALSE
  OBVIOUS
<1>2. PICK m \in Bad : \A k \in Bad : m <= k
  BY <1>1, LeastNat
<1>3. m # 0
  <2> DEFINE f == [j \in 0 .. 0 |-> 0]
  <2>1. f = RowsStep(b, 0, f)
    BY DEF RowsStep
  <2> QED
    BY <1>2, <2>1
<1>4. PICK f : f = RowsStep(b, m - 1, f)
  <2>1. m - 1 \in Nat /\ m - 1 \notin Bad
    BY <1>2, <1>3
  <2> QED
    BY <2>1
<1> DEFINE e == [j \in 0 .. m |-> IF j = m THEN f[m - 1] + b[m].len ELSE f[j]]
<1>5. e = RowsStep(b, m, e)
  BY <1>2, <1>3, <1>4 DEF RowsStep
<1> QED
  BY <1>2, <1>5

Batches == Seq(Verifications)

LEMMA RowsDef ==
  ASSUME NEW b \in Batches
  PROVE  /\ RowsBefore(b, 1) = 0
         /\ \A i \in 1 .. Len(b) : RowsBefore(b, i + 1) = RowsBefore(b, i) + b[i].len
<1> DEFINE o == CHOOSE f : f = RowsStep(b, Len(b), f)
<1>0. Len(b) \in Nat
  BY DEF Batches
<1>1. o = RowsStep(b, Len(b), o)
  BY <1>0, RowsExists
<1>2. \A i : RowsBefore(b, i) = o[i - 1]
  BY DEF RowsBefore, RowsStep
<1> HIDE DEF o
<1>3. \A j \in 0 .. Len(b) : o[j] = IF j = 0 THEN 0 ELSE o[j - 1] + b[j].len
  BY <1>1 DEF RowsStep
<1>4. o[0] = 0
  BY <1>0, <1>3
<1>5. \A j \in 1 .. Len(b) : o[j] = o[j - 1] + b[j].len
  BY <1>0, <1>3
<1>6. RowsBefore(b, 1) = o[1 - 1] /\ \A i \in 1 .. Len(b) : RowsBefore(b, i + 1) = o[i + 1 - 1]
  BY <1>2
<1>7. \A i \in 1 .. Len(b) : i + 1 - 1 = i
  BY <1>0
<1> QED
  BY <1>2, <1>4, <1>5, <1>6, <1>7

LEMMA BatchFacts ==
  ASSUME NEW b \in Batches, NEW i \in 1 .. Len(b)
  PROVE  /\ Len(b) \in Nat /\ DOMAIN b = 1 .. Len(b)
         /\ b[i] \in Verifications /\ b[i].r \in Reqs
         /\ b[i].from \in Nat /\ b[i].len \in Nat \ {0} /\ b[i].acc \in Nat \ {0}
<1>1. b[i] \in Verifications /\ Len(b) \in Nat /\ DOMAIN b = 1 .. Len(b)
  BY DEF Batches
<1> QED
  BY <1>1 DEF Verifications

(* A request has a row at least. *)
LEMMA RowsType ==
  ASSUME NEW b \in Batches
  PROVE  \A i \in 1 .. (Len(b) + 1) : RowsBefore(b, i) \in Nat /\ RowsBefore(b, i) >= i - 1
<1> DEFINE Bad == {i \in 1 .. (Len(b) + 1) :
                     ~(RowsBefore(b, i) \in Nat /\ RowsBefore(b, i) >= i - 1)}
<1>0. Len(b) \in Nat
  BY DEF Batches
<1>1. SUFFICES ASSUME Bad # {} PROVE FALSE
  OBVIOUS
<1>2. PICK i \in Bad : \A k \in Bad : i <= k
  <2>1. Bad \in SUBSET Nat
    BY <1>0
  <2> HIDE DEF Bad
  <2> QED
    BY <1>1, <2>1, LeastNat
<1>3. i # 1
  BY <1>2, RowsDef
<1> DEFINE k == i - 1
<1>4. k \in 1 .. Len(b) /\ k \in 1 .. (Len(b) + 1) /\ k < i /\ k + 1 = i /\ i \in Nat
  BY <1>0, <1>2, <1>3
<1>5. RowsBefore(b, k) \in Nat /\ RowsBefore(b, k) >= k - 1
  <2>1. k \notin Bad
    BY <1>2, <1>4
  <2> QED
    BY <1>4, <2>1
<1> HIDE DEF k
<1>6. RowsBefore(b, i) = RowsBefore(b, k) + b[k].len
  BY <1>4, RowsDef
<1>7. b[k].len \in Nat \ {0}
  BY <1>4, BatchFacts
<1>8. RowsBefore(b, i) \in Nat /\ RowsBefore(b, i) >= i - 1
  BY <1>4, <1>5, <1>6, <1>7
<1> QED
  BY <1>2, <1>8

(* The rows of a request end before those of the later ones. *)
LEMMA RowsInOrder ==
  ASSUME NEW b \in Batches, NEW i \in 1 .. Len(b)
  PROVE  \A j \in (i + 1) .. (Len(b) + 1) : RowsBefore(b, i) + b[i].len <= RowsBefore(b, j)
<1> DEFINE end == RowsBefore(b, i) + b[i].len
           Bad == {j \in (i + 1) .. (Len(b) + 1) : ~(end <= RowsBefore(b, j))}
<1>0. Len(b) \in Nat /\ i \in Nat /\ end \in Nat
  <2>1. Len(b) \in Nat
    BY DEF Batches
  <2>2. b[i].len \in Nat
    BY BatchFacts
  <2>3. i \in Nat /\ i \in 1 .. (Len(b) + 1)
    BY <2>1
  <2>4. RowsBefore(b, i) \in Nat
    BY <2>3, RowsType
  <2> QED
    BY <2>1, <2>2, <2>3, <2>4
<1> HIDE DEF end
<1>1. SUFFICES ASSUME Bad # {} PROVE FALSE
  BY DEF end
<1>2. PICK j \in Bad : \A k \in Bad : j <= k
  <2>1. Bad \in SUBSET Nat
    BY <1>0
  <2> HIDE DEF Bad
  <2> QED
    BY <1>1, <2>1, LeastNat
<1>3. j # i + 1
  <2>1. RowsBefore(b, i + 1) = end
    BY RowsDef DEF end
  <2>2. end <= end
    BY <1>0
  <2> QED
    BY <1>2, <2>1, <2>2
<1> DEFINE k == j - 1
<1>4. k \in 1 .. Len(b) /\ k \in (i + 1) .. (Len(b) + 1) /\ k \in 1 .. (Len(b) + 1) /\ k < j /\ k + 1 = j
  BY <1>0, <1>2, <1>3
<1>5. end <= RowsBefore(b, k)
  <2>1. k \notin Bad
    BY <1>0, <1>2, <1>4
  <2> QED
    BY <1>4, <2>1
<1> HIDE DEF k
<1>6. RowsBefore(b, j) = RowsBefore(b, k) + b[k].len
  BY <1>4, RowsDef
<1>7. RowsBefore(b, k) \in Nat /\ b[k].len \in Nat
  BY <1>4, RowsType, BatchFacts
<1>8. end <= RowsBefore(b, j)
  BY <1>0, <1>5, <1>6, <1>7
<1> QED
  BY <1>2, <1>8

(* The row of a request's last accepted token is its own. *)
LastRowOf(b, i) == RowsBefore(b, i) + b[i].acc - 1

LEMMA LastRowFacts ==
  ASSUME NEW b \in Batches, NEW i \in 1 .. Len(b), b[i].acc <= b[i].len,
         MaxRows \in Nat, RowsBefore(b, Len(b) + 1) <= MaxRows
  PROVE  /\ LastRowOf(b, i) \in 0 .. (MaxRows - 1) /\ i - 1 \in 0 .. (MaxRows - 1)
         /\ LastRowOf(b, i) - RowsBefore(b, i) \in 0 .. (b[i].len - 1)
         /\ \A j \in 1 .. Len(b) : LastRowOf(b, i) - RowsBefore(b, j) \in 0 .. (b[j].len - 1) => j = i
<1>1. Len(b) \in Nat /\ i \in Nat /\ i <= Len(b)
  BY DEF Batches
<1>2. b[i].len \in Nat \ {0} /\ b[i].acc \in Nat \ {0}
  BY BatchFacts
<1> DEFINE end == RowsBefore(b, Len(b) + 1)
           start == RowsBefore(b, i)
           row == LastRowOf(b, i)
           len == b[i].len
           acc == b[i].acc
<1>3. start \in Nat /\ end \in Nat /\ start >= i - 1 /\ start + b[i].len <= end
  <2>1. i \in 1 .. (Len(b) + 1) /\ Len(b) + 1 \in 1 .. (Len(b) + 1) /\ Len(b) + 1 \in (i + 1) .. (Len(b) + 1)
    BY <1>1
  <2> QED
    BY <2>1, RowsType, RowsInOrder
<1>4. row = start + acc - 1 /\ len \in Nat /\ acc \in Nat \ {0} /\ acc <= len
  BY <1>2 DEF LastRowOf
<1>5. ASSUME NEW j \in 1 .. Len(b), row - RowsBefore(b, j) \in 0 .. (b[j].len - 1) PROVE j = i
  <2> DEFINE other == RowsBefore(b, j)
  <2>1. j \in Nat /\ b[j].len \in Nat \ {0}
    BY <1>1, BatchFacts
  <2>2. other \in Nat
    <3>1. j \in 1 .. (Len(b) + 1)
      BY <1>1
    <3> QED
      BY <3>1, RowsType
  <2>3. i < j => start + b[i].len <= other
    <3>1. i < j => j \in (i + 1) .. (Len(b) + 1)
      BY <1>1, <2>1
    <3> QED
      BY <3>1, RowsInOrder
  <2>4. j < i => other + b[j].len <= start
    <3>1. j < i => i \in (j + 1) .. (Len(b) + 1)
      BY <1>1, <2>1
    <3> QED
      BY <3>1, RowsInOrder
  <2> DEFINE otherLen == b[j].len
  <2>5. row - other \in 0 .. (otherLen - 1) /\ otherLen \in Nat
    BY <1>5, <2>1
  <2>6. start \in Nat /\ i \in Nat /\ (i < j => start + len <= other) /\ (j < i => other + otherLen <= start)
    BY <1>1, <1>3, <2>3, <2>4
  <2>7. j \in Nat
    BY <2>1
  <2> HIDE DEF other, start, row, end, len, acc, otherLen
  <2>8. ~(i < j) /\ ~(j < i)
    BY <1>4, <2>2, <2>5, <2>6
  <2> QED
    BY <1>1, <2>7, <2>8
<1>6. row \in 0 .. (MaxRows - 1) /\ i - 1 \in 0 .. (MaxRows - 1) /\ row - start \in 0 .. (b[i].len - 1)
  <2>1. end <= MaxRows /\ start \in Nat /\ end \in Nat /\ start >= i - 1 /\ start + len <= end
    BY <1>3
  <2> HIDE DEF start, row, end, len, acc
  <2>2. row \in 0 .. (MaxRows - 1) /\ i - 1 \in 0 .. (MaxRows - 1) /\ row - start \in 0 .. (len - 1)
    BY <1>1, <1>4, <2>1
  <2> QED
    BY <2>2 DEF start, len
<1> QED
  BY <1>5, <1>6

(* What the first pass leaves in that row. *)
LEMMA SelectedLast ==
  ASSUME NEW b \in Batches, NEW rows, NEW i \in 1 .. Len(b), b[i].acc <= b[i].len,
         MaxRows \in Nat, RowsBefore(b, Len(b) + 1) <= MaxRows
  PROVE  SelectedRows(b, rows)[LastRowOf(b, i)] =
           [r |-> b[i].r, q |-> b[i].from + b[i].acc - 1, s |-> b[i].from + b[i].len]
<1> DEFINE row == LastRowOf(b, i)
           start == RowsBefore(b, i)
           entry == b[i]
<1>1. row \in BufferRows /\ i \in DOMAIN b /\ row - start \in 0 .. (entry.len - 1)
      /\ \A j \in DOMAIN b : row - RowsBefore(b, j) \in 0 .. (b[j].len - 1) => j = i
  BY LastRowFacts, BatchFacts DEF BufferRows
<1>2. (CHOOSE j \in DOMAIN b : row - RowsBefore(b, j) \in 0 .. (b[j].len - 1)) = i
  <2> HIDE DEF row
  <2> QED
    BY <1>1
<1>3. SelectedRows(b, rows)[row] =
        [r |-> entry.r, q |-> entry.from + row - start, s |-> entry.from + entry.len]
  <2> HIDE DEF row
  <2> QED
    BY <1>1, <1>2 DEF SelectedRows
<1>4. start \in Nat /\ entry.from \in Nat /\ entry.acc \in Nat
  <2>1. i \in 1 .. (Len(b) + 1)
    BY DEF Batches
  <2> QED
    BY <2>1, RowsType, BatchFacts
<1>5. row = start + entry.acc - 1
  BY DEF LastRowOf
<1> HIDE DEF row, start, entry
<1>6. entry.from + row - start = entry.from + entry.acc - 1
  BY <1>4, <1>5
<1> QED
  BY <1>3, <1>6 DEF row, entry

-----------------------------------------------------------------------------
(* The head.                                                               *)

(* Counting the smaller ones places every element once. *)
LEMMA SortedRange ==
  ASSUME NEW S \in SUBSET Int, IsFiniteSet(S)
  PROVE  {Sorted(S)[i] : i \in DOMAIN Sorted(S)} = S
<1> DEFINE k == Cardinality(S)
           below(x) == {y \in S : y < x}
           rank == [x \in S |-> Cardinality(below(x))]
<1>1. k \in Nat
  BY FS_CardinalityType
<1>2. ASSUME NEW x \in S PROVE IsFiniteSet(below(x)) /\ rank[x] \in Nat /\ rank[x] < k
  <2>1. below(x) \in SUBSET S /\ below(x) # S
    OBVIOUS
  <2> HIDE DEF below
  <2>2. IsFiniteSet(below(x)) /\ Cardinality(below(x)) <= k /\ Cardinality(below(x)) # k
    BY <2>1, FS_Subset
  <2>3. Cardinality(below(x)) \in Nat
    BY <2>2, FS_CardinalityType
  <2> QED
    BY <1>1, <2>2, <2>3
<1>3. ASSUME NEW x \in S, NEW y \in S, x < y PROVE rank[x] # rank[y]
  <2>1. below(x) \in SUBSET below(y) /\ x \in below(y) /\ x \notin below(x)
    <3>1. ~(x < x) /\ \A z \in S : z < x => z < y
      BY <1>3
    <3>2. below(x) \in SUBSET below(y)
      BY <3>1, Zenon
    <3> QED
      BY <1>3, <3>1, <3>2
  <2>2. IsFiniteSet(below(y))
    BY <1>2
  <2> HIDE DEF below
  <2>3. Cardinality(below(x)) # Cardinality(below(y))
    BY <2>1, <2>2, FS_Subset
  <2> QED
    BY <2>3
<1>4. \A x, y \in S : rank[x] = rank[y] => x = y
  <2> SUFFICES ASSUME NEW x \in S, NEW y \in S, x # y PROVE rank[x] # rank[y]
    OBVIOUS
  <2>1. x < y \/ y < x
    OBVIOUS
  <2> QED
    BY <1>3, <2>1
<1>5. \A m \in 0 .. (k - 1) : \E x \in S : rank[x] = m
  <2> HIDE DEF below
  <2>1. rank \in [S -> 0 .. (k - 1)]
    BY <1>1, <1>2
  <2> HIDE DEF rank
  <2>2. rank \in Injection(S, 0 .. (k - 1))
    BY <1>4, <2>1 DEF Injection, IsInjective
  <2>3. IsFiniteSet(0 .. (k - 1)) /\ Cardinality(0 .. (k - 1)) = k
    BY <1>1, FS_Interval
  <2>4. rank \in Surjection(S, 0 .. (k - 1))
    BY <2>2, <2>3, FS_Injection
  <2> QED
    BY <2>4 DEF Surjection
<1>6. Sorted(S) = [i \in 1 .. k |-> CHOOSE x \in S : Cardinality(below(x)) = i - 1]
  BY DEF Sorted
<1>7. \A x \in S : rank[x] = Cardinality(below(x))
  OBVIOUS
<1> HIDE DEF rank, below
<1>8. ASSUME NEW i \in 1 .. k PROVE Sorted(S)[i] \in S
  <2>1. i - 1 \in 0 .. (k - 1)
    BY <1>1
  <2> QED
    BY <1>5, <1>6, <1>7, <2>1
<1>9. ASSUME NEW x \in S PROVE \E i \in 1 .. k : Sorted(S)[i] = x
  <2> DEFINE i == rank[x] + 1
  <2>0. rank[x] \in Nat /\ rank[x] < k
    BY <1>2
  <2> HIDE DEF k
  <2>1. i \in 1 .. k /\ i - 1 = rank[x]
    BY <1>1, <2>0
  <2> HIDE DEF i
  <2>2. (CHOOSE z \in S : Cardinality(below(z)) = i - 1) = x
    BY <1>4, <1>7, <2>1
  <2> QED
    BY <1>6, <2>1, <2>2
<1> QED
  BY <1>6, <1>8, <1>9

LEMMA HeadInit == ASSUME DrafterInit PROVE HeadInv
<1> SUFFICES ASSUME head # <<>> PROVE scale > 0 /\ {head[i] : i \in DOMAIN head} = listed \cap Vocab
  BY DEF HeadInv
<1> DEFINE usable == listed \cap Vocab
<1>1. PICK plain \in BOOLEAN : head = Attach(listed, scale, plain)
  BY DEF DrafterInit
<1>2. scale > 0 /\ head = Sorted(usable)
  <2>1. head = IF plain /\ scale > 0 /\ usable # {} /\ usable # Vocab THEN Sorted(usable) ELSE <<>>
    BY <1>1 DEF Attach
  <2> QED
    BY <2>1, Zenon
<1>3. usable \in SUBSET Int /\ IsFiniteSet(usable)
  <2>1. VocabSize \in Nat
    BY DrafterAssumption
  <2>2. Vocab \in SUBSET Int /\ IsFiniteSet(Vocab)
    BY <2>1, FS_Interval DEF Vocab
  <2> QED
    BY <2>2, FS_Subset
<1> HIDE DEF usable
<1>4. {head[i] : i \in DOMAIN head} = usable
  BY <1>2, <1>3, SortedRange
<1> QED
  BY <1>2, <1>4 DEF usable

LEMMA ScaledOrder ==
  ASSUME NEW a \in Nat, NEW b \in Nat, NEW c \in Int, c > 0
  PROVE  c * a <= c * b <=> a <= b
<1>1. ASSUME a <= b PROVE c * a <= c * b
  BY <1>1, Z3
<1>2. ASSUME a > b PROVE c * a > c * b
  BY <1>2, Z3
<1>3. c * a \in Int /\ c * b \in Int
  OBVIOUS
<1> QED
  BY <1>1, <1>2, <1>3

LEMMA BestOfHead ==
  ASSUME HeadInv, scale \in Int PROVE DraftsAreTheBestListed
<1> SUFFICES ASSUME NEW raw \in [Vocab -> 0 .. 2], head # <<>>
             PROVE  TopTokens(raw) = Best(listed \cap Vocab, [i \in Vocab |-> scale * raw[i]])
  BY DEF DraftsAreTheBestListed, TopTokens
<1> DEFINE usable == listed \cap Vocab
<1>1. scale > 0 /\ usable = {head[i] : i \in DOMAIN head}
  BY DEF HeadInv
<1>2. TopTokens(raw) = {x \in usable : \A y \in usable : raw[y] <= raw[x]}
  BY <1>1 DEF TopTokens, Best
<1>3. ASSUME NEW x \in usable, NEW y \in usable PROVE scale * raw[y] <= scale * raw[x] <=> raw[y] <= raw[x]
  BY <1>1, ScaledOrder
<1> QED
  BY <1>2, <1>3 DEF Best


-----------------------------------------------------------------------------
(* The inductive invariant of the drafter.                                 *)

(* A batch of verifications of different requests. *)
LEMMA BatchOfOrder ==
  ASSUME DrafterTypeOK, NEW S \in SUBSET Reqs, NEW order \in SetToSeqs(S),
         NEW b \in {f \in [DOMAIN order -> UNION {Verified(r) : r \in S}] :
                      \A i \in DOMAIN order : f[i] \in Verified(order[i])}
  PROVE  /\ b \in Batches /\ Len(b) = Len(order)
         /\ \A i, j \in DOMAIN b : b[i].r = b[j].r => i = j
         /\ \A i \in DOMAIN b : b[i].acc <= b[i].len /\ b[i].from = n[b[i].r]
<1> DEFINE k == Cardinality(S)
<1>1. k \in Nat
  <2>1. IsFiniteSet(Reqs)
    BY DrafterAssumption
  <2> QED
    BY <2>1, FS_Subset, FS_CardinalityType
<1>2. order \in [1 .. k -> S] /\ \A i, j \in 1 .. k : i # j => order[i] # order[j]
  BY DEF SetToSeqs
<1> HIDE DEF k
<1>3. ASSUME NEW i \in 1 .. k
      PROVE  /\ b[i] \in Verifications /\ b[i].r = order[i]
             /\ b[i].acc <= b[i].len /\ b[i].from = n[b[i].r]
  <2>1. b[i] \in Verified(order[i]) /\ order[i] \in Reqs
    BY <1>2
  <2>2. n[order[i]] \in Nat /\ MaxLen \in Nat
    BY <2>1, RequestsAssumption DEF DrafterTypeOK
  <2>3. /\ b[i] \in [r : {order[i]}, from : {n[order[i]]}, len : 1 .. MaxLen, acc : 1 .. MaxLen]
        /\ b[i].acc = b[i].len \/ b[i].acc <= b[i].len
    BY <2>1 DEF Verified
  <2>4. b[i].len \in Nat \ {0} /\ b[i].acc \in Nat \ {0} /\ b[i].r = order[i] /\ b[i].from = n[order[i]]
    BY <2>2, <2>3
  <2>5. b[i] \in Verifications
    BY <2>1, <2>2, <2>3, <2>4 DEF Verifications
  <2> QED
    BY <2>3, <2>4, <2>5
<1>4. DOMAIN order = 1 .. k /\ b \in [1 .. k -> Verifications]
  BY <1>2, <1>3
<1>5. b \in Batches /\ DOMAIN b = 1 .. k /\ Len(b) = k /\ Len(order) = k
  BY <1>1, <1>2, <1>4 DEF Batches
<1> QED
  BY <1>2, <1>3, <1>5

LEMMA LayersFacts ==
  /\ \A m \in Nat : LayerOf(m) = 0
  /\ OldRows = [l \in {0} |-> [i \in BufferRows |-> Old]]
<1>1. ASSUME NEW m \in Nat PROVE m % 1 = 0
  BY DivFacts
<1> QED
  BY <1>1, LayersAssumption DEF LayerOf, OldRows

LEMMA DrafterInitInv == ASSUME DrafterInit PROVE DrafterIInv
<1>1. DrafterTypeOK
  <2>1. <<>> \in Batches /\ Len(<<>>) = 0
    BY DEF Batches
  <2>2. RowsBefore(<<>>, Len(<<>>) + 1) = 0
    BY <2>1, RowsDef
  <2> QED
    <3>1. n \in [Reqs -> Nat] /\ pass \in Nat /\ skip \in BOOLEAN /\ DOMAIN buffer = {0} /\ batch = <<>>
      BY LayersFacts DEF DrafterInit
    <3>2. scale \in Int /\ listed \subseteq Int /\ MaxRows \in Nat
      BY DrafterAssumption DEF DrafterInit
    <3> QED
      BY <2>1, <2>2, <3>1, <3>2 DEF DrafterTypeOK, Batches
<1>2. RoundInv /\ FirstInv /\ FrontInv /\ UsedInv
  BY DEF DrafterInit, RoundInv, FirstInv, FrontInv, UsedInv
<1> QED
  BY <1>1, <1>2, HeadInit DEF DrafterIInv

(* The batches of an order, and what the first pass does with one. *)
BatchesOf(S, order) ==
  {f \in [DOMAIN order -> UNION {Verified(r) : r \in S}] :
     \A i \in DOMAIN order : f[i] \in Verified(order[i])}

FirstPassOf(order, b) ==
  /\ pass = 0 /\ batch = <<>>
  /\ RowsBefore(b, Len(order) + 1) <= MaxRows
  /\ batch' = b
  /\ n' = [r \in Reqs |-> IF \E i \in DOMAIN b : b[i].r = r
                          THEN n[r] + b[CHOOSE i \in DOMAIN b : b[i].r = r].acc ELSE n[r]]
  /\ buffer' = IF skip THEN buffer
               ELSE [buffer EXCEPT ![LayerOf(0)] = SelectedRows(b, @)]
  /\ used' = <<>>
  /\ UNCHANGED <<pass, skip, scale, listed, head>>

LEMMA FirstPassInv ==
  ASSUME DrafterIInv, FirstPass
  PROVE  DrafterIInv'
<1>0. PICK S \in SUBSET Reqs :
        \E order \in SetToSeqs(S) : \E b \in BatchesOf(S, order) : FirstPassOf(order, b)
  BY DEF FirstPass, headVars, BatchesOf, FirstPassOf
<1>00. PICK order \in SetToSeqs(S) : \E b \in BatchesOf(S, order) : FirstPassOf(order, b)
  BY <1>0
<1>1. PICK b \in BatchesOf(S, order) : FirstPassOf(order, b)
  BY <1>00
<1>2. DrafterTypeOK /\ RoundInv /\ HeadInv
  BY DEF DrafterIInv
<1>3. /\ b \in Batches /\ Len(b) = Len(order)
      /\ \A i, j \in DOMAIN b : b[i].r = b[j].r => i = j
      /\ \A i \in DOMAIN b : b[i].acc <= b[i].len /\ b[i].from = n[b[i].r]
  BY <1>2, BatchOfOrder DEF BatchesOf
<1>4. /\ buffer' = [buffer EXCEPT ![0] = SelectedRows(b, @)] /\ DOMAIN buffer = {0}
      /\ pass' = 0 /\ skip' = FALSE /\ RowsBefore(b, Len(b) + 1) <= MaxRows
  BY <1>1, <1>2, <1>3, LayersFacts DEF FirstPassOf, DrafterTypeOK, RoundInv
<1>5. ASSUME NEW i \in DOMAIN b
      PROVE  /\ b[i].r \in Reqs /\ n[b[i].r] \in Nat /\ b[i].acc \in Nat
             /\ n'[b[i].r] = b[i].from + b[i].acc
             /\ buffer'[0][LastRowOf(b, i)] =
                  [r |-> b[i].r, q |-> b[i].from + b[i].acc - 1, s |-> b[i].from + b[i].len]
  <2>1. b[i].r \in Reqs /\ b[i].acc \in Nat /\ i \in 1 .. Len(b)
    BY <1>3, BatchFacts
  <2>2. (CHOOSE j \in DOMAIN b : b[j].r = b[i].r) = i
    BY <1>3
  <2>3. n'[b[i].r] = n[b[i].r] + b[i].acc
    BY <1>1, <2>1, <2>2 DEF FirstPassOf
  <2>4. buffer'[0] = SelectedRows(b, buffer[0])
    BY <1>4
  <2>5. SelectedRows(b, buffer[0])[LastRowOf(b, i)] =
          [r |-> b[i].r, q |-> b[i].from + b[i].acc - 1, s |-> b[i].from + b[i].len]
    <3>1. MaxRows \in Nat /\ b[i].acc <= b[i].len
      BY <1>3, DrafterAssumption
    <3>2. b \in Batches /\ RowsBefore(b, Len(b) + 1) <= MaxRows
      BY <1>3, <1>4
    <3> QED
      BY <2>1, <3>1, <3>2, SelectedLast
  <2> QED
    BY <1>2, <1>3, <2>1, <2>3, <2>4, <2>5 DEF DrafterTypeOK
<1>6. n' \in [Reqs -> Nat]
  <2>1. ASSUME NEW r \in Reqs PROVE n'[r] \in Nat
    <3>1. CASE \E i \in DOMAIN b : b[i].r = r
      <4>1. PICK i \in DOMAIN b : b[i].r = r
        BY <3>1
      <4>2. b[i].from = n[r] /\ n[r] \in Nat /\ b[i].acc \in Nat /\ n'[r] = b[i].from + b[i].acc
        BY <1>3, <1>5, <4>1
      <4> QED
        BY <4>2
    <3>2. CASE ~ \E i \in DOMAIN b : b[i].r = r
      BY <1>1, <1>2, <3>2 DEF FirstPassOf, DrafterTypeOK
    <3> QED
      BY <3>1, <3>2
  <2> QED
    BY <1>1, <2>1 DEF FirstPassOf
<1>7. DrafterTypeOK'
  BY <1>1, <1>2, <1>3, <1>4, <1>6 DEF FirstPassOf, DrafterTypeOK, Batches
<1>8. RoundInv'
  <2>1. ~skip' /\ ~(pass' > 0) /\ batch' = b
    BY <1>1, <1>4 DEF FirstPassOf
  <2> QED
    BY <1>5, <2>1 DEF RoundInv
<1>9. FirstInv'
  BY <1>1, <1>5 DEF FirstPassOf, FirstInv, RowIndex, LastRowOf, LastSelection
<1>10. FrontInv' /\ UsedInv' /\ HeadInv'
  BY <1>1, <1>2, <1>4 DEF FirstPassOf, FrontInv, UsedInv, HeadInv
<1> QED
  BY <1>7, <1>8, <1>9, <1>10 DEF DrafterIInv

LEMMA CompactInv ==
  ASSUME DrafterIInv, Compact
  PROVE  DrafterIInv'
<1>1. DrafterTypeOK /\ RoundInv /\ FirstInv /\ UsedInv /\ HeadInv
  BY DEF DrafterIInv
<1>2. /\ pass = 0 /\ pass' = 1 /\ skip' = TRUE /\ batch # <<>>
      /\ buffer' = [l \in {0} |-> Compacted(buffer[l])]
      /\ UNCHANGED <<n, batch, used, scale, listed, head>>
  BY <1>1 DEF Compact, headVars, DrafterTypeOK
<1>3. DrafterTypeOK' /\ RoundInv' /\ FirstInv' /\ UsedInv' /\ HeadInv'
  <2>1. DrafterTypeOK'
    BY <1>1, <1>2 DEF DrafterTypeOK
  <2>2. RoundInv' /\ FirstInv'
    BY <1>1, <1>2 DEF RoundInv, FirstInv
  <2>3. UsedInv' /\ HeadInv'
    BY <1>1, <1>2 DEF UsedInv, HeadInv
  <2> QED
    BY <2>1, <2>2, <2>3
<1>4. ASSUME NEW i \in DOMAIN batch PROVE buffer'[0][i - 1] = LastSelection(i)
  <2>1. batch \in Batches /\ i \in 1 .. Len(batch) /\ i \in Nat
    BY <1>1, <1>4 DEF DrafterTypeOK, Batches
  <2>2. i - 1 \in BufferRows /\ i - 1 < Len(batch) /\ i - 1 + 1 = i
    <3>1. MaxRows \in Nat /\ batch[i].acc <= batch[i].len /\ RowsBefore(batch, Len(batch) + 1) <= MaxRows
      BY <1>1, DrafterAssumption DEF DrafterTypeOK
    <3>2. i - 1 \in 0 .. (MaxRows - 1)
      BY <2>1, <3>1, LastRowFacts
    <3> QED
      BY <2>1, <3>2 DEF BufferRows, Batches
  <2>3. buffer'[0][i - 1] = buffer[0][RowIndex(i)]
    BY <1>2, <2>2 DEF Compacted
  <2> QED
    BY <1>1, <1>2, <2>3 DEF FirstInv
<1>5. FrontInv'
  BY <1>2, <1>4 DEF FrontInv, LastSelection
<1> QED
  BY <1>3, <1>5 DEF DrafterIInv

LEMMA LaterPassInv ==
  ASSUME DrafterIInv, LaterPass
  PROVE  DrafterIInv'
<1> DEFINE last == pass = NumSpec - 1
<1>1. DrafterTypeOK /\ RoundInv /\ FrontInv /\ HeadInv
  BY DEF DrafterIInv
<1>2. /\ pass > 0 /\ skip' = ~last
      /\ used' = [i \in DOMAIN batch |-> [r |-> batch[i].r, row |-> buffer[0][i - 1]]]
      /\ pass' = IF last THEN 0 ELSE pass + 1
      /\ batch' = IF last THEN <<>> ELSE batch
      /\ buffer' = IF last THEN OldRows ELSE buffer
      /\ UNCHANGED <<n, scale, listed, head>>
  BY <1>1, LayersFacts DEF LaterPass, headVars, DrafterTypeOK
<1>3. UsedInv'
  <2>1. ASSUME NEW i \in DOMAIN batch
        PROVE  /\ used'[i].r \in Reqs /\ n[used'[i].r] > 0
               /\ \E s \in Nat : s >= n[used'[i].r]
                                /\ used'[i].row = [r |-> used'[i].r, q |-> n[used'[i].r] - 1, s |-> s]
    <3>1. batch \in Batches /\ i \in 1 .. Len(batch)
      BY <1>1 DEF DrafterTypeOK, Batches
    <3> DEFINE from == batch[i].from
               acc == batch[i].acc
               len == batch[i].len
    <3>2. batch[i].r \in Reqs /\ from \in Nat /\ acc \in Nat \ {0} /\ len \in Nat /\ acc <= len
      BY <1>1, <3>1, BatchFacts DEF DrafterTypeOK
    <3>3. used'[i] = [r |-> batch[i].r, row |-> LastSelection(i)]
      BY <1>1, <1>2 DEF FrontInv
    <3>4. n[batch[i].r] = from + acc
      BY <1>1 DEF RoundInv
    <3>5. LastSelection(i) = [r |-> batch[i].r, q |-> from + acc - 1, s |-> from + len]
      BY DEF LastSelection
    <3> HIDE DEF from, acc, len
    <3>6. from + len \in Nat /\ from + len >= n[batch[i].r] /\ n[batch[i].r] > 0
      BY <3>2, <3>4
    <3> QED
      BY <3>2, <3>3, <3>4, <3>5, <3>6
  <2> QED
    BY <1>2, <2>1 DEF UsedInv
<1>4. HeadInv'
  BY <1>1, <1>2 DEF HeadInv
<1>5. CASE last
  <2>1. batch' = <<>> /\ pass' = 0 /\ skip' = FALSE /\ DOMAIN buffer' = {0}
    BY <1>2, <1>5, LayersFacts
  <2>2. <<>> \in Batches /\ Len(<<>>) = 0
    BY DEF Batches
  <2>3. RowsBefore(<<>>, Len(<<>>) + 1) = 0
    BY <2>2, RowsDef
  <2>4. DrafterTypeOK'
    BY <1>1, <1>2, <2>1, <2>2, <2>3, DrafterAssumption DEF DrafterTypeOK, Batches
  <2>5. RoundInv' /\ FirstInv' /\ FrontInv'
    BY <2>1 DEF RoundInv, FirstInv, FrontInv
  <2> QED
    BY <1>3, <1>4, <2>4, <2>5 DEF DrafterIInv
<1>6. CASE ~last
  <2>1. batch' = batch /\ pass' = pass + 1 /\ skip' = TRUE /\ buffer' = buffer /\ pass \in Nat
    BY <1>1, <1>2, <1>6 DEF DrafterTypeOK
  <2>2. DrafterTypeOK'
    BY <1>1, <1>2, <2>1 DEF DrafterTypeOK
  <2>3. RoundInv' /\ FirstInv'
    BY <1>1, <1>2, <2>1 DEF RoundInv, FirstInv
  <2>4. FrontInv'
    BY <1>1, <1>2, <2>1 DEF FrontInv, LastSelection
  <2> QED
    BY <1>3, <1>4, <2>2, <2>3, <2>4 DEF DrafterIInv
<1> QED
  BY <1>5, <1>6

LEMMA LeaveInv ==
  ASSUME DrafterIInv, NEW r \in Reqs, Leave(r)
  PROVE  DrafterIInv'
BY DEF DrafterIInv, Leave, headVars, DrafterTypeOK, RoundInv, FirstInv, FrontInv, UsedInv, HeadInv

LEMMA DrafterNextInv ==
  ASSUME DrafterIInv, [DrafterNext]_drafterVars
  PROVE  DrafterIInv'
<1>1. CASE UNCHANGED drafterVars
  BY <1>1 DEF drafterVars, passVars, headVars, DrafterIInv, DrafterTypeOK, RoundInv, FirstInv, FrontInv,
     UsedInv, HeadInv, RowIndex, LastSelection
<1> QED
  BY <1>1, FirstPassInv, CompactInv, LaterPassInv, LeaveInv DEF DrafterNext

-----------------------------------------------------------------------------
(* The properties of the drafter.                                          *)

LEMMA AcceptedPast ==
  ASSUME DrafterIInv PROVE DraftsAttendToAcceptedPast
<1> SUFFICES ASSUME NEW i \in DOMAIN used
             PROVE  LET row == used[i].row
                        past == 0 .. (n[used[i].r] - 1)
                    IN  /\ row # Old
                        /\ row.r = used[i].r
                        /\ \A blocks \in Rankings(row.q, row.s) :
                             /\ Attended(blocks, row.q, row.s) \subseteq past
                             /\ n[row.r] \div Ratio <= BlockTopk =>
                                  Attended(blocks, row.q, row.s) = past
  BY DEF DraftsAttendToAcceptedPast
<1> DEFINE r == used[i].r
           q == n[r] - 1
<1>1. r \in Reqs /\ n[r] \in Nat /\ n[r] > 0
  BY DEF DrafterIInv, UsedInv, DrafterTypeOK
<1>2. PICK s \in Nat : s >= n[r] /\ used[i].row = [r |-> r, q |-> q, s |-> s]
  BY DEF DrafterIInv, UsedInv
<1>3. q \in Nat /\ q < s /\ q + 1 = n[r]
  BY <1>1, <1>2
<1> HIDE DEF r, q
<1>4. used[i].row # Old
  <2>1. [r |-> r, q |-> q, s |-> s] \in [r : Reqs, q : Nat, s : Nat]
    BY <1>1, <1>3
  <2> QED
    BY <1>2, <2>1, DrafterAssumption
<1>5. ASSUME NEW blocks \in Rankings(q, s)
      PROVE  /\ Attended(blocks, q, s) \subseteq 0 .. q
             /\ n[r] \div Ratio <= BlockTopk => Attended(blocks, q, s) = 0 .. q
  <2>1. blocks \in Rankings(q, s)
    OBVIOUS
  <2>2. /\ Attended(blocks, q, s) \subseteq 0 .. q
        /\ (q + 1) \div Ratio <= BlockTopk => Attended(blocks, q, s) = 0 .. q
    BY <1>3, <2>1, AttendsOnce
  <2> QED
    BY <1>3, <2>2
<1>6. used[i].row.r = r /\ used[i].row.q = q /\ used[i].row.s = s
  BY <1>2
<1> QED
  BY <1>4, <1>5, <1>6 DEF r, q

(***************************************************************************)
(* The drafter's inductive invariant: in a later pass, the front of the    *)
(* buffer has the selections of the last accepted tokens, in the order of  *)
(* the batch.                                                              *)
(***************************************************************************)
THEOREM DrafterInductive == DrafterSpec => []DrafterIInv
<1>1. DrafterInit => DrafterIInv
  BY DrafterInitInv
<1>2. DrafterIInv /\ [DrafterNext]_drafterVars => DrafterIInv'
  BY DrafterNextInv
<1> QED
  BY <1>1, <1>2, PTL DEF DrafterSpec

(***************************************************************************)
(* DraftsAttendToAcceptedPast is an invariant: no draft attends to a       *)
(* rejected draft, another request or what earlier rounds left behind.     *)
(***************************************************************************)
THEOREM DraftsTheorem == DrafterSpec => []DraftsAttendToAcceptedPast
<1>1. DrafterIInv => DraftsAttendToAcceptedPast
  BY AcceptedPast
<1> QED
  BY <1>1, DrafterInductive, PTL

(***************************************************************************)
(* DraftsAreTheBestListed is an invariant: the cut-down head drafts the    *)
(* token with the model's own highest logit among those it kept.           *)
(***************************************************************************)
THEOREM BestListedTheorem == DrafterSpec => []DraftsAreTheBestListed
<1>1. DrafterIInv => DraftsAreTheBestListed
  BY BestOfHead DEF DrafterIInv, DrafterTypeOK
<1> QED
  BY <1>1, DrafterInductive, PTL

=============================================================================
