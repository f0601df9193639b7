-------------------------- MODULE ShortConv_proofs --------------------------
(***************************************************************************)
(* Proofs about ShortConv for any number of requests and slots, any kernel *)
(* and dilation, and any number of drafts.                                 *)
(***************************************************************************)
EXTENDS ShortConvInv, TLAPS

(* The offset of a tap, counted from either end of the kernel. *)
LEMMA TapOffsets ==
  ASSUME NEW k \in 1 .. Kernel
  PROVE  /\ StateLen \in Nat
         /\ (k - 1) * Dilation \in 0 .. StateLen
         /\ (Kernel - k) * Dilation = StateLen - (k - 1) * Dilation
<1>1. Kernel \in Nat /\ Dilation \in Nat /\ k - 1 \in Nat /\ Kernel - k \in Nat
  BY ConvAssumption
<1>2. \A a, b, c \in Nat : (a + b) * c = a * c + b * c /\ a * c \in Nat
  OBVIOUS
<1>3. Kernel - 1 = (Kernel - k) + (k - 1)
  BY <1>1
<1>4. (Kernel - 1) * Dilation = (Kernel - k) * Dilation + (k - 1) * Dilation
  BY <1>1, <1>2, <1>3
<1>5. (Kernel - k) * Dilation \in Nat /\ (k - 1) * Dilation \in Nat
  BY <1>1, <1>2
<1> QED
  BY <1>4, <1>5 DEF StateLen

LEMMA StateLenNat == StateLen \in Nat
<1>1. 1 \in 1 .. Kernel
  BY ConvAssumption
<1> QED
  BY <1>1, TapOffsets

(* What the guards say of the part a request takes in a step. *)
LEMMA PartFacts ==
  ASSUME TypeOK, SlotsOwned, NEW r \in Reqs, NEW p \in Parts(r), p # Idle
  PROVE  /\ p.path \in {"decode", "prefill", "spec"}
         /\ p.len \in 1 .. MaxQuery /\ p.acc \in 1 .. p.len
         /\ slot[r] \in Slots /\ slot[r] # Null
         /\ n[r] \in Nat /\ n[r] + p.len <= MaxLen /\ MaxLen \in Nat
         /\ p.path = "spec" => n[r] > 0 /\ p.len <= NumSpec + 1
         /\ p.path # "spec" => p.acc = p.len /\ accepted[r] = 1
<1>1. /\ p \in Plain(r) \cup Drafted(r)
      /\ slot[r] \in Slots /\ slot[r] # Null
      /\ n[r] \in Nat /\ n[r] + p.len <= MaxLen /\ MaxLen \in Nat
  BY ConvAssumption DEF Parts, TypeOK
<1>2. CASE p \in Plain(r)
  <2>1. p.path # "spec" /\ p.acc = p.len /\ p.len \in 1 .. MaxQuery
    BY <1>2 DEF Plain
  <2>2. p.path \in {"decode", "prefill"}
    BY <1>2 DEF Plain
  <2>3. accepted[r] = 1
    <3>1. n[r] < PromptLen \/ accepted[r] = 1
      BY <1>2, RollbackAssumption DEF Plain
    <3> QED
      BY <3>1 DEF SlotsOwned
  <2> QED
    BY <1>1, <2>1, <2>2, <2>3, ConvAssumption
<1>3. CASE p \in Drafted(r)
  <2>1. p.path = "spec" /\ p.len \in 2 .. (NumSpec + 1) /\ p.acc \in 1 .. (NumSpec + 1)
        /\ p.acc <= p.len /\ n[r] >= PromptLen
    BY <1>3 DEF Drafted
  <2> QED
    BY <1>1, <2>1, ConvAssumption, ShortConvAssumption
<1> QED
  BY <1>1, <1>2, <1>3

(* The window a step starts from continues the history of the request. *)
LEMMA WindowOfStep ==
  ASSUME IInv, NEW r \in Reqs, NEW p \in Parts(r), p # Idle, NEW i \in 1 .. StateLen
  PROVE  (IF p.path = "spec" THEN SpecWindow(r) ELSE CachedWindow(r))[i]
           = Fed(r, n[r], p.acc, n[r] + i - StateLen)
<1>1. TypeOK /\ SlotsOwned /\ WindowIsHistory
  BY DEF IInv
<1>2. /\ p.len \in Nat /\ p.acc \in Nat /\ n[r] \in Nat /\ StateLen \in Nat /\ i \in Nat
      /\ accepted[r] \in 1 .. (NumSpec + 1) /\ NumSpec \in Nat
      /\ p.path = "spec" => n[r] > 0
      /\ p.path # "spec" => accepted[r] = 1
  BY <1>1, PartFacts, StateLenNat, ShortConvAssumption, ConvAssumption DEF TypeOK
<1>3. ASSUME n[r] > 0
      PROVE  state[slot[r]][accepted[r] - 1 + i] = Fed(r, n[r], p.acc, n[r] + i - StateLen)
  <2>1. state[slot[r]][accepted[r] - 1 + i] = Fed(r, n[r], 0, n[r] - StateLen + i)
    BY <1>1, <1>3 DEF WindowIsHistory
  <2>2. n[r] - StateLen + i = n[r] + i - StateLen
    BY <1>2
  <2>3. n[r] + i - StateLen <= n[r] + 0 /\ n[r] + i - StateLen <= n[r] + p.acc
    BY <1>2
  <2>4. (n[r] + i - StateLen <= n[r] + 0) = (n[r] + i - StateLen <= n[r] + p.acc)
    BY <2>3
  <2> QED
    BY <2>1, <2>2, <2>4 DEF Fed
<1>4. CASE p.path = "spec"
  <2>1. Rollback(r) = accepted[r] - 1
    BY <1>2 DEF Rollback
  <2> QED
    BY <1>2, <1>3, <1>4, <2>1 DEF SpecWindow
<1>5. CASE p.path # "spec" /\ n[r] > 0
  <2>1. accepted[r] - 1 + i = i
    BY <1>2, <1>5
  <2> QED
    BY <1>3, <1>5, <2>1 DEF CachedWindow
<1>6. CASE p.path # "spec" /\ ~(n[r] > 0)
  <2>1. n[r] + i - StateLen < 1
    BY <1>2, <1>6
  <2> QED
    BY <1>6, <2>1 DEF CachedWindow, Fed
<1> QED
  BY <1>4, <1>5, <1>6

(***************************************************************************)
(* The window followed by the tokens of the step is a stretch of the       *)
(* request's inputs.                                                       *)
(***************************************************************************)
LEMMA ExtendedIsFed ==
  ASSUME IInv, NEW r \in Reqs, NEW p \in Parts(r), p # Idle,
         NEW i \in 1 .. (StateLen + p.len)
  PROVE  Extended(r, p)[i] = Fed(r, n[r], p.acc, n[r] + i - StateLen)
<1>1. TypeOK /\ SlotsOwned
  BY DEF IInv
<1>2. p.len \in 1 .. MaxQuery /\ StateLen \in Nat /\ MaxQuery \in Nat
  BY <1>1, PartFacts, StateLenNat, ConvAssumption
<1>3. i \in 1 .. Width
  BY <1>2 DEF Width
<1>4. CASE i <= StateLen
  <2>1. i \in 1 .. StateLen
    BY <1>2, <1>4
  <2> QED
    BY <1>3, <1>4, <2>1, WindowOfStep DEF Extended
<1>5. CASE ~(i <= StateLen)
  BY <1>3, <1>5 DEF Extended
<1> QED
  BY <1>4, <1>5

(* The convolution over the window is the convolution over the history. *)
LEMMA OutputsAreConv ==
  ASSUME IInv, NEW r \in Reqs, NEW p \in Parts(r), p # Idle
  PROVE  Outputs(r, p) = [j \in 1 .. p.len |-> Conv(r, n[r], p.acc, j)]
<1>1. TypeOK /\ SlotsOwned
  BY DEF IInv
<1>2. p.len \in Nat /\ n[r] \in Nat /\ StateLen \in Nat
  BY <1>1, PartFacts, StateLenNat
<1>3. ASSUME NEW j \in 1 .. p.len, NEW k \in 1 .. Kernel
      PROVE  Extended(r, p)[j + (k - 1) * Dilation]
               = Fed(r, n[r], p.acc, n[r] + j - (Kernel - k) * Dilation)
  <2> DEFINE o == (k - 1) * Dilation
  <2>1. o \in 0 .. StateLen /\ (Kernel - k) * Dilation = StateLen - o
    BY TapOffsets
  <2> HIDE DEF o
  <2>2. j + o \in 1 .. (StateLen + p.len)
    BY <1>2, <2>1
  <2>3. n[r] + (j + o) - StateLen = n[r] + j - (StateLen - o)
    BY <1>2, <2>1
  <2>4. Extended(r, p)[j + o] = Fed(r, n[r], p.acc, n[r] + (j + o) - StateLen)
    BY <2>2, ExtendedIsFed
  <2>5. Extended(r, p)[j + o] = Fed(r, n[r], p.acc, n[r] + j - (Kernel - k) * Dilation)
    BY <2>1, <2>3, <2>4
  <2> QED
    BY <2>5 DEF o
<1> QED
  BY <1>3 DEF Outputs, Conv

-----------------------------------------------------------------------------

LEMMA FedInputs ==
  ASSUME NEW r \in Reqs, NEW m \in Nat, NEW a \in Nat, NEW q \in Int, q <= MaxLen
  PROVE  Fed(r, m, a, q) \in Inputs
<1>1. CASE q < 1
  BY <1>1 DEF Fed, Inputs
<1>2. CASE ~(q < 1)
  <2>1. q \in 1 .. MaxLen /\ (q <= m + a) \in BOOLEAN
    BY <1>2, ConvAssumption
  <2>2. <<r, q, q <= m + a>> \in Reqs \X (1 .. MaxLen) \X BOOLEAN
    BY <2>1
  <2> QED
    BY <1>2, <2>2 DEF Fed, Inputs
<1> QED
  BY <1>1, <1>2

LEMMA NextStateType ==
  ASSUME IInv, NEW r \in Reqs, NEW p \in Parts(r), p # Idle
  PROVE  NextState(r, p) \in [1 .. Capacity -> Inputs]
<1>1. TypeOK /\ SlotsOwned
  BY DEF IInv
<1>2. /\ p.len \in 1 .. MaxQuery /\ p.acc \in Nat /\ n[r] \in Nat /\ n[r] + p.len <= MaxLen
      /\ MaxLen \in Nat /\ StateLen \in Nat /\ slot[r] \in Slots
  BY <1>1, PartFacts, StateLenNat
<1>3. \A i \in 1 .. (StateLen + p.len) : Extended(r, p)[i] \in Inputs
  <2> TAKE i \in 1 .. (StateLen + p.len)
  <2>1. Extended(r, p)[i] = Fed(r, n[r], p.acc, n[r] + i - StateLen)
    BY ExtendedIsFed
  <2>2. n[r] + i - StateLen \in Int /\ n[r] + i - StateLen <= MaxLen
    BY <1>2
  <2> QED
    BY <1>2, <2>1, <2>2, FedInputs
<1>4. \A i \in 1 .. Capacity : state[slot[r]][i] \in Inputs
  BY <1>1, <1>2 DEF TypeOK
<1>5. SpecState(r, p) \in [1 .. Capacity -> Inputs]
  <2>1. \A i \in 1 .. Capacity : i < StateLen + p.len => i + 1 \in 1 .. (StateLen + p.len)
    BY <1>2
  <2> QED
    BY <1>3, <1>4, <2>1 DEF SpecState
<1>6. PlainState(r, p) \in [1 .. Capacity -> Inputs]
  <2>1. \A i \in 1 .. Capacity : i <= StateLen => p.len + i \in 1 .. (StateLen + p.len)
    BY <1>2
  <2> QED
    BY <1>3, <1>4, <2>1 DEF PlainState
<1> QED
  BY <1>5, <1>6 DEF NextState

(* The state a step leaves holds the window of the longer history. *)
LEMMA NextWindow ==
  ASSUME IInv, NEW r \in Reqs, NEW p \in Parts(r), p # Idle, NEW i \in 1 .. StateLen
  PROVE  NextState(r, p)[(IF p.path = "spec" THEN p.acc ELSE 1) - 1 + i]
           = Fed(r, n[r] + p.acc, 0, (n[r] + p.acc) - StateLen + i)
<1>1. TypeOK /\ SlotsOwned
  BY DEF IInv
<1>2. /\ p.len \in Nat /\ p.acc \in 1 .. p.len /\ n[r] \in Nat /\ StateLen \in Nat
      /\ NumSpec \in Nat
      /\ p.path = "spec" => p.len <= NumSpec + 1
      /\ p.path # "spec" => p.acc = p.len
  BY <1>1, PartFacts, StateLenNat, ShortConvAssumption
<1>3. Extended(r, p)[p.acc + i] = Fed(r, n[r] + p.acc, 0, (n[r] + p.acc) - StateLen + i)
  <2>1. p.acc + i \in 1 .. (StateLen + p.len)
    BY <1>2
  <2>2. Extended(r, p)[p.acc + i] = Fed(r, n[r], p.acc, n[r] + (p.acc + i) - StateLen)
    BY <2>1, ExtendedIsFed
  <2>3. n[r] + (p.acc + i) - StateLen = (n[r] + p.acc) - StateLen + i
        /\ n[r] + p.acc = (n[r] + p.acc) + 0
    BY <1>2
  <2> QED
    BY <2>2, <2>3 DEF Fed
<1>4. CASE p.path = "spec"
  <2>1. /\ p.acc - 1 + i \in 1 .. Capacity
        /\ p.acc - 1 + i < StateLen + p.len
        /\ (p.acc - 1 + i) + 1 = p.acc + i
    BY <1>2, <1>4 DEF Capacity
  <2>2. SpecState(r, p)[p.acc - 1 + i] = Extended(r, p)[p.acc + i]
    BY <2>1 DEF SpecState
  <2> QED
    BY <1>3, <1>4, <2>2 DEF NextState
<1>5. CASE p.path # "spec"
  <2>1. 1 - 1 + i = i /\ i \in 1 .. Capacity /\ i <= StateLen /\ p.len + i = p.acc + i
    BY <1>2, <1>5 DEF Capacity
  <2>2. PlainState(r, p)[i] = Extended(r, p)[p.acc + i]
    BY <2>1 DEF PlainState
  <2> QED
    BY <1>3, <1>5, <2>1, <2>2 DEF NextState
<1> QED
  BY <1>4, <1>5

-----------------------------------------------------------------------------
(* Invariance. *)

LEMMA InitIInv == Init => IInv
<1> SUFFICES ASSUME Init PROVE IInv
  OBVIOUS
<1>1. TypeOK
  BY ConvAssumption, ShortConvAssumption DEF Init, HistoryInit, TypeOK, Slots, Null, Inputs
<1>2. SlotsOwned /\ WindowIsHistory
  BY DEF Init, HistoryInit, SlotsOwned, WindowIsHistory
<1> QED
  BY <1>1, <1>2 DEF IInv

LEMMA StepIInv ==
  ASSUME IInv, Step
  PROVE  IInv'
<1>0. TypeOK /\ SlotsOwned /\ WindowIsHistory
  BY DEF IInv
<1>1. PICK batch \in [Reqs -> UNION {Parts(r) : r \in Reqs}] :
        /\ \A r \in Reqs : batch[r] \in Parts(r)
        /\ n' = [r \in Reqs |-> n[r] + batch[r].acc]
        /\ accepted' = [r \in Reqs |->
                          IF batch[r].path = "none" THEN accepted[r]
                          ELSE IF batch[r].path = "spec" THEN batch[r].acc ELSE 1]
        /\ state' = [s \in Slots |->
                       IF \E r \in Reqs : slot[r] = s /\ batch[r] # Idle
                       THEN LET r == CHOOSE r \in Reqs : slot[r] = s /\ batch[r] # Idle
                            IN  NextState(r, batch[r])
                       ELSE state[s]]
        /\ slot' = slot
  BY DEF Step
<1>2. ASSUME NEW r \in Reqs, batch[r] = Idle
      PROVE  /\ n'[r] = n[r] /\ accepted'[r] = accepted[r]
             /\ slot[r] # Null => state'[slot[r]] = state[slot[r]]
  <2>1. batch[r].path = "none" /\ batch[r].acc = 0 /\ n[r] \in Nat /\ slot[r] \in Slots
    BY <1>0, <1>2, ConvAssumption DEF Idle, TypeOK
  <2>2. slot[r] # Null => ~ \E q \in Reqs : slot[q] = slot[r] /\ batch[q] # Idle
    BY <1>0, <1>2 DEF SlotsOwned
  <2> QED
    BY <1>1, <2>1, <2>2
<1>3. ASSUME NEW r \in Reqs, batch[r] # Idle
      PROVE  /\ n'[r] = n[r] + batch[r].acc
             /\ accepted'[r] = IF batch[r].path = "spec" THEN batch[r].acc ELSE 1
             /\ slot[r] # Null
             /\ state'[slot[r]] = NextState(r, batch[r])
  <2>1. batch[r].path # "none" /\ slot[r] # Null /\ slot[r] \in Slots
    BY <1>0, <1>1, <1>3, PartFacts
  <2>2. \A q \in Reqs : slot[q] = slot[r] /\ batch[q] # Idle => q = r
    BY <1>0, <2>1 DEF SlotsOwned
  <2>3. r = CHOOSE q \in Reqs : slot[q] = slot[r] /\ batch[q] # Idle
    BY <1>3, <2>2
  <2> QED
    BY <1>1, <1>3, <2>1, <2>3
<1>4. TypeOK'
  <2>1. n' \in [Reqs -> 0 .. MaxLen]
    <3>1. \A r \in Reqs : n[r] + batch[r].acc \in 0 .. MaxLen
      <4> TAKE r \in Reqs
      <4>1. CASE batch[r] = Idle
        BY <1>0, <4>1, ConvAssumption DEF TypeOK, Idle
      <4>2. CASE batch[r] # Idle
        BY <1>0, <1>1, <4>2, PartFacts
      <4> QED
        BY <4>1, <4>2
    <3> QED
      BY <1>1, <3>1
  <2>2. accepted' \in [Reqs -> 1 .. (NumSpec + 1)]
    <3>1. ASSUME NEW r \in Reqs, batch[r].path = "spec"
          PROVE  batch[r].acc \in 1 .. (NumSpec + 1)
      <4>1. batch[r] # Idle
        BY <3>1 DEF Idle
      <4>2. batch[r].acc \in 1 .. batch[r].len /\ batch[r].len <= NumSpec + 1
            /\ batch[r].len \in 1 .. MaxQuery
        BY <1>0, <1>1, <3>1, <4>1, PartFacts
      <4> QED
        BY <4>2, ConvAssumption, ShortConvAssumption
    <3>2. 1 \in 1 .. (NumSpec + 1)
      BY ShortConvAssumption
    <3> QED
      BY <1>0, <1>1, <3>1, <3>2 DEF TypeOK
  <2>3. state' \in [Slots -> [1 .. Capacity -> Inputs]]
    <3>1. ASSUME NEW s \in Slots PROVE state'[s] \in [1 .. Capacity -> Inputs]
      <4>1. CASE \E r \in Reqs : slot[r] = s /\ batch[r] # Idle
        <5>1. PICK r \in Reqs : slot[r] = s /\ batch[r] # Idle
          BY <4>1
        <5> QED
          BY <1>1, <1>3, <5>1, NextStateType
      <4>2. CASE ~ \E r \in Reqs : slot[r] = s /\ batch[r] # Idle
        BY <1>0, <1>1, <4>2 DEF TypeOK
      <4> QED
        BY <4>1, <4>2
    <3>2. state' = [s \in Slots |-> state'[s]]
      BY <1>1
    <3> QED
      BY <3>1, <3>2
  <2> QED
    BY <1>0, <1>1, <2>1, <2>2, <2>3 DEF TypeOK
<1>5. SlotsOwned'
  <2>1. ASSUME NEW r \in Reqs
        PROVE  /\ n'[r] > 0 => slot[r] # Null
               /\ n'[r] < PromptLen => accepted'[r] = 1
    <3>1. CASE batch[r] = Idle
      BY <1>0, <1>2, <3>1 DEF SlotsOwned
    <3>2. CASE batch[r] # Idle
      <4>1. batch[r] \in Parts(r) /\ batch[r].acc \in Nat /\ n[r] \in Nat
        BY <1>0, <1>1, <3>2, PartFacts
      <4>2. batch[r].path = "spec" => n[r] >= PromptLen
        BY <3>2, <4>1 DEF Parts, Plain, Drafted
      <4> QED
        BY <1>3, <3>2, <4>1, <4>2, ShortConvAssumption
    <3> QED
      BY <3>1, <3>2
  <2> QED
    BY <1>0, <1>1, <2>1 DEF SlotsOwned
<1>6. WindowIsHistory'
  <2> SUFFICES ASSUME NEW r \in Reqs, n'[r] > 0, NEW i \in 1 .. StateLen
               PROVE  state'[slot[r]][accepted'[r] - 1 + i]
                        = Fed(r, n'[r], 0, n'[r] - StateLen + i)
    BY <1>1 DEF WindowIsHistory
  <2>1. CASE batch[r] = Idle
    <3>1. slot[r] # Null
      BY <1>0, <1>2, <2>1 DEF SlotsOwned
    <3> QED
      BY <1>0, <1>2, <2>1, <3>1 DEF WindowIsHistory
  <2>2. CASE batch[r] # Idle
    <3>1. batch[r] \in Parts(r)
      BY <1>1
    <3>2. NextState(r, batch[r])[(IF batch[r].path = "spec" THEN batch[r].acc ELSE 1) - 1 + i]
            = Fed(r, n[r] + batch[r].acc, 0, (n[r] + batch[r].acc) - StateLen + i)
      BY <2>2, <3>1, NextWindow
    <3> QED
      BY <1>3, <2>2, <3>2
  <2> QED
    BY <2>1, <2>2
<1> QED
  BY <1>4, <1>5, <1>6 DEF IInv

LEMMA AdmitIInv ==
  ASSUME IInv, NEW r \in Reqs, Admit(r)
  PROVE  IInv'
<1>0. TypeOK /\ SlotsOwned /\ WindowIsHistory
  BY DEF IInv
<1>1. PICK s \in Slots \ {Null} :
        (\A q \in Reqs : slot[q] # s) /\ slot' = [slot EXCEPT ![r] = s]
  BY DEF Admit
<1>2. UNCHANGED <<n, accepted, state>> /\ n[r] = 0
  BY <1>0, ConvAssumption DEF Admit, SlotsOwned, TypeOK
<1>3. TypeOK'
  BY <1>0, <1>1, <1>2 DEF TypeOK
<1>4. SlotsOwned'
  BY <1>0, <1>1, <1>2 DEF SlotsOwned, TypeOK
<1>5. WindowIsHistory'
  BY <1>0, <1>1, <1>2 DEF WindowIsHistory, TypeOK
<1> QED
  BY <1>3, <1>4, <1>5 DEF IInv

LEMMA ReleaseIInv ==
  ASSUME IInv, NEW r \in Reqs, Release(r)
  PROVE  IInv'
<1>0. TypeOK /\ SlotsOwned /\ WindowIsHistory
  BY DEF IInv
<1>1. /\ slot' = [slot EXCEPT ![r] = Null] /\ n' = [n EXCEPT ![r] = 0]
      /\ accepted' = [accepted EXCEPT ![r] = 1] /\ state' = state
  BY DEF Release
<1>2. TypeOK'
  BY <1>0, <1>1, ConvAssumption, ShortConvAssumption DEF TypeOK, Slots, Null
<1>3. SlotsOwned'
  BY <1>0, <1>1 DEF SlotsOwned, TypeOK
<1>4. WindowIsHistory'
  BY <1>0, <1>1 DEF WindowIsHistory, TypeOK
<1> QED
  BY <1>2, <1>3, <1>4 DEF IInv

(***************************************************************************)
(* In every behaviour the slots of running requests hold their windows.    *)
(***************************************************************************)
THEOREM Inductive == Spec => []IInv
<1>1. IInv /\ [Next]_vars => IInv'
  <2> SUFFICES ASSUME IInv, [Next]_vars PROVE IInv'
    OBVIOUS
  <2>1. CASE Step
    BY <2>1, StepIInv
  <2>2. CASE \E r \in Reqs : Admit(r) \/ Release(r)
    BY <2>2, AdmitIInv, ReleaseIInv
  <2>3. CASE UNCHANGED vars
    BY <2>3 DEF vars, IInv, TypeOK, SlotsOwned, WindowIsHistory
  <2> QED
    BY <2>1, <2>2, <2>3 DEF Next
<1> QED
  BY <1>1, InitIInv, PTL DEF Spec

(***************************************************************************)
(* The rollback window is the accepted history: no rejected draft and no   *)
(* earlier owner of the slot is ever read.                                 *)
(***************************************************************************)
THEOREM WindowsAreHistories == Spec => []WindowIsHistory
<1>1. IInv => WindowIsHistory
  BY DEF IInv
<1> QED
  BY <1>1, Inductive, PTL

(***************************************************************************)
(* However tokens are cut into steps, each output is the convolution over  *)
(* the request's whole history.                                            *)
(***************************************************************************)
THEOREM Implementation == Spec => ImplementsHistory
<1>1. Init => HistoryInit
  BY DEF Init
<1>2. ASSUME IInv, [Next]_vars PROVE [Feed \/ Forget]_historyVars
  <2>0. TypeOK /\ SlotsOwned /\ TypeOK'
    <3>1. IInv'
      <4>1. CASE UNCHANGED vars
        BY <1>2, <4>1 DEF vars, IInv, TypeOK, SlotsOwned, WindowIsHistory
      <4> QED
        BY <1>2, <4>1, StepIInv, AdmitIInv, ReleaseIInv DEF Next
    <3> QED
      BY <1>2, <3>1 DEF IInv
  <2>1. CASE Step
    <3>1. PICK batch \in [Reqs -> UNION {Parts(r) : r \in Reqs}] :
            /\ \A r \in Reqs : batch[r] \in Parts(r)
            /\ n' = [r \in Reqs |-> n[r] + batch[r].acc]
            /\ outs' = [r \in Reqs |-> Outputs(r, batch[r])]
      BY <2>1 DEF Step
    <3>2. ASSUME NEW r \in Reqs
          PROVE  \E len \in 0 .. MaxQuery : \E acc \in 0 .. len :
                   /\ n'[r] = n[r] + acc
                   /\ outs'[r] = [j \in 1 .. len |-> Conv(r, n[r], acc, j)]
      <4>1. CASE batch[r] = Idle
        <5>1. batch[r].len = 0 /\ batch[r].acc = 0
          BY <4>1 DEF Idle
        <5>2. 0 \in 0 .. MaxQuery /\ 0 \in 0 .. 0 /\ 1 .. 0 = {}
          BY ConvAssumption
        <5>3. outs'[r] = [j \in 1 .. 0 |-> Conv(r, n[r], 0, j)]
          BY <3>1, <5>1, <5>2 DEF Outputs
        <5> QED
          BY <3>1, <5>1, <5>2, <5>3
      <4>2. CASE batch[r] # Idle
        <5>1. batch[r].len \in 1 .. MaxQuery /\ batch[r].acc \in 1 .. batch[r].len
          BY <2>0, <3>1, <4>2, PartFacts
        <5>2. batch[r].len \in 0 .. MaxQuery /\ batch[r].acc \in 0 .. batch[r].len
          BY <5>1, ConvAssumption
        <5>3. outs'[r] = [j \in 1 .. batch[r].len |-> Conv(r, n[r], batch[r].acc, j)]
          BY <1>2, <3>1, <4>2, OutputsAreConv
        <5> QED
          BY <3>1, <5>2, <5>3
      <4> QED
        BY <4>1, <4>2
    <3> QED
      BY <2>0, <3>2 DEF Feed, TypeOK
  <2>2. CASE \E r \in Reqs : Admit(r)
    BY <2>2 DEF Admit, historyVars
  <2>3. CASE \E r \in Reqs : Release(r)
    BY <2>3 DEF Release, Forget
  <2>4. CASE UNCHANGED vars
    BY <2>4 DEF vars, historyVars
  <2> QED
    BY <1>2, <2>1, <2>2, <2>3, <2>4 DEF Next
<1> QED
  BY <1>1, <1>2, Inductive, PTL DEF Spec, ImplementsHistory, HistorySpec

=============================================================================
