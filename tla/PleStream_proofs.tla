--------------------------- MODULE PleStream_proofs ---------------------------
(* Theorems about PleStream, for every value of its constants. *)
EXTENDS PleStreamInv, SequenceTheorems, TLAPS

-----------------------------------------------------------------------------
(* Facts about the constants and about EXCEPT, stated once. *)

LEMMA Sizes ==
  /\ NumLayers \in Nat /\ NumLayers >= 1 /\ MaxStep \in Nat /\ RunAhead = 0
  /\ 0 \in TP /\ 1 \in Layers /\ NumLayers \in Layers
  /\ \A l \in Layers : l \in Nat /\ 1 <= l /\ l <= NumLayers
  /\ \A l \in Nat : 1 <= l /\ l <= NumLayers => l \in Layers
BY StreamAssumption, ConsumedAssumption DEF TP, Layers, Local!TP, Local!Layers

(* A function of ranks updated at one rank. *)
LEMMA UpdateRank ==
  ASSUME NEW S, NEW f \in [DP -> [TP -> S]], NEW d \in DP, NEW t \in TP, NEW v \in S,
         NEW g, g = [f EXCEPT ![d][t] = v]
  PROVE  /\ g \in [DP -> [TP -> S]]
         /\ g[d][t] = v
         /\ \A e \in DP, u \in TP : e # d \/ u # t => g[e][u] = f[e][u]
OBVIOUS

(* A function of data-parallel ranks updated at one rank. *)
LEMMA UpdateDP ==
  ASSUME NEW S, NEW f \in [DP -> S], NEW d \in DP, NEW v \in S,
         NEW g, g = [f EXCEPT ![d] = v]
  PROVE  /\ g \in [DP -> S]
         /\ g[d] = v
         /\ \A e \in DP : e # d => g[e] = f[e]
OBVIOUS

(* A function of ranks and layers updated at one layer of one rank. *)
LEMMA UpdateLayer ==
  ASSUME NEW S, NEW f \in [DP -> [TP -> [Layers -> S]]], NEW d \in DP, NEW t \in TP,
         NEW l \in Layers, NEW v \in S, NEW g, g = [f EXCEPT ![d][t][l] = v]
  PROVE  /\ g \in [DP -> [TP -> [Layers -> S]]]
         /\ g[d][t][l] = v
         /\ \A e \in DP, u \in TP, k \in Layers :
              e # d \/ u # t \/ k # l => g[e][u][k] = f[e][u][k]
OBVIOUS

(* The copy streams, updated at one of them. *)
LEMMA UpdateStream ==
  ASSUME NEW S, NEW f \in [DP -> [Layers -> [TP -> S]]], NEW d \in DP, NEW l \in Layers,
         NEW t \in TP, NEW v \in S, NEW g, g = [f EXCEPT ![d][l][t] = v]
  PROVE  /\ g \in [DP -> [Layers -> [TP -> S]]]
         /\ g[d][l][t] = v
         /\ \A e \in DP, u \in TP, k \in Layers :
              e # d \/ u # t \/ k # l => g[e][k][u] = f[e][k][u]
OBVIOUS

(* The numbers of a state, for arithmetic. *)
LEMMA NatTypes ==
  ASSUME TypeOK
  PROVE  /\ \A e \in DP : inputs[e] \in Nat /\ src[e] \in Steps /\ staging[e] \in Nat
         /\ \A e \in DP, u \in TP :
              /\ hpos[e][u] \in Nat /\ hpos[e][u] <= MaxStep
              /\ fin[e][u] \in Nat /\ fin[e][u] <= MaxStep
              /\ pos[e][u] \in Nat /\ pos[e][u] <= 2 * NumLayers + 1
<1>1. \A x \in Steps : x \in Nat /\ x <= MaxStep
  BY Sizes DEF Steps
<1>2. \A x \in 0 .. (2 * NumLayers + 1) : x \in Nat /\ x <= 2 * NumLayers + 1
  BY Sizes
<1> QED
  BY <1>1, <1>2 DEF TypeOK

(* The parts of the invariant. *)
LEMMA Parts ==
  ASSUME IInv
  PROVE  /\ TypeOK /\ OneHeld
         /\ \A e \in DP : StageInv(e) /\ ServiceInv(e)
         /\ \A e \in DP, u \in TP : HostInv(e, u) /\ ConsumedInv(e, u) /\ GotInv(e, u)
         /\ \A e \in DP, u, w \in TP : InStep(e, u, w)
         /\ \A e \in DP, u \in TP, k \in Layers :
              OutstandingInv(e, k, u) /\ CopierInv(e, k, u) /\ FlagInv(e, k, u)
BY DEF IInv

(* What a step keeps that leaves streams, buffers and service alone. *)
LEMMA StreamFrame ==
  ASSUME IInv,
         UNCHANGED <<upto, pos, fin, got, out, flag, inputs, net, todo, held, scratch, copier>>
  PROVE  /\ OneHeld'
         /\ \A e \in DP, u \in TP : ConsumedInv(e, u)' /\ GotInv(e, u)'
         /\ \A e \in DP, u, w \in TP : InStep(e, u, w)'
         /\ \A e \in DP, u \in TP, k \in Layers :
              OutstandingInv(e, k, u)' /\ CopierInv(e, k, u)' /\ FlagInv(e, k, u)'
<1>0. /\ OneHeld
      /\ \A e \in DP, u \in TP : ConsumedInv(e, u) /\ GotInv(e, u)
      /\ \A e \in DP, u, w \in TP : InStep(e, u, w)
      /\ \A e \in DP, u \in TP, k \in Layers :
           OutstandingInv(e, k, u) /\ CopierInv(e, k, u) /\ FlagInv(e, k, u)
  BY Parts
<1>1. OneHeld'
  BY <1>0 DEF OneHeld
<1>2. ASSUME NEW e \in DP, NEW u \in TP
      PROVE  ConsumedInv(e, u)' /\ GotInv(e, u)' /\ \A w \in TP : InStep(e, u, w)'
  BY <1>0 DEF ConsumedInv, GotInv, InStep, Outstanding, IsReal, Local!IsReal, Local!Expected
<1>3. ASSUME NEW e \in DP, NEW u \in TP, NEW k \in Layers
      PROVE  OutstandingInv(e, k, u)' /\ CopierInv(e, k, u)' /\ FlagInv(e, k, u)'
  <2>1. OutstandingInv(e, k, u)'
    BY <1>0 DEF OutstandingInv, Outstanding
  <2>2. CopierInv(e, k, u)'
    BY <1>0 DEF CopierInv, Passed
  <2>3. FlagInv(e, k, u)'
    BY <1>0 DEF FlagInv, Free, Filled, Outstanding, IsReal, Local!IsReal, Local!Expected
  <2> QED
    BY <2>1, <2>2, <2>3
<1> QED
  BY <1>1, <1>2, <1>3

-----------------------------------------------------------------------------
(* The model thread and the request thread preserve the invariant. *)

(* A rank begins a step when it has finished the one before. *)
LEMMA BeginFacts ==
  ASSUME IInv, NEW d \in DP, NEW t \in TP, MayBegin(d, t)
  PROVE  /\ hpos[d][t] = fin[d][t] /\ hpos[d][t] + 1 \in Steps
         /\ t = 0 => /\ queue[d] = <<>> /\ staging[d] = 0
                     /\ \A l \in Layers, u \in TP : ~Outstanding(d, l, u)
<1>0. /\ TypeOK /\ StageInv(d) /\ ServiceInv(d) /\ HostInv(d, t)
      /\ fin[d][t] \in Nat /\ hpos[d][t] \in Nat /\ inputs[d] \in Nat
  BY Parts, NatTypes
<1>1. hpos[d][t] = fin[d][t] /\ hpos[d][t] < MaxStep
  BY <1>0, Sizes DEF MayBegin, HostInv
<1>2. hpos[d][t] + 1 \in Steps
  BY <1>0, <1>1, Sizes DEF Steps
<1>3. ASSUME t = 0
      PROVE  /\ queue[d] = <<>> /\ staging[d] = 0
             /\ \A l \in Layers, u \in TP : ~Outstanding(d, l, u)
  <2>1. fin[d][0] # hpos[d][0] - 1
    BY <1>0, <1>1, <1>3
  <2>2. ASSUME NEW l \in Layers, NEW u \in TP PROVE ~Outstanding(d, l, u)
    BY <1>0, <2>1 DEF ServiceInv
  <2> QED
    BY <1>0, <2>1, <2>2 DEF StageInv
<1> QED
  BY <1>1, <1>2, <1>3

LEMMA LaunchInv ==
  ASSUME IInv, NEW d \in DP, NEW t \in TP, Launch(d, t)
  PROVE  IInv'
<1> DEFINE p == hpos[d][t] + 1
<1>0. /\ TypeOK
      /\ \A e \in DP : StageInv(e) /\ ServiceInv(e)
      /\ \A e \in DP, u \in TP : HostInv(e, u)
      /\ hpos[d][t] \in Nat /\ inputs[d] \in Nat
      /\ 0 \in TP
  BY Parts, NatTypes, Sizes
<1>1. /\ hpos[d][t] = fin[d][t] /\ p \in Steps /\ IsReal(d, p)
      /\ t = 0 => /\ queue[d] = <<>> /\ staging[d] = 0
                  /\ \A l \in Layers, u \in TP : ~Outstanding(d, l, u)
  BY BeginFacts DEF Launch
<1>2. /\ hpos' \in [DP -> [TP -> Steps]] /\ hpos'[d][t] = p
      /\ \A e \in DP, u \in TP : e # d \/ u # t => hpos'[e][u] = hpos[e][u]
  BY <1>0, <1>1, UpdateRank DEF Launch, TypeOK
<1>3. /\ raised' = raised
      /\ queue' = IF t = 0 THEN [queue EXCEPT ![d] = <<p>>] ELSE queue
      /\ event' = IF t = 0 /\ cuda THEN [event EXCEPT ![d] = p] ELSE event
      /\ src'   = IF t = 0 /\ ~cuda THEN [src EXCEPT ![d] = p] ELSE src
  BY <1>1 DEF Launch, PutNowait
<1>4. /\ UNCHANGED <<cuda, staging, inputs, raw>>
      /\ UNCHANGED <<upto, pos, fin, got, out, flag, inputs, net, todo, held, scratch, copier>>
  BY DEF Launch, gpuVars, workerVars
<1>5. /\ queue' \in [DP -> AtMostOne] /\ event' \in [DP -> Steps] /\ src' \in [DP -> Steps]
      /\ t = 0 => /\ queue'[d] = <<p>>
                  /\ IF cuda THEN event'[d] = p ELSE src'[d] = p
      /\ \A e \in DP : e # d \/ t # 0 =>
           queue'[e] = queue[e] /\ event'[e] = event[e] /\ src'[e] = src[e]
  <2>1. <<p>> \in AtMostOne
    BY <1>1 DEF AtMostOne
  <2>2. queue \in [DP -> AtMostOne] /\ event \in [DP -> Steps] /\ src \in [DP -> Steps]
    BY <1>0 DEF TypeOK
  <2> HIDE DEF p
  <2> QED
    BY <1>1, <1>3, <2>1, <2>2
<1>6. TypeOK'
  BY <1>0, <1>2, <1>3, <1>4, <1>5 DEF TypeOK
<1>7. ASSUME NEW e \in DP PROVE StageInv(e)' /\ ServiceInv(e)'
  <2>1. CASE e = d /\ t = 0
    <3>1. StageInv(d)'
      BY <1>0, <1>1, <1>2, <1>4, <1>5, <2>1 DEF StageInv, IsReal, Local!IsReal
    <3>2. ServiceInv(d)'
      BY <1>0, <1>1, <1>4, <2>1 DEF ServiceInv, Outstanding
    <3> QED
      BY <2>1, <3>1, <3>2
  <2>2. CASE e # d \/ t # 0
    <3>1. hpos'[e][0] = hpos[e][0]
      BY <1>0, <1>2, <2>2
    <3> QED
      BY <1>0, <1>4, <1>5, <2>2, <3>1 DEF StageInv, ServiceInv, Outstanding, IsReal, Local!IsReal
  <2> QED
    BY <2>1, <2>2
<1>8. \A e \in DP, u \in TP : HostInv(e, u)'
  BY <1>0, <1>1, <1>2, <1>4 DEF HostInv
<1> QED
  BY <1>4, <1>6, <1>7, <1>8, StreamFrame DEF IInv

LEMMA LaunchDummyInv ==
  ASSUME IInv, NEW d \in DP, NEW t \in TP, LaunchDummy(d, t)
  PROVE  IInv'
<1> DEFINE p == hpos[d][t] + 1
<1>0. /\ TypeOK
      /\ \A e \in DP : StageInv(e) /\ ServiceInv(e)
      /\ \A e \in DP, u \in TP : HostInv(e, u)
      /\ hpos[d][t] \in Nat /\ inputs[d] \in Nat
      /\ 0 \in TP
  BY Parts, NatTypes, Sizes
<1>1. /\ hpos[d][t] = fin[d][t] /\ p \in Steps
      /\ t = 0 => /\ queue[d] = <<>> /\ staging[d] = 0
                  /\ \A l \in Layers, u \in TP : ~Outstanding(d, l, u)
  BY BeginFacts DEF LaunchDummy
<1>2. /\ hpos' \in [DP -> [TP -> Steps]] /\ hpos'[d][t] = p
      /\ \A e \in DP, u \in TP : e # d \/ u # t => hpos'[e][u] = hpos[e][u]
  BY <1>0, <1>1, UpdateRank DEF LaunchDummy, TypeOK
<1>3. /\ UNCHANGED <<cuda, raised, queue, event, src, staging, inputs, raw>>
      /\ UNCHANGED <<upto, pos, fin, got, out, flag, inputs, net, todo, held, scratch, copier>>
  BY DEF LaunchDummy, gpuVars, bufVars, workerVars
<1>4. TypeOK'
  BY <1>0, <1>2, <1>3 DEF TypeOK
<1>5. ASSUME NEW e \in DP PROVE StageInv(e)' /\ ServiceInv(e)'
  <2>1. CASE e = d /\ t = 0
    BY <1>0, <1>1, <1>2, <1>3, <2>1 DEF StageInv, ServiceInv, Outstanding, IsReal, Local!IsReal
  <2>2. CASE e # d \/ t # 0
    <3>1. hpos'[e][0] = hpos[e][0]
      BY <1>0, <1>2, <2>2
    <3> QED
      BY <1>0, <1>3, <3>1 DEF StageInv, ServiceInv, Outstanding, IsReal, Local!IsReal
  <2> QED
    BY <2>1, <2>2
<1>6. \A e \in DP, u \in TP : HostInv(e, u)'
  BY <1>0, <1>1, <1>2, <1>3 DEF HostInv
<1> QED
  BY <1>3, <1>4, <1>5, <1>6, StreamFrame DEF IInv

LEMMA GetRequestInv ==
  ASSUME IInv, NEW d \in DP, GetRequest(d)
  PROVE  IInv'
<1>0. /\ TypeOK /\ 0 \in TP
      /\ \A e \in DP : StageInv(e) /\ ServiceInv(e)
      /\ \A e \in DP, u \in TP : HostInv(e, u)
  BY Parts, Sizes
<1>1. queue[d] = <<hpos[d][0]>> /\ staging[d] = 0 /\ hpos[d][0] \in Steps
  BY <1>0 DEF GetRequest, StageInv, TypeOK
<1>2. Head(queue[d]) = hpos[d][0] /\ Tail(queue[d]) = <<>>
  BY <1>1
<1>3. /\ staging' = [staging EXCEPT ![d] = hpos[d][0]]
      /\ queue' = [queue EXCEPT ![d] = <<>>]
  BY <1>0, <1>2 DEF GetRequest, TypeOK
<1>4. /\ UNCHANGED <<cuda, hpos, raised, event, src, inputs, raw>>
      /\ UNCHANGED <<upto, pos, fin, got, out, flag, inputs, net, todo, held, scratch, copier>>
  BY DEF GetRequest, gpuVars, bufVars, workerVars
<1>5. /\ staging' \in [DP -> Steps] /\ queue' \in [DP -> AtMostOne]
      /\ staging'[d] = hpos[d][0] /\ queue'[d] = <<>>
      /\ \A e \in DP : e # d => staging'[e] = staging[e] /\ queue'[e] = queue[e]
  <2>1. <<>> \in AtMostOne
    BY DEF AtMostOne
  <2> QED
    BY <1>0, <1>1, <1>3, <2>1 DEF TypeOK
<1>6. TypeOK'
  BY <1>0, <1>4, <1>5 DEF TypeOK
<1>7. ASSUME NEW e \in DP PROVE StageInv(e)' /\ ServiceInv(e)'
  <2>1. queue[d] # <<>>
    BY DEF GetRequest
  <2>2. StageInv(d)'
    BY <1>0, <1>1, <1>4, <1>5, <2>1 DEF StageInv, IsReal, Local!IsReal
  <2>3. e # d => StageInv(e)'
    BY <1>0, <1>4, <1>5 DEF StageInv, IsReal, Local!IsReal
  <2>4. ServiceInv(e)'
    BY <1>0, <1>4 DEF ServiceInv, Outstanding
  <2> QED
    BY <2>2, <2>3, <2>4
<1>8. \A e \in DP, u \in TP : HostInv(e, u)'
  BY <1>0, <1>4 DEF HostInv
<1> QED
  BY <1>4, <1>6, <1>7, <1>8, StreamFrame DEF IInv

LEMMA ProduceInputsInv ==
  ASSUME IInv, NEW d \in DP, ProduceInputs(d)
  PROVE  IInv'
<1>0. /\ TypeOK /\ 0 \in TP /\ cuda
      /\ \A e \in DP : StageInv(e) /\ ServiceInv(e)
      /\ \A e \in DP, u \in TP : HostInv(e, u)
      /\ fin[d][0] \in Nat /\ hpos[d][0] \in Nat /\ hpos[d][0] <= MaxStep
  BY Parts, NatTypes, Sizes DEF ProduceInputs
<1>1. fin[d][0] + 1 \in Steps
  BY <1>0, Sizes DEF ProduceInputs, Steps
<1>2. /\ src' \in [DP -> Steps]
      /\ UNCHANGED <<cuda, hpos, raised, queue, event, staging, inputs, raw>>
      /\ UNCHANGED <<upto, pos, fin, got, out, flag, inputs, net, todo, held, scratch, copier>>
  BY <1>0, <1>1 DEF ProduceInputs, hostVars, gpuVars, workerVars, TypeOK
<1>3. TypeOK'
  BY <1>0, <1>2 DEF TypeOK
<1>4. \A e \in DP : StageInv(e)' /\ ServiceInv(e)'
  BY <1>0, <1>2 DEF StageInv, ServiceInv, Outstanding, IsReal, Local!IsReal
<1>5. \A e \in DP, u \in TP : HostInv(e, u)'
  BY <1>0, <1>2 DEF HostInv
<1> QED
  BY <1>2, <1>3, <1>4, <1>5, StreamFrame DEF IInv

(***************************************************************************)
(* When a batch is being staged, no earlier one is outstanding, and every  *)
(* rank has at least read all of the forward before.                       *)
(***************************************************************************)
LEMMA StagingFacts ==
  ASSUME IInv, NEW d \in DP, staging[d] # 0
  PROVE  /\ staging[d] = hpos[d][0] /\ IsReal(d, staging[d]) /\ queue[d] = <<>>
         /\ inputs[d] < staging[d]
         /\ \A l \in Layers, t \in TP : ~Outstanding(d, l, t)
         /\ \A t \in TP :
              \/ fin[d][t] = staging[d] - 1 /\ pos[d][t] \notin 2 .. (NumLayers + 1)
              \/ fin[d][t] = staging[d] - 2 /\ pos[d][t] = NumLayers + 1
<1>0. /\ StageInv(d) /\ ServiceInv(d) /\ 0 \in TP /\ 1 \in Layers
      /\ \A t \in TP : GotInv(d, t) /\ InStep(d, 0, t) /\ InStep(d, t, 0)
      /\ \A t \in TP : fin[d][t] \in Nat /\ pos[d][t] \in Nat
      /\ hpos[d][0] \in Nat /\ inputs[d] \in Nat
      /\ NumLayers \in Nat /\ NumLayers >= 1
  BY Parts, NatTypes, Sizes
<1>1. /\ staging[d] = hpos[d][0] /\ IsReal(d, hpos[d][0]) /\ queue[d] = <<>>
      /\ inputs[d] < hpos[d][0] /\ fin[d][0] = hpos[d][0] - 1
  BY <1>0 DEF StageInv
<1>2. ASSUME NEW l \in Layers, NEW t \in TP PROVE ~Outstanding(d, l, t)
  BY <1>0, <1>1 DEF ServiceInv
<1>3. ASSUME NEW t \in TP, fin[d][t] = hpos[d][0] - 1
      PROVE  pos[d][t] \notin 2 .. (NumLayers + 1)
  <2>1. fin[d][t] + 1 = hpos[d][0]
    BY <1>0, <1>3
  <2>2. IsReal(d, fin[d][t] + 1)
    BY <1>1, <2>1
  <2>3. ~(fin[d][t] < inputs[d])
    BY <1>0, <1>1, <2>1
  <2> QED
    BY <1>0, <2>2, <2>3 DEF GotInv
<1>4. pos[d][0] # NumLayers + 1
  BY <1>0, <1>1, <1>3
<1>5. ASSUME NEW t \in TP
      PROVE  \/ fin[d][t] = hpos[d][0] - 1
             \/ fin[d][t] = hpos[d][0] - 2 /\ pos[d][t] = NumLayers + 1
  BY <1>0, <1>1, <1>4 DEF InStep
<1> QED
  BY <1>1, <1>2, <1>3, <1>5

LEMMA StageAndSendInv ==
  ASSUME IInv, NEW d \in DP, StageAndSend(d)
  PROVE  IInv'
<1> DEFINE p == staging[d]
<1>0. /\ TypeOK /\ OneHeld
      /\ \A e \in DP : StageInv(e) /\ ServiceInv(e)
      /\ \A e \in DP, u \in TP : HostInv(e, u) /\ ConsumedInv(e, u) /\ GotInv(e, u)
      /\ \A e \in DP, u, w \in TP : InStep(e, u, w)
      /\ \A e \in DP, u \in TP, k \in Layers :
           OutstandingInv(e, k, u) /\ CopierInv(e, k, u) /\ FlagInv(e, k, u)
  BY Parts
<1>1. /\ p = hpos[d][0] /\ IsReal(d, p) /\ queue[d] = <<>> /\ inputs[d] < p
      /\ \A l \in Layers, t \in TP : ~Outstanding(d, l, t)
      /\ \A t \in TP :
           \/ fin[d][t] = p - 1 /\ pos[d][t] \notin 2 .. (NumLayers + 1)
           \/ fin[d][t] = p - 2 /\ pos[d][t] = NumLayers + 1
  BY StagingFacts DEF StageAndSend
<1>2. /\ \A t \in TP : fin[d][t] \in Nat /\ pos[d][t] \in Nat
      /\ p \in Nat /\ p # 0 /\ p \in Steps /\ inputs[d] \in Nat /\ 0 \in TP /\ 1 \in Layers
      /\ NumLayers \in Nat /\ NumLayers >= 1
      /\ \A l \in Layers : l \in Nat /\ 1 <= l /\ l <= NumLayers
  BY <1>0, NatTypes, Sizes DEF StageAndSend, TypeOK
<1>3. src[d] = p
  BY <1>0, <1>1, <1>2 DEF StageAndSend, InputReady, StageInv, TypeOK
<1>4. /\ net[d] = <<>>
      /\ \A l \in Layers, t \in TP : <<l, d>> \notin todo \cup held /\ copier[d][l][t] = <<>>
  BY <1>1, <1>2 DEF Outstanding
<1>5. Append(net[d], staging[d]) = <<p>>
  BY <1>4
<1>6. /\ inputs'  = [inputs EXCEPT ![d] = p]
      /\ raw'     = [raw EXCEPT ![d] = Speculative]
      /\ net'     = [net EXCEPT ![d] = <<p>>]
      /\ staging' = [staging EXCEPT ![d] = 0]
      /\ UNCHANGED <<cuda, upto, hpos, raised, queue, event, pos, fin, got, out, flag, src,
                     todo, held, scratch, copier>>
  BY <1>3, <1>5, <1>0 DEF StageAndSend, hostVars, gpuVars, workerVars, TypeOK
<1>7. /\ inputs' \in [DP -> Steps] /\ raw' \in [DP -> BOOLEAN] /\ net' \in [DP -> AtMostOne]
      /\ staging' \in [DP -> Steps]
      /\ inputs'[d] = p /\ net'[d] = <<p>> /\ staging'[d] = 0
      /\ \A e \in DP : e # d => /\ inputs'[e] = inputs[e] /\ raw'[e] = raw[e]
                                /\ net'[e] = net[e] /\ staging'[e] = staging[e]
  <2>1. <<p>> \in AtMostOne /\ 0 \in Steps /\ Speculative \in BOOLEAN
    BY <1>2, Sizes, StreamAssumption DEF AtMostOne, Steps
  <2> HIDE DEF p
  <2> QED
    BY <1>0, <1>2, <1>6, <2>1 DEF TypeOK
<1> HIDE DEF p
<1>8. TypeOK' /\ OneHeld'
  BY <1>0, <1>6, <1>7 DEF TypeOK, OneHeld
<1>9. ASSUME NEW l \in Layers, NEW t \in TP PROVE Outstanding(d, l, t)'
  <2>1. net'[d] # <<>>
    BY <1>7
  <2> QED
    BY <2>1 DEF Outstanding
<1>10. ASSUME NEW e \in DP, e # d
       PROVE  /\ StageInv(e)' /\ ServiceInv(e)'
              /\ \A u \in TP : ConsumedInv(e, u)' /\ GotInv(e, u)'
              /\ \A u \in TP, k \in Layers :
                   OutstandingInv(e, k, u)' /\ CopierInv(e, k, u)' /\ FlagInv(e, k, u)'
  <2>1. StageInv(e)' /\ ServiceInv(e)'
    BY <1>0, <1>6, <1>7, <1>10 DEF StageInv, ServiceInv, Outstanding, IsReal, Local!IsReal
  <2>2. ASSUME NEW u \in TP PROVE ConsumedInv(e, u)' /\ GotInv(e, u)'
    BY <1>0, <1>6, <1>7, <1>10
    DEF ConsumedInv, GotInv, Outstanding, IsReal, Local!IsReal, Local!Expected
  <2>3. ASSUME NEW u \in TP, NEW k \in Layers
        PROVE  OutstandingInv(e, k, u)' /\ CopierInv(e, k, u)' /\ FlagInv(e, k, u)'
    <3>1. OutstandingInv(e, k, u)'
      BY <1>0, <1>6, <1>7, <1>10 DEF OutstandingInv, Outstanding
    <3>2. CopierInv(e, k, u)'
      BY <1>0, <1>6, <1>7, <1>10 DEF CopierInv, Passed
    <3>3. FlagInv(e, k, u)'
      BY <1>0, <1>6, <1>7, <1>10
      DEF FlagInv, Free, Filled, Outstanding, IsReal, Local!IsReal, Local!Expected
    <3> QED
      BY <3>1, <3>2, <3>3
  <2> QED
    BY <2>1, <2>2, <2>3
<1>11. StageInv(d)' /\ ServiceInv(d)'
  <2>1. StageInv(d)'
    BY <1>1, <1>2, <1>6, <1>7 DEF StageInv, IsReal, Local!IsReal
  <2>2. fin[d][0] = p - 1
    BY <1>0, <1>1, <1>2 DEF StageInv, StageAndSend
  <2>3. ServiceInv(d)'
    BY <1>1, <1>2, <1>4, <1>6, <1>7, <2>2 DEF ServiceInv
  <2> QED
    BY <2>1, <2>3
<1>12. ASSUME NEW t \in TP PROVE ConsumedInv(d, t)' /\ GotInv(d, t)'
  <2>1. ConsumedInv(d, t)'
    BY <1>1, <1>2, <1>6, <1>7, <1>9 DEF ConsumedInv
  <2>2. GotInv(d, t)'
    BY <1>0, <1>1, <1>2, <1>6, <1>7 DEF GotInv, IsReal, Local!IsReal, Local!Expected
  <2> QED
    BY <2>1, <2>2
<1>13. ASSUME NEW t \in TP, NEW l \in Layers
       PROVE  OutstandingInv(d, l, t)' /\ CopierInv(d, l, t)' /\ FlagInv(d, l, t)'
  <2>1. OutstandingInv(d, l, t)'
    BY <1>1, <1>2, <1>6, <1>7, <1>9 DEF OutstandingInv
  <2>2. CopierInv(d, l, t)'
    BY <1>4, <1>6 DEF CopierInv, Passed
  <2>3. ~(Free(d, l, t) /\ inputs[d] = fin[d][t] + 1)
    BY <1>1, <1>2 DEF Free
  <2>4. FlagInv(d, l, t)'
    BY <1>0, <1>6, <1>9, <2>3
    DEF FlagInv, Free, Filled, IsReal, Local!IsReal, Local!Expected
  <2> QED
    BY <2>1, <2>2, <2>4
<1>14. \A e \in DP, u \in TP : HostInv(e, u)' /\ \A w \in TP : InStep(e, u, w)'
  BY <1>0, <1>6 DEF HostInv, InStep
<1> QED
  BY <1>8, <1>10, <1>11, <1>12, <1>13, <1>14 DEF IInv

-----------------------------------------------------------------------------
(* The model stream preserves the invariant. *)

LEMMA BeginForwardInv ==
  ASSUME IInv, NEW d \in DP, NEW t \in TP, BeginForward(d, t)
  PROVE  IInv'
<1> DEFINE p == fin[d][t] + 1
<1>0. /\ TypeOK /\ OneHeld
      /\ \A e \in DP : StageInv(e) /\ ServiceInv(e)
      /\ \A e \in DP, u \in TP : HostInv(e, u) /\ ConsumedInv(e, u) /\ GotInv(e, u)
      /\ \A e \in DP, u, w \in TP : InStep(e, u, w)
      /\ \A e \in DP, u \in TP, k \in Layers :
           OutstandingInv(e, k, u) /\ CopierInv(e, k, u) /\ FlagInv(e, k, u)
  BY Parts
<1>1. /\ fin[d][t] \in Nat /\ hpos[d][t] \in Nat /\ inputs[d] \in Nat
      /\ NumLayers \in Nat /\ NumLayers >= 1
      /\ \A l \in Layers : l \in Nat /\ 1 <= l /\ l <= NumLayers
  BY <1>0, NatTypes, Sizes
<1>2. p <= hpos[d][t] /\ pos[d][t] = 0
  BY DEF BeginForward
<1>3. /\ pos' \in [DP -> [TP -> 0 .. (2 * NumLayers + 1)]] /\ pos'[d][t] = 1
      /\ \A e \in DP, u \in TP : e # d \/ u # t => pos'[e][u] = pos[e][u]
  BY <1>0, <1>1, UpdateRank DEF BeginForward, TypeOK
<1>4. /\ got' \in [DP -> [TP -> [Layers -> Local!Values]]]
      /\ \A e \in DP, u \in TP : e # d \/ u # t => got'[e][u] = got[e][u]
  <2>1. Local!Unread \in [Layers -> Local!Values]
    BY DEF Local!Unread, Local!Values, Layers
  <2> QED
    BY <2>1, <1>0, UpdateRank DEF BeginForward, TypeOK
<1>5. /\ out' \in [DP -> [TP -> [Layers -> Local!Values]]]
      /\ flag' \in [DP -> [TP -> [Layers -> {Reset, Done}]]]
      /\ IsReal(d, p) => out' = out /\ flag' = flag
      /\ ~IsReal(d, p) => \A l \in Layers : out'[d][t][l] = Local!Zeros /\ flag'[d][t][l] = Done
      /\ \A e \in DP, u \in TP : e # d \/ u # t => out'[e][u] = out[e][u] /\ flag'[e][u] = flag[e][u]
  <2>1. /\ [l \in Layers |-> Local!Zeros] \in [Layers -> Local!Values]
        /\ [l \in Layers |-> Done] \in [Layers -> {Reset, Done}]
    BY DEF Local!Values
  <2>2. CASE IsReal(d, p)
    BY <2>2, <1>0 DEF BeginForward, TypeOK
  <2>3. CASE ~IsReal(d, p)
    <3>1. /\ out' = [out EXCEPT ![d][t] = [l \in Layers |-> Local!Zeros]]
          /\ flag' = [flag EXCEPT ![d][t] = [l \in Layers |-> Done]]
      BY <2>3 DEF BeginForward
    <3>2. /\ out' \in [DP -> [TP -> [Layers -> Local!Values]]]
          /\ out'[d][t] = [l \in Layers |-> Local!Zeros]
          /\ \A e \in DP, u \in TP : e # d \/ u # t => out'[e][u] = out[e][u]
      BY <1>0, <2>1, <3>1, UpdateRank DEF TypeOK
    <3>3. /\ flag' \in [DP -> [TP -> [Layers -> {Reset, Done}]]]
          /\ flag'[d][t] = [l \in Layers |-> Done]
          /\ \A e \in DP, u \in TP : e # d \/ u # t => flag'[e][u] = flag[e][u]
      BY <1>0, <2>1, <3>1, UpdateRank DEF TypeOK
    <3> QED
      BY <2>3, <3>2, <3>3
  <2> QED
    BY <2>2, <2>3
<1>6. UNCHANGED <<cuda, upto, hpos, raised, queue, event, staging, fin, src, inputs, raw, net,
                  todo, held, scratch, copier>>
  BY DEF BeginForward, hostVars, bufVars, workerVars
<1>7. TypeOK' /\ OneHeld'
  BY <1>0, <1>3, <1>4, <1>5, <1>6 DEF TypeOK, OneHeld
<1>8. \A e \in DP : StageInv(e)' /\ ServiceInv(e)'
  BY <1>0, <1>6 DEF StageInv, ServiceInv, Outstanding, IsReal, Local!IsReal
<1>9. fin[d][t] >= inputs[d] - 1
  BY <1>0, <1>1, <1>2 DEF ConsumedInv
<1>10. ~IsReal(d, p) => inputs[d] # p /\ \A l \in Layers : ~Outstanding(d, l, t)
  <2>1. ~IsReal(d, p) => inputs[d] # p
    BY <1>0, <1>1 DEF StageInv
  <2> QED
    BY <2>1, <1>0, <1>1, <1>9 DEF OutstandingInv
<1>11. ASSUME NEW e \in DP, NEW u \in TP
       PROVE  /\ HostInv(e, u)' /\ ConsumedInv(e, u)' /\ GotInv(e, u)'
              /\ \A w \in TP : InStep(e, w, u)'
  <2>1. CASE e = d /\ u = t
    <3>1. HostInv(d, t)'
      BY <1>0, <1>1, <1>2, <1>3, <1>6 DEF HostInv
    <3>2. ConsumedInv(d, t)'
      BY <1>6, <1>9 DEF ConsumedInv
    <3>3. GotInv(d, t)'
      BY <1>1, <1>3 DEF GotInv
    <3>4. \A w \in TP : InStep(d, w, t)'
      BY <1>0, <1>1, <1>2, <1>6 DEF InStep
    <3> QED
      BY <2>1, <3>1, <3>2, <3>3, <3>4
  <2>2. CASE e # d \/ u # t
    <3>1. pos'[e][u] = pos[e][u] /\ got'[e][u] = got[e][u]
      BY <2>2, <1>3, <1>4
    <3> QED
      BY <3>1, <1>0, <1>6
      DEF HostInv, ConsumedInv, GotInv, InStep, Outstanding, IsReal, Local!IsReal, Local!Expected
  <2> QED
    BY <2>1, <2>2
<1>12. ASSUME NEW e \in DP, NEW u \in TP, NEW k \in Layers
       PROVE  OutstandingInv(e, k, u)' /\ CopierInv(e, k, u)' /\ FlagInv(e, k, u)'
  <2>1. CASE e = d /\ u = t
    <3>1. OutstandingInv(d, k, t)'
      BY <1>0, <1>1, <1>3, <1>6 DEF OutstandingInv, Outstanding
    <3>2. CopierInv(d, k, t)'
      <4>1. CASE IsReal(d, p)
        <5>1. out'[d][t] = out[d][t] /\ flag'[d][t] = flag[d][t]
          BY <4>1, <1>5
        <5> QED
          BY <5>1, <1>0, <1>6 DEF CopierInv, Passed
      <4>2. CASE ~IsReal(d, p)
        <5>1. <<k, d>> \notin todo \cup held /\ copier[d][k][t] = <<>>
          BY <4>2, <1>10 DEF Outstanding
        <5>2. <<k, d>> \notin todo' /\ <<k, d>> \notin held' /\ copier'[d][k][t] = <<>>
          BY <5>1, <1>6
        <5> QED
          BY <5>2 DEF CopierInv, Passed
      <4> QED
        BY <4>1, <4>2
    <3>3. FlagInv(d, k, t)'
      <4>1. Free(d, k, t) /\ Free(d, k, t)'
        BY <1>1, <1>2, <1>3 DEF Free
      <4>2. CASE IsReal(d, p)
        <5>1. Filled(d, k, t)' <=> Filled(d, k, t)
          BY <4>2, <1>1, <1>2, <1>3, <1>6 DEF Filled, Outstanding, IsReal, Local!IsReal
        <5> QED
          BY <4>1, <4>2, <5>1, <1>0, <1>5, <1>6 DEF FlagInv, Local!Expected, Local!IsReal
      <4>3. CASE ~IsReal(d, p)
        <5>1. Filled(d, k, t)'
          BY <4>3, <1>1, <1>3, <1>6 DEF Filled, IsReal, Local!IsReal
        <5> QED
          BY <4>1, <4>3, <5>1, <1>5, <1>6 DEF FlagInv, Local!Expected, IsReal, Local!IsReal
      <4> QED
        BY <4>2, <4>3
    <3> QED
      BY <2>1, <3>1, <3>2, <3>3
  <2>2. CASE e # d \/ u # t
    <3>1. pos'[e][u] = pos[e][u] /\ out'[e][u] = out[e][u] /\ flag'[e][u] = flag[e][u]
      BY <2>2, <1>3, <1>5
    <3>2. OutstandingInv(e, k, u)'
      BY <3>1, <1>0, <1>6 DEF OutstandingInv, Outstanding
    <3>3. CopierInv(e, k, u)'
      BY <3>1, <1>0, <1>6 DEF CopierInv, Passed
    <3>4. FlagInv(e, k, u)'
      BY <3>1, <1>0, <1>6
      DEF FlagInv, Free, Filled, Outstanding, IsReal, Local!IsReal, Local!Expected
    <3> QED
      BY <3>2, <3>3, <3>4
  <2> QED
    BY <2>1, <2>2
<1> QED
  BY <1>7, <1>8, <1>11, <1>12 DEF IInv

(***************************************************************************)
(* A layer whose flag is 1 when its forward waits for it holds that        *)
(* forward's rows.                                                         *)
(***************************************************************************)
LEMMA ReadOwn ==
  ASSUME IInv, NEW d \in DP, NEW t \in TP, ReadLayer(d, t)
  PROVE  LET l == pos[d][t]
         IN  /\ l \in Layers /\ Free(d, l, t) /\ Filled(d, l, t)
             /\ out[d][t][l] = Local!Expected(d, fin[d][t] + 1)
<1> DEFINE l == pos[d][t]
<1>1. l \in Layers /\ flag[d][t][l] = Done
  BY DEF ReadLayer
<1>2. FlagInv(d, l, t) /\ l \in Nat
  BY <1>1, Parts, Sizes
<1>3. Free(d, l, t)
  BY <1>2 DEF Free
<1>4. Filled(d, l, t)
  BY <1>1, <1>2, <1>3 DEF FlagInv, Reset, Done
<1> QED
  BY <1>1, <1>2, <1>3, <1>4 DEF FlagInv

LEMMA ReadLayerInv ==
  ASSUME IInv, NEW d \in DP, NEW t \in TP, ReadLayer(d, t)
  PROVE  IInv'
<1> DEFINE l == pos[d][t]
<1>0. /\ TypeOK /\ OneHeld
      /\ \A e \in DP : StageInv(e) /\ ServiceInv(e)
      /\ \A e \in DP, u \in TP : HostInv(e, u) /\ ConsumedInv(e, u) /\ GotInv(e, u)
      /\ \A e \in DP, u, w \in TP : InStep(e, u, w)
      /\ \A e \in DP, u \in TP, k \in Layers :
           OutstandingInv(e, k, u) /\ CopierInv(e, k, u) /\ FlagInv(e, k, u)
  BY Parts
<1>1. /\ fin[d][t] \in Nat /\ inputs[d] \in Nat /\ NumLayers \in Nat /\ NumLayers >= 1
      /\ \A k \in Layers : k \in Nat /\ 1 <= k /\ k <= NumLayers
  BY <1>0, NatTypes, Sizes
<1>2. /\ l \in Layers /\ l \in Nat /\ 1 <= l /\ l <= NumLayers
      /\ Free(d, l, t) /\ Filled(d, l, t) /\ flag[d][t][l] = Done
      /\ out[d][t][l] = Local!Expected(d, fin[d][t] + 1)
  BY <1>1, ReadOwn DEF ReadLayer
<1>3. /\ pos' \in [DP -> [TP -> 0 .. (2 * NumLayers + 1)]] /\ pos'[d][t] = l + 1
      /\ \A e \in DP, u \in TP : e # d \/ u # t => pos'[e][u] = pos[e][u]
  <2>1. l + 1 \in 0 .. (2 * NumLayers + 1)
    BY <1>1, <1>2
  <2> QED
    BY <1>0, <2>1, UpdateRank DEF ReadLayer, TypeOK
<1>4. /\ got' \in [DP -> [TP -> [Layers -> Local!Values]]]
      /\ got'[d][t][l] = Local!Expected(d, fin[d][t] + 1)
      /\ \A e \in DP, u \in TP, k \in Layers :
           e # d \/ u # t \/ k # l => got'[e][u][k] = got[e][u][k]
  <2>1. out[d][t][l] \in Local!Values /\ got' = [got EXCEPT ![d][t][l] = out[d][t][l]]
    BY <1>0, <1>2 DEF ReadLayer, TypeOK
  <2> HIDE DEF l
  <2>2. /\ got' \in [DP -> [TP -> [Layers -> Local!Values]]]
        /\ got'[d][t][l] = out[d][t][l]
        /\ \A e \in DP, u \in TP, k \in Layers :
             e # d \/ u # t \/ k # l => got'[e][u][k] = got[e][u][k]
    BY <1>0, <1>2, <2>1, UpdateLayer DEF TypeOK
  <2> QED
    BY <1>2, <2>2
<1>5. UNCHANGED <<cuda, upto, hpos, raised, queue, event, staging, fin, out, flag, src, inputs,
                  raw, net, todo, held, scratch, copier>>
  BY DEF ReadLayer, hostVars, bufVars, workerVars
<1>6. inputs[d] = fin[d][t] + 1 => ~Outstanding(d, l, t)
  BY <1>0, <1>1, <1>2 DEF Filled, StageInv
<1>7. IsReal(d, fin[d][t] + 1) => fin[d][t] < inputs[d]
  BY <1>1, <1>2 DEF Filled
<1>8. TypeOK' /\ OneHeld'
  BY <1>0, <1>3, <1>4, <1>5 DEF TypeOK, OneHeld
<1>9. \A e \in DP : StageInv(e)' /\ ServiceInv(e)'
  BY <1>0, <1>5 DEF StageInv, ServiceInv, Outstanding, IsReal, Local!IsReal
<1>10. ASSUME NEW e \in DP, NEW u \in TP
       PROVE  /\ HostInv(e, u)' /\ ConsumedInv(e, u)' /\ GotInv(e, u)'
              /\ \A w \in TP : InStep(e, w, u)'
  <2>1. CASE e = d /\ u = t
    <3>1. HostInv(d, t)'
      BY <1>0, <1>1, <1>2, <1>3, <1>5 DEF HostInv
    <3>2. fin[d][t] >= inputs[d] - 1
      BY <1>0, <1>1, <1>2 DEF ConsumedInv
    <3>3. ConsumedInv(d, t)'
      BY <1>5, <3>2 DEF ConsumedInv
    <3>4. ASSUME NEW k \in Layers, k < l + 1
          PROVE  /\ got'[d][t][k] = Local!Expected(d, fin[d][t] + 1)
                 /\ IsReal(d, fin[d][t] + 1) => fin[d][t] < inputs[d]
      <4>1. CASE k = l
        BY <4>1, <1>4, <1>7
      <4>2. CASE k # l
        <5>1. k < l /\ l \in 1 .. (NumLayers + 1)
          BY <3>4, <4>2, <1>1, <1>2
        <5> QED
          BY <5>1, <4>2, <1>0, <1>4 DEF GotInv
      <4> QED
        BY <4>1, <4>2
    <3>5. GotInv(d, t)'
      BY <1>3, <1>5, <3>4 DEF GotInv, IsReal, Local!IsReal, Local!Expected
    <3>6. \A w \in TP : InStep(d, w, t)'
      BY <1>0, <1>1, <1>2, <1>5 DEF InStep
    <3> QED
      BY <2>1, <3>1, <3>3, <3>5, <3>6
  <2>2. CASE e # d \/ u # t
    <3>1. pos'[e][u] = pos[e][u] /\ \A k \in Layers : got'[e][u][k] = got[e][u][k]
      BY <2>2, <1>3, <1>4
    <3> QED
      BY <3>1, <1>0, <1>5
      DEF HostInv, ConsumedInv, GotInv, InStep, Outstanding, IsReal, Local!IsReal, Local!Expected
  <2> QED
    BY <2>1, <2>2
<1>11. ASSUME NEW e \in DP, NEW u \in TP, NEW k \in Layers
       PROVE  OutstandingInv(e, k, u)' /\ CopierInv(e, k, u)' /\ FlagInv(e, k, u)'
  <2>0. CopierInv(e, k, u)'
    BY <1>0, <1>5 DEF CopierInv, Passed
  <2>1. CASE e = d /\ u = t
    <3>1. OutstandingInv(d, k, t)'
      <4>1. Outstanding(d, k, t)' <=> Outstanding(d, k, t)
        BY <1>5 DEF Outstanding
      <4>2. Outstanding(d, k, t) /\ fin[d][t] = inputs[d] - 1 =>
              pos[d][t] \notin (k + 1) .. (NumLayers + 1) /\ k # l
        BY <1>0, <1>1, <1>6 DEF OutstandingInv
      <4>3. Outstanding(d, k, t) /\ fin[d][t] = inputs[d] - 1 =>
              pos'[d][t] \notin (k + 1) .. (NumLayers + 1)
        <5>1. k \in Nat /\ k # l /\ l \notin (k + 1) .. (NumLayers + 1) => k > l
          BY <1>2, <1>1
        <5>2. k \in Nat /\ k > l => l + 1 \notin (k + 1) .. (NumLayers + 1)
          BY <1>2
        <5> QED
          BY <4>2, <5>1, <5>2, <1>1, <1>3
      <4>4. pos'[d][t] \notin (NumLayers + 2) .. (NumLayers + 1 + k)
        BY <1>1, <1>2, <1>3
      <4> QED
        BY <4>1, <4>3, <4>4, <1>0, <1>5 DEF OutstandingInv
    <3>2. FlagInv(d, k, t)'
      <4>1. CASE k = l
        <5>1. ~Free(d, k, t)'
          BY <4>1, <1>1, <1>2, <1>3 DEF Free
        <5> QED
          BY <4>1, <5>1, <1>2, <1>5 DEF FlagInv
      <4>2. CASE k < l
        <5>1. ~Free(d, k, t)' /\ ~Free(d, k, t)
          BY <4>2, <1>1, <1>2, <1>3 DEF Free
        <5> QED
          BY <5>1, <1>0, <1>5 DEF FlagInv
      <4>3. CASE k > l
        <5>1. Free(d, k, t)' /\ Free(d, k, t)
          BY <4>3, <1>1, <1>2, <1>3 DEF Free
        <5>2. pos[d][t] \in 1 .. k /\ pos'[d][t] \in 1 .. k
          BY <4>3, <1>1, <1>2, <1>3
        <5>3. Filled(d, k, t)' <=> Filled(d, k, t)
          BY <5>2, <1>5 DEF Filled, Outstanding, IsReal, Local!IsReal
        <5> QED
          BY <5>1, <5>3, <1>0, <1>5 DEF FlagInv, Local!Expected, Local!IsReal
      <4> QED
        BY <4>1, <4>2, <4>3, <1>1, <1>2
    <3> QED
      BY <2>0, <2>1, <3>1, <3>2
  <2>2. CASE e # d \/ u # t
    <3>1. pos'[e][u] = pos[e][u]
      BY <2>2, <1>3
    <3>2. OutstandingInv(e, k, u)'
      BY <3>1, <1>0, <1>5 DEF OutstandingInv, Outstanding
    <3>3. FlagInv(e, k, u)'
      BY <3>1, <1>0, <1>5
      DEF FlagInv, Free, Filled, Outstanding, IsReal, Local!IsReal, Local!Expected
    <3> QED
      BY <2>0, <3>2, <3>3
  <2> QED
    BY <2>1, <2>2
<1> QED
  BY <1>8, <1>9, <1>10, <1>11 DEF IInv

(* What has passed its wait has not been signalled. *)
LEMMA PassedIsOutstanding ==
  ASSUME NEW d \in DP, NEW l \in Layers, NEW t \in TP, Passed(d, l, t)
  PROVE  Outstanding(d, l, t)
<1>1. <<"copy", "signal">> # <<>> /\ <<"signal">> # <<>>
  OBVIOUS
<1> QED
  BY <1>1 DEF Passed, Outstanding

(***************************************************************************)
(* A rank leaves a forward that waited for the batch staged last only when *)
(* the batch has been signalled everywhere; and TP rank 0 leaves no        *)
(* forward while a batch is outstanding, queued or being staged.           *)
(***************************************************************************)
LEMMA FinishFacts ==
  ASSUME IInv, NEW d \in DP, NEW t \in TP, FinishForward(d, t)
  PROVE  /\ fin[d][t] + 1 = inputs[d] => \A u \in TP, l \in Layers : ~Outstanding(d, l, u)
         /\ t = 0 => /\ \A u \in TP, l \in Layers : ~Outstanding(d, l, u)
                     /\ queue[d] = <<>> /\ staging[d] = 0
<1> DEFINE p == fin[d][t] + 1
<1>0. /\ StageInv(d) /\ ServiceInv(d) /\ GotInv(d, t)
      /\ \A u \in TP, l \in Layers : OutstandingInv(d, l, u)
      /\ \A u \in TP : fin[d][u] \in Nat
      /\ inputs[d] \in Nat /\ hpos[d][0] \in Nat /\ 0 \in TP /\ 1 \in Layers
      /\ NumLayers \in Nat /\ NumLayers >= 1
      /\ \A l \in Layers : l \in Nat /\ 1 <= l /\ l <= NumLayers
  BY Parts, NatTypes, Sizes
<1>1. /\ pos[d][t] = NumLayers + 1
      /\ \A u \in TP : fin[d][u] >= p \/ (fin[d][u] = p - 1 /\ pos[d][u] = NumLayers + 1)
  BY DEF FinishForward
<1>2. ASSUME p = inputs[d], NEW u \in TP, NEW l \in Layers PROVE ~Outstanding(d, l, u)
  <2> SUFFICES ASSUME Outstanding(d, l, u) PROVE FALSE
    OBVIOUS
  <2>1. fin[d][u] < inputs[d]
    BY <1>0 DEF OutstandingInv
  <2>2. fin[d][u] = inputs[d] - 1 /\ pos[d][u] = NumLayers + 1
    BY <1>0, <1>1, <1>2, <2>1
  <2>3. NumLayers + 1 \in (l + 1) .. (NumLayers + 1)
    BY <1>0
  <2> QED
    BY <1>0, <2>2, <2>3 DEF OutstandingInv
<1>3. ASSUME t = 0, NEW u \in TP, NEW l \in Layers PROVE ~Outstanding(d, l, u)
  <2>1. Outstanding(d, l, u) => p = inputs[d]
    BY <1>0, <1>3 DEF ServiceInv
  <2> QED
    BY <1>2, <2>1
<1>4. ASSUME t = 0 PROVE queue[d] = <<>> /\ staging[d] = 0
  <2> SUFFICES ASSUME queue[d] # <<>> \/ staging[d] # 0 PROVE FALSE
    OBVIOUS
  <2>1. IsReal(d, hpos[d][0]) /\ inputs[d] < hpos[d][0] /\ fin[d][0] = hpos[d][0] - 1
    BY <1>0 DEF StageInv
  <2>2. fin[d][t] + 1 = hpos[d][0]
    BY <1>0, <1>4, <2>1
  <2>3. IsReal(d, fin[d][t] + 1)
    BY <2>1, <2>2
  <2>4. pos[d][t] \in 1 .. (NumLayers + 1) /\ 1 < pos[d][t]
    BY <1>0, <1>1
  <2>5. fin[d][t] < inputs[d]
    BY <1>0, <2>3, <2>4 DEF GotInv
  <2> QED
    BY <1>0, <2>1, <2>2, <2>5
<1> QED
  BY <1>2, <1>3, <1>4

LEMMA FinishForwardInv ==
  ASSUME IInv, NEW d \in DP, NEW t \in TP, FinishForward(d, t)
  PROVE  IInv'
<1> DEFINE p == fin[d][t] + 1
<1>0. /\ TypeOK /\ OneHeld
      /\ \A e \in DP : StageInv(e) /\ ServiceInv(e)
      /\ \A e \in DP, u \in TP : HostInv(e, u) /\ ConsumedInv(e, u) /\ GotInv(e, u)
      /\ \A e \in DP, u, w \in TP : InStep(e, u, w)
      /\ \A e \in DP, u \in TP, k \in Layers :
           OutstandingInv(e, k, u) /\ CopierInv(e, k, u) /\ FlagInv(e, k, u)
  BY Parts
<1>1. /\ \A u \in TP : fin[d][u] \in Nat
      /\ hpos[d][t] \in Nat /\ hpos[d][t] <= MaxStep /\ inputs[d] \in Nat
      /\ NumLayers \in Nat /\ NumLayers >= 1 /\ MaxStep \in Nat /\ 0 \in TP
      /\ \A l \in Layers : l \in Nat /\ 1 <= l /\ l <= NumLayers
  BY <1>0, NatTypes, Sizes
<1>2. /\ pos[d][t] = NumLayers + 1
      /\ \A u \in TP : fin[d][u] >= p \/ (fin[d][u] = p - 1 /\ pos[d][u] = NumLayers + 1)
  BY DEF FinishForward
<1>3. p <= hpos[d][t] /\ p \in Steps
  <2>1. fin[d][t] < hpos[d][t]
    BY <1>0, <1>1, <1>2 DEF HostInv
  <2> QED
    BY <2>1, <1>1 DEF Steps
<1>4. /\ pos' \in [DP -> [TP -> 0 .. (2 * NumLayers + 1)]] /\ pos'[d][t] = NumLayers + 2
      /\ \A e \in DP, u \in TP : e # d \/ u # t => pos'[e][u] = pos[e][u]
  <2>1. pos' = [pos EXCEPT ![d][t] = pos[d][t] + 1]
    BY <1>0 DEF FinishForward, TypeOK
  <2>2. pos[d][t] + 1 = NumLayers + 2
    BY <1>1, <1>2
  <2>3. NumLayers + 2 \in 0 .. (2 * NumLayers + 1)
    BY <1>1
  <2> QED
    BY <1>0, <2>1, <2>2, <2>3, UpdateRank DEF TypeOK
<1>5. /\ fin' \in [DP -> [TP -> Steps]] /\ fin'[d][t] = p
      /\ \A e \in DP, u \in TP : e # d \/ u # t => fin'[e][u] = fin[e][u]
  BY <1>0, <1>3, UpdateRank DEF FinishForward, TypeOK
<1>6. UNCHANGED <<cuda, upto, hpos, raised, queue, event, staging, got, out, flag, src, inputs,
                  raw, net, todo, held, scratch, copier>>
  BY DEF FinishForward, hostVars, bufVars, workerVars
<1>7. /\ p = inputs[d] => \A u \in TP, l \in Layers : ~Outstanding(d, l, u)
      /\ t = 0 => /\ \A u \in TP, l \in Layers : ~Outstanding(d, l, u)
                  /\ queue[d] = <<>> /\ staging[d] = 0
  BY FinishFacts
<1>8. TypeOK' /\ OneHeld'
  BY <1>0, <1>4, <1>5, <1>6 DEF TypeOK, OneHeld
<1>9. \A e \in DP, k \in Layers, u \in TP : Outstanding(e, k, u)' <=> Outstanding(e, k, u)
  BY <1>6 DEF Outstanding
<1>10. ASSUME NEW e \in DP PROVE StageInv(e)' /\ ServiceInv(e)'
  <2>1. CASE e = d /\ t = 0
    <3>1. StageInv(e)'
      BY <2>1, <1>0, <1>6, <1>7 DEF StageInv, IsReal, Local!IsReal
    <3>2. ServiceInv(e)'
      BY <2>1, <1>0, <1>6, <1>7, <1>9 DEF ServiceInv
    <3> QED
      BY <3>1, <3>2
  <2>2. CASE e # d \/ t # 0
    <3>1. fin'[e][0] = fin[e][0]
      BY <2>2, <1>1, <1>5
    <3> QED
      BY <3>1, <1>0, <1>6 DEF StageInv, ServiceInv, Outstanding, IsReal, Local!IsReal
  <2> QED
    BY <2>1, <2>2
<1>11. ASSUME NEW e \in DP, NEW u \in TP
       PROVE  HostInv(e, u)' /\ ConsumedInv(e, u)' /\ GotInv(e, u)'
  <2>1. CASE e = d /\ u = t
    <3>1. HostInv(d, t)'
      BY <1>0, <1>1, <1>2, <1>3, <1>4, <1>5, <1>6 DEF HostInv
    <3>2. fin'[d][t] >= inputs'[d] - 1
      BY <1>0, <1>1, <1>5, <1>6 DEF ConsumedInv
    <3>3. ConsumedInv(d, t)' /\ GotInv(d, t)'
      BY <1>1, <1>4, <3>2 DEF ConsumedInv, GotInv
    <3> QED
      BY <2>1, <3>1, <3>3
  <2>2. CASE e # d \/ u # t
    <3>1. pos'[e][u] = pos[e][u] /\ fin'[e][u] = fin[e][u]
      BY <2>2, <1>4, <1>5
    <3> QED
      BY <3>1, <1>0, <1>6
      DEF HostInv, ConsumedInv, GotInv, Outstanding, IsReal, Local!IsReal, Local!Expected
  <2> QED
    BY <2>1, <2>2
<1>12. ASSUME NEW e \in DP, NEW u \in TP, NEW w \in TP PROVE InStep(e, u, w)'
  <2>1. CASE e # d
    BY <2>1, <1>0, <1>4, <1>5 DEF InStep
  <2>2. CASE e = d /\ u = t /\ w = t
    BY <2>2, <1>1, <1>5 DEF InStep
  <2>3. CASE e = d /\ u = t /\ w # t
    BY <2>3, <1>1, <1>2, <1>4, <1>5 DEF InStep
  <2>4. CASE e = d /\ u # t /\ w = t
    <3>1. fin[d][u] <= fin[d][t] \/ fin[d][u] = fin[d][t] + 1
      BY <1>0 DEF InStep
    <3> QED
      BY <2>4, <3>1, <1>1, <1>5 DEF InStep
  <2>5. CASE e = d /\ u # t /\ w # t
    BY <2>5, <1>0, <1>4, <1>5 DEF InStep
  <2> QED
    BY <2>1, <2>2, <2>3, <2>4, <2>5
<1>13. ASSUME NEW e \in DP, NEW u \in TP, NEW k \in Layers
       PROVE  OutstandingInv(e, k, u)' /\ CopierInv(e, k, u)' /\ FlagInv(e, k, u)'
  <2>1. CASE e = d /\ u = t
    <3>1. Outstanding(d, k, t) => fin[d][t] + 1 < inputs[d]
      BY <1>0, <1>1, <1>7 DEF OutstandingInv
    <3>2. OutstandingInv(d, k, t)'
      <4>1. inputs[d] = p + 1 => Outstanding(d, k, t)
        BY <1>0, <1>1 DEF ConsumedInv
      <4>2. pos'[d][t] \notin (k + 1) .. (NumLayers + 1)
        BY <1>1, <1>4
      <4> QED
        BY <3>1, <4>1, <4>2, <1>1, <1>5, <1>6, <1>9 DEF OutstandingInv
    <3>3. CopierInv(d, k, t)'
      <4>1. ~Passed(d, k, t)
        <5>1. Passed(d, k, t) => fin[d][t] = inputs[d] - 1
          BY <1>0 DEF CopierInv
        <5>2. Passed(d, k, t) => Outstanding(d, k, t)
          BY PassedIsOutstanding
        <5> QED
          BY <3>1, <5>1, <5>2, <1>1
      <4>2. ~Passed(d, k, t)'
        BY <4>1, <1>6 DEF Passed
      <4> QED
        BY <4>2, <1>0, <1>6 DEF CopierInv
    <3>4. FlagInv(d, k, t)'
      <4>1. ~Free(d, k, t) /\ ~Free(d, k, t)'
        BY <1>1, <1>2, <1>4 DEF Free
      <4> QED
        BY <4>1, <1>0, <1>6 DEF FlagInv
    <3> QED
      BY <2>1, <3>2, <3>3, <3>4
  <2>2. CASE e # d \/ u # t
    <3>1. pos'[e][u] = pos[e][u] /\ fin'[e][u] = fin[e][u]
      BY <2>2, <1>4, <1>5
    <3>2. OutstandingInv(e, k, u)'
      BY <3>1, <1>0, <1>6 DEF OutstandingInv, Outstanding
    <3>3. CopierInv(e, k, u)'
      BY <3>1, <1>0, <1>6 DEF CopierInv, Passed
    <3>4. FlagInv(e, k, u)'
      BY <3>1, <1>0, <1>6
      DEF FlagInv, Free, Filled, Outstanding, IsReal, Local!IsReal, Local!Expected
    <3> QED
      BY <3>2, <3>3, <3>4
  <2> QED
    BY <2>1, <2>2
<1> QED
  BY <1>8, <1>10, <1>11, <1>12, <1>13 DEF IInv

LEMMA ReleaseInv ==
  ASSUME IInv, NEW d \in DP, NEW t \in TP, Release(d, t)
  PROVE  IInv'
<1> DEFINE l == pos[d][t] - (NumLayers + 1)
<1>0. /\ TypeOK /\ OneHeld
      /\ \A e \in DP : StageInv(e) /\ ServiceInv(e)
      /\ \A e \in DP, u \in TP : HostInv(e, u) /\ ConsumedInv(e, u) /\ GotInv(e, u)
      /\ \A e \in DP, u, w \in TP : InStep(e, u, w)
      /\ \A e \in DP, u \in TP, k \in Layers :
           OutstandingInv(e, k, u) /\ CopierInv(e, k, u) /\ FlagInv(e, k, u)
  BY Parts
<1>1. /\ \A u \in TP : fin[d][u] \in Nat
      /\ pos[d][t] \in Nat /\ inputs[d] \in Nat /\ NumLayers \in Nat /\ NumLayers >= 1
      /\ \A k \in Layers : k \in Nat /\ 1 <= k /\ k <= NumLayers
  BY <1>0, NatTypes, Sizes
<1>2. /\ l \in Layers /\ l \in Nat /\ 1 <= l /\ l <= NumLayers /\ pos[d][t] = NumLayers + 1 + l
      /\ flag' = [flag EXCEPT ![d][t][l] = Reset]
      /\ pos' = [pos EXCEPT ![d][t] = IF l = NumLayers THEN 0 ELSE pos[d][t] + 1]
  <2>1. l \in Layers
    BY DEF Release
  <2> QED
    BY <2>1, <1>0, <1>1 DEF Release, TypeOK
<1>3. UNCHANGED <<cuda, upto, hpos, raised, queue, event, staging, fin, got, out, src, inputs,
                  raw, net, todo, held, scratch, copier>>
  BY DEF Release, hostVars, bufVars, workerVars
<1> HIDE DEF l
<1>4. /\ pos' \in [DP -> [TP -> 0 .. (2 * NumLayers + 1)]]
      /\ pos'[d][t] = IF l = NumLayers THEN 0 ELSE NumLayers + 2 + l
      /\ \A e \in DP, u \in TP : e # d \/ u # t => pos'[e][u] = pos[e][u]
  <2> DEFINE v == IF l = NumLayers THEN 0 ELSE pos[d][t] + 1
  <2>1. v \in 0 .. (2 * NumLayers + 1) /\ v = IF l = NumLayers THEN 0 ELSE NumLayers + 2 + l
    BY <1>1, <1>2
  <2>2. pos' = [pos EXCEPT ![d][t] = v]
    BY <1>2
  <2> HIDE DEF v
  <2> QED
    BY <1>0, <2>1, <2>2, UpdateRank DEF TypeOK
<1>5. /\ flag' \in [DP -> [TP -> [Layers -> {Reset, Done}]]]
      /\ flag'[d][t][l] = Reset
      /\ \A e \in DP, u \in TP, k \in Layers :
           e # d \/ u # t \/ k # l => flag'[e][u][k] = flag[e][u][k]
  BY <1>0, <1>2, UpdateLayer DEF TypeOK
<1>6. TypeOK' /\ OneHeld'
  BY <1>0, <1>3, <1>4, <1>5 DEF TypeOK, OneHeld
<1>7. \A e \in DP, k \in Layers, u \in TP : Outstanding(e, k, u)' <=> Outstanding(e, k, u)
  BY <1>3 DEF Outstanding
<1>8. \A e \in DP : StageInv(e)' /\ ServiceInv(e)'
  BY <1>0, <1>3 DEF StageInv, ServiceInv, Outstanding, IsReal, Local!IsReal
<1>9. pos'[d][t] = 0 \/ pos'[d][t] > NumLayers + 1
  BY <1>1, <1>2, <1>4
<1>10. ASSUME NEW e \in DP, NEW u \in TP
       PROVE  /\ HostInv(e, u)' /\ ConsumedInv(e, u)' /\ GotInv(e, u)'
              /\ \A w \in TP : InStep(e, w, u)'
  <2>1. CASE e = d /\ u = t
    <3>1. pos'[d][t] \notin 1 .. (NumLayers + 1) /\ pos[d][t] # NumLayers + 1
      BY <1>1, <1>2, <1>9
    <3>2. HostInv(d, t)' /\ GotInv(d, t)'
      BY <1>0, <1>3, <3>1 DEF HostInv, GotInv
    <3>3. fin[d][t] >= inputs[d] - 1 /\ \A w \in TP : fin[d][w] <= fin[d][t]
      BY <1>0, <3>1 DEF ConsumedInv, InStep
    <3>4. ConsumedInv(d, t)' /\ \A w \in TP : InStep(d, w, t)'
      BY <1>3, <3>3 DEF ConsumedInv, InStep
    <3> QED
      BY <2>1, <3>2, <3>4
  <2>2. CASE e # d \/ u # t
    <3>1. pos'[e][u] = pos[e][u]
      BY <2>2, <1>4
    <3> QED
      BY <3>1, <1>0, <1>3
      DEF HostInv, ConsumedInv, GotInv, InStep, Outstanding, IsReal, Local!IsReal, Local!Expected
  <2> QED
    BY <2>1, <2>2
<1>11. ASSUME NEW e \in DP, NEW u \in TP, NEW k \in Layers
       PROVE  OutstandingInv(e, k, u)' /\ CopierInv(e, k, u)' /\ FlagInv(e, k, u)'
  <2>0. CopierInv(e, k, u)'
    <3>1. flag'[e][u][k] = Reset \/ flag'[e][u][k] = flag[e][u][k]
      BY <1>5
    <3> QED
      BY <3>1, <1>0, <1>3 DEF CopierInv, Passed
  <2>1. CASE e = d /\ u = t
    <3>1. OutstandingInv(d, k, t)'
      <4>1. pos'[d][t] \notin (k + 1) .. (NumLayers + 1)
        BY <1>1, <1>9
      <4>2. pos'[d][t] \in (NumLayers + 2) .. (NumLayers + 1 + k) =>
              pos[d][t] \in (NumLayers + 2) .. (NumLayers + 1 + k)
        BY <1>1, <1>2, <1>4
      <4> QED
        BY <4>1, <4>2, <1>0, <1>3, <1>7 DEF OutstandingInv
    <3>2. FlagInv(d, k, t)'
      <4>1. CASE k = l
        <5>1. Free(d, k, t)'
          BY <4>1, <1>1, <1>2, <1>4 DEF Free
        <5>2. pos[d][t] \in (NumLayers + 2) .. (NumLayers + 1 + k) /\ pos'[d][t] \notin 1 .. k
          BY <4>1, <1>1, <1>2, <1>9
        <5>3. ~Filled(d, k, t)'
          BY <5>2, <1>0, <1>3, <1>7 DEF OutstandingInv, Filled
        <5> QED
          BY <4>1, <5>1, <5>3, <1>5 DEF FlagInv
      <4>2. CASE k < l
        <5>1. Free(d, k, t)' /\ Free(d, k, t)
          BY <4>2, <1>1, <1>2, <1>4 DEF Free
        <5>2. pos[d][t] \notin 1 .. k /\ pos'[d][t] \notin 1 .. k
          BY <4>2, <1>1, <1>2, <1>9
        <5>3. Filled(d, k, t)' <=> Filled(d, k, t)
          BY <5>2, <1>3, <1>7 DEF Filled
        <5>4. flag'[d][t][k] = flag[d][t][k]
          BY <4>2, <1>2, <1>5
        <5> QED
          BY <5>1, <5>3, <5>4, <1>0, <1>3 DEF FlagInv, IsReal, Local!IsReal, Local!Expected
      <4>3. CASE k > l
        <5>1. ~Free(d, k, t)' /\ ~Free(d, k, t)
          BY <4>3, <1>1, <1>2, <1>4 DEF Free
        <5>2. flag'[d][t][k] = flag[d][t][k]
          BY <4>3, <1>2, <1>5
        <5> QED
          BY <5>1, <5>2, <1>0 DEF FlagInv
      <4> QED
        BY <4>1, <4>2, <4>3, <1>1, <1>2
    <3> QED
      BY <2>0, <2>1, <3>1, <3>2
  <2>2. CASE e # d \/ u # t
    <3>1. pos'[e][u] = pos[e][u] /\ flag'[e][u][k] = flag[e][u][k]
      BY <2>2, <1>4, <1>5
    <3>2. OutstandingInv(e, k, u)'
      BY <3>1, <1>0, <1>3 DEF OutstandingInv, Outstanding
    <3>3. FlagInv(e, k, u)'
      BY <3>1, <1>0, <1>3
      DEF FlagInv, Free, Filled, Outstanding, IsReal, Local!IsReal, Local!Expected
    <3> QED
      BY <2>0, <3>2, <3>3
  <2> QED
    BY <2>1, <2>2
<1> QED
  BY <1>6, <1>8, <1>10, <1>11 DEF IInv

-----------------------------------------------------------------------------
(* The offload process and its copy streams preserve the invariant. *)

(* What may be pending on a copy stream, and what is left of it.           *)
LEMMA OpsFacts ==
  /\ <<"wait_reset">> # <<>> /\ <<"wait_reset", "copy", "signal">> # <<>>
  /\ <<"copy", "signal">> # <<>> /\ <<"signal">> # <<>>
  /\ <<"wait_reset">> # <<"wait_reset", "copy", "signal">>
  /\ <<"wait_reset">> # <<"copy", "signal">> /\ <<"wait_reset">> # <<"signal">>
  /\ <<"wait_reset", "copy", "signal">> # <<"copy", "signal">>
  /\ <<"wait_reset", "copy", "signal">> # <<"signal">>
  /\ <<"copy", "signal">> # <<"signal">>
  /\ {<<>>, <<"wait_reset">>} \subseteq Ops /\ {<<"copy", "signal">>, <<"signal">>} \subseteq Ops
  /\ <<"wait_reset", "copy", "signal">> \in Ops
<1>1. /\ Len(<<"wait_reset">>) = 1 /\ Len(<<"wait_reset", "copy", "signal">>) = 3
      /\ Len(<<"copy", "signal">>) = 2 /\ Len(<<"signal">>) = 1 /\ Len(<<>>) = 0
  OBVIOUS
<1>2. <<"wait_reset">> # <<"signal">>
  <2>1. <<"wait_reset">>[1] # <<"signal">>[1]
    OBVIOUS
  <2> QED
    BY <2>1
<1>3. /\ {<<>>, <<"wait_reset">>} \subseteq Ops
      /\ {<<"copy", "signal">>, <<"signal">>} \subseteq Ops
      /\ <<"wait_reset", "copy", "signal">> \in Ops
  BY DEF Ops
<1>4. 0 # 1 /\ 0 # 2 /\ 0 # 3 /\ 1 # 2 /\ 1 # 3 /\ 2 # 3
  OBVIOUS
<1> QED
  BY <1>1, <1>2, <1>3, <1>4

LEMMA PopFacts ==
  ASSUME NEW c \in Ops, c # <<>>
  PROVE  /\ Head(c) = "wait_reset" =>
              \/ c = <<"wait_reset">> /\ Tail(c) = <<>>
              \/ c = <<"wait_reset", "copy", "signal">> /\ Tail(c) = <<"copy", "signal">>
         /\ Head(c) = "copy" => c = <<"copy", "signal">> /\ Tail(c) = <<"signal">>
         /\ Head(c) = "signal" => c = <<"signal">> /\ Tail(c) = <<>>
<1>1. CASE c = <<"wait_reset">>
  BY <1>1
<1>2. CASE c = <<"wait_reset", "copy", "signal">>
  BY <1>2
<1>3. CASE c = <<"copy", "signal">>
  BY <1>3
<1>4. CASE c = <<"signal">>
  BY <1>4
<1> QED
  BY <1>1, <1>2, <1>3, <1>4 DEF Ops

(* What is left in the socket when some messages have been drained.        *)
LEMMA DrainFacts ==
  ASSUME NEW q \in AtMostOne, NEW k \in Nat, k <= Len(q)
  PROVE  /\ SubSeq(q, k + 1, Len(q)) = IF k = 0 THEN q ELSE <<>>
         /\ k # 0 => q # <<>>
<1>1. CASE q = <<>>
  BY <1>1
<1>2. ASSUME NEW p \in Steps, q = <<p>>
      PROVE  SubSeq(q, k + 1, Len(q)) = IF k = 0 THEN q ELSE <<>>
  <2>1. Len(q) = 1 /\ (k = 0 \/ k = 1)
    BY <1>2
  <2>2. CASE k = 0
    <3>1. q \in Seq(Steps) /\ k + 1 = 1
      BY <1>2, <2>2
    <3>2. SubSeq(q, 1, Len(q)) = q
      BY <3>1, SubSeqFull
    <3> QED
      BY <2>2, <3>1, <3>2
  <2>3. CASE k = 1
    BY <1>2, <2>3
  <2> QED
    BY <2>1, <2>2, <2>3
<1>3. k # 0 => q # <<>>
  OBVIOUS
<1> QED
  BY <1>1, <1>2, <1>3 DEF AtMostOne

(* What a step of the process or of a copy stream keeps that signals      *)
(* nothing and makes nothing newly outstanding.                            *)
LEMMA ServiceFrame ==
  ASSUME IInv,
         UNCHANGED <<cuda, upto, hpos, raised, queue, event, staging, pos, fin, got, src, inputs>>,
         \A e \in DP, k \in Layers, u \in TP : Outstanding(e, k, u)' <=> Outstanding(e, k, u)
  PROVE  /\ \A e \in DP : StageInv(e)'
         /\ \A e \in DP, k \in Layers, u \in TP :
              Outstanding(e, k, u)' =>
                inputs'[e] # 0 /\ hpos'[e][0] = inputs'[e] /\ fin'[e][0] = inputs'[e] - 1
         /\ \A e \in DP, u \in TP : HostInv(e, u)' /\ ConsumedInv(e, u)' /\ GotInv(e, u)'
         /\ \A e \in DP, u, w \in TP : InStep(e, u, w)'
         /\ \A e \in DP, u \in TP, k \in Layers : OutstandingInv(e, k, u)'
<1>0. /\ \A e \in DP : StageInv(e) /\ ServiceInv(e)
      /\ \A e \in DP, u \in TP : HostInv(e, u) /\ ConsumedInv(e, u) /\ GotInv(e, u)
      /\ \A e \in DP, u, w \in TP : InStep(e, u, w)
      /\ \A e \in DP, u \in TP, k \in Layers : OutstandingInv(e, k, u)
  BY Parts
<1>1. \A e \in DP : StageInv(e)'
  BY <1>0 DEF StageInv, IsReal, Local!IsReal
<1>2. \A e \in DP, k \in Layers, u \in TP :
        Outstanding(e, k, u)' =>
          inputs'[e] # 0 /\ hpos'[e][0] = inputs'[e] /\ fin'[e][0] = inputs'[e] - 1
  BY <1>0 DEF ServiceInv
<1>3. ASSUME NEW e \in DP, NEW u \in TP
      PROVE  /\ HostInv(e, u)' /\ ConsumedInv(e, u)' /\ GotInv(e, u)'
             /\ \A w \in TP : InStep(e, u, w)'
  BY <1>0 DEF HostInv, ConsumedInv, GotInv, InStep, IsReal, Local!IsReal, Local!Expected
<1>4. ASSUME NEW e \in DP, NEW u \in TP, NEW k \in Layers PROVE OutstandingInv(e, k, u)'
  BY <1>0 DEF OutstandingInv
<1> QED
  BY <1>1, <1>2, <1>3, <1>4

(* What the buffers hold does not change when nothing is copied, signalled *)
(* or newly outstanding.                                                   *)
LEMMA FlagFrame ==
  ASSUME IInv, NEW d \in DP, NEW l \in Layers, NEW t \in TP,
         UNCHANGED <<upto, pos, fin, inputs>>,
         flag'[d][t][l] = flag[d][t][l], out'[d][t][l] = out[d][t][l],
         Outstanding(d, l, t)' <=> Outstanding(d, l, t)
  PROVE  FlagInv(d, l, t)'
<1>1. FlagInv(d, l, t)
  BY Parts
<1> QED
  BY <1>1 DEF FlagInv, Free, Filled, IsReal, Local!IsReal, Local!Expected

(* The streams of one layer, filled together. *)
LEMMA UpdateTargets ==
  ASSUME NEW S, NEW f \in [DP -> [Layers -> [TP -> S]]], NEW d \in DP, NEW l \in Layers,
         NEW h \in [TP -> S], NEW g, g = [f EXCEPT ![d][l] = h]
  PROVE  /\ g \in [DP -> [Layers -> [TP -> S]]]
         /\ g[d][l] = h
         /\ \A e \in DP, k \in Layers : e # d \/ k # l => g[e][k] = f[e][k]
OBVIOUS

LEMMA TakeBatchInv ==
  ASSUME IInv, NEW n \in [DP -> 0 .. MaxStep], TakeBatch(n)
  PROVE  IInv'
<1> DEFINE served == {d \in DP : n[d] > 0}
<1>0. /\ TypeOK
      /\ \A e \in DP : ServiceInv(e)
      /\ \A e \in DP, u \in TP, k \in Layers : CopierInv(e, k, u)
  BY Parts
<1>1. todo = {} /\ held = {} /\ held' = {} /\ todo' = Layers \X served
  BY DEF TakeBatch
<1>2. /\ UNCHANGED <<cuda, upto, hpos, raised, queue, event, staging, pos, fin, got, out, flag,
                     src, inputs>>
      /\ UNCHANGED <<scratch, copier>>
  BY DEF TakeBatch, hostVars, gpuVars
<1>3. ASSUME NEW e \in DP
      PROVE  /\ n[e] \in Nat /\ net'[e] = IF n[e] = 0 THEN net[e] ELSE <<>>
             /\ n[e] # 0 => net[e] # <<>>
  <2>1. /\ n[e] \in Nat /\ n[e] <= Len(net[e]) /\ net[e] \in AtMostOne
        /\ net'[e] = SubSeq(net[e], n[e] + 1, Len(net[e]))
    <3>1. n[e] \in Nat /\ net[e] \in AtMostOne
      BY <1>0, Sizes DEF TypeOK
    <3>2. \A d \in DP : n[d] <= Len(net[d])
      BY DEF TakeBatch
    <3>3. net' = [d \in DP |-> SubSeq(net[d], n[d] + 1, Len(net[d]))]
      BY DEF TakeBatch
    <3> QED
      BY <3>1, <3>2, <3>3
  <2> QED
    BY <2>1, DrainFacts
<1>4. /\ net' \in [DP -> AtMostOne] /\ raw' \in [DP -> BOOLEAN]
      /\ \A e \in DP : raw'[e] <=> raw[e] /\ ~(Speculative /\ e \in served)
  <2>1. net' = [d \in DP |-> SubSeq(net[d], n[d] + 1, Len(net[d]))]
    BY DEF TakeBatch
  <2>2. \A e \in DP : net'[e] \in AtMostOne
    BY <1>0, <1>3 DEF TypeOK, AtMostOne
  <2>3. raw' = [d \in DP |-> raw[d] /\ ~(Speculative /\ d \in served)]
    BY DEF TakeBatch
  <2>4. net' \in [DP -> AtMostOne]
    BY <2>1, <2>2
  <2>5. raw' \in [DP -> BOOLEAN]
    BY <2>3
  <2>6. \A e \in DP : raw'[e] <=> raw[e] /\ ~(Speculative /\ e \in served)
    BY <2>3
  <2> QED
    BY <2>4, <2>5, <2>6
<1>5. \A e \in DP : e \in served <=> n[e] # 0
  BY <1>3
<1>6. \A e \in DP, k \in Layers : <<k, e>> \in todo' <=> e \in served
  BY <1>1
<1> HIDE DEF served
<1>7. TypeOK' /\ OneHeld'
  <2>1. todo' \subseteq Layers \X DP
    BY <1>1 DEF served
  <2> QED
    BY <1>0, <1>1, <1>2, <1>4, <2>1 DEF TypeOK, OneHeld
<1>8. ASSUME NEW e \in DP, NEW k \in Layers, NEW u \in TP
      PROVE  Outstanding(e, k, u)' <=> Outstanding(e, k, u)
  BY <1>1, <1>2, <1>3, <1>5, <1>6 DEF Outstanding
<1>9. ASSUME NEW e \in DP PROVE ServiceInv(e)'
  <2>1. \A k \in Layers, u \in TP :
          Outstanding(e, k, u)' =>
            inputs'[e] # 0 /\ hpos'[e][0] = inputs'[e] /\ fin'[e][0] = inputs'[e] - 1
    BY <1>2, <1>8, ServiceFrame
  <2>2. net'[e] # <<>> => e \notin served /\ net[e] # <<>>
    BY <1>3, <1>5
  <2>3. raw'[e] => Speculative /\ e \notin served
    BY <1>0, <1>4 DEF ServiceInv
  <2> QED
    BY <2>1, <2>2, <2>3, <1>0, <1>1, <1>2, <1>6 DEF ServiceInv
<1>10. ASSUME NEW e \in DP, NEW k \in Layers, NEW u \in TP PROVE CopierInv(e, k, u)'
  <2>1. <<k, e>> \in todo' => copier[e][k][u] = <<>>
    BY <1>0, <1>3, <1>5, <1>6 DEF ServiceInv
  <2> QED
    BY <2>1, <1>0, <1>1, <1>2 DEF CopierInv, Passed
<1>11. \A e \in DP, k \in Layers, u \in TP : FlagInv(e, k, u)'
  BY <1>2, <1>8, FlagFrame
<1> QED
  BY <1>2, <1>7, <1>8, <1>9, <1>10, <1>11, ServiceFrame DEF IInv

LEMMA WaitResetInv ==
  ASSUME IInv, NEW l \in Layers, NEW d \in DP, WaitReset(l, d)
  PROVE  IInv'
<1>0. /\ TypeOK
      /\ \A e \in DP : ServiceInv(e)
      /\ \A e \in DP, u \in TP, k \in Layers : CopierInv(e, k, u)
      /\ 0 \in TP
  BY Parts, Sizes
<1>1. /\ held = {} /\ <<l, d>> \in todo /\ \A t \in TP : copier[d][l][t] = <<>>
      /\ todo' = todo \ {<<l, d>>} /\ held' = {<<l, d>>}
  BY DEF WaitReset
<1>2. /\ UNCHANGED <<cuda, upto, hpos, raised, queue, event, staging, pos, fin, got, src, inputs>>
      /\ UNCHANGED <<out, flag, raw, net, scratch>>
  BY DEF WaitReset, hostVars, gpuVars, bufVars
<1>3. /\ copier' \in [DP -> [Layers -> [TP -> Ops]]]
      /\ \A u \in TP : copier'[d][l][u] = <<"wait_reset">>
      /\ \A e \in DP, k \in Layers : e # d \/ k # l => copier'[e][k] = copier[e][k]
  <2> DEFINE h == [t \in TP |-> <<"wait_reset">>]
  <2>1. h \in [TP -> Ops] /\ \A u \in TP : h[u] = <<"wait_reset">>
    BY OpsFacts
  <2>2. copier' = [copier EXCEPT ![d][l] = h]
    BY DEF WaitReset
  <2> HIDE DEF h
  <2> QED
    BY <1>0, <2>1, <2>2, UpdateTargets DEF TypeOK
<1>4. \A e \in DP, k \in Layers : e # d \/ k # l =>
        /\ <<k, e>> \in todo' <=> <<k, e>> \in todo
        /\ <<k, e>> \notin held /\ <<k, e>> \notin held'
  BY <1>1
<1>5. <<l, d>> \notin todo' /\ <<l, d>> \in held'
  BY <1>1
<1>6. TypeOK' /\ OneHeld'
  BY <1>0, <1>1, <1>2, <1>3 DEF TypeOK, OneHeld
<1>7. ASSUME NEW e \in DP, NEW k \in Layers, NEW u \in TP
      PROVE  Outstanding(e, k, u)' <=> Outstanding(e, k, u)
  <2>1. CASE e = d /\ k = l
    BY <2>1, <1>1, <1>5 DEF Outstanding
  <2>2. CASE e # d \/ k # l
    BY <2>2, <1>2, <1>3, <1>4 DEF Outstanding
  <2> QED
    BY <2>1, <2>2
<1>8. ASSUME NEW e \in DP PROVE ServiceInv(e)'
  <2>1. net[d] = <<>> /\ ~raw[d]
    BY <1>0, <1>1 DEF ServiceInv
  <2>2. \A k \in Layers, u \in TP :
          Outstanding(e, k, u)' =>
            inputs'[e] # 0 /\ hpos'[e][0] = inputs'[e] /\ fin'[e][0] = inputs'[e] - 1
    BY <1>2, <1>7, ServiceFrame
  <2>3. CASE e = d
    BY <2>1, <2>2, <2>3, <1>2 DEF ServiceInv
  <2>4. CASE e # d
    <3>1. \A k \in Layers : /\ <<k, e>> \notin todo \cup held => <<k, e>> \notin todo' \cup held'
                            /\ copier'[e][k] = copier[e][k]
      BY <2>4, <1>3, <1>4
    <3> QED
      BY <2>2, <3>1, <1>0, <1>2 DEF ServiceInv
  <2> QED
    BY <2>3, <2>4
<1>9. ASSUME NEW e \in DP, NEW k \in Layers, NEW u \in TP PROVE CopierInv(e, k, u)'
  <2>1. CASE e = d /\ k = l
    <3>1. copier'[e][k][u] = <<"wait_reset">> /\ <<k, e>> \notin todo' /\ <<k, e>> \in held'
      BY <2>1, <1>3, <1>5
    <3> QED
      BY <3>1, OpsFacts DEF CopierInv, Passed
  <2>2. CASE e # d \/ k # l
    <3>1. copier'[e][k][u] = copier[e][k][u]
      BY <2>2, <1>3
    <3> QED
      BY <2>2, <3>1, <1>0, <1>2, <1>4 DEF CopierInv, Passed
  <2> QED
    BY <2>1, <2>2
<1>10. \A e \in DP, k \in Layers, u \in TP : FlagInv(e, k, u)'
  BY <1>2, <1>7, FlagFrame
<1> QED
  BY <1>2, <1>6, <1>7, <1>8, <1>9, <1>10, ServiceFrame DEF IInv

LEMMA ComputeInv ==
  ASSUME IInv, NEW l \in Layers, NEW d \in DP, Compute(l, d)
  PROVE  IInv'
<1>0. /\ TypeOK /\ OneHeld
      /\ \A e \in DP : ServiceInv(e)
      /\ \A e \in DP, u \in TP, k \in Layers : CopierInv(e, k, u)
      /\ 0 \in TP
  BY Parts, Sizes
<1>1. held = {<<l, d>>} /\ held' = {} /\ <<l, d>> \notin todo /\ ~raw[d] /\ net[d] = <<>>
  <2>1. <<l, d>> \in held /\ held' = {}
    BY DEF Compute
  <2>2. held = {<<l, d>>}
    BY <2>1, <1>0 DEF OneHeld
  <2> QED
    BY <2>1, <2>2, <1>0 DEF CopierInv, ServiceInv
<1>2. /\ UNCHANGED <<cuda, upto, hpos, raised, queue, event, staging, pos, fin, got, src, inputs>>
      /\ UNCHANGED <<out, flag, raw, net, todo>>
  BY DEF Compute, hostVars, gpuVars, bufVars
<1>3. /\ scratch' \in [DP -> [Layers -> Local!Values]]
      /\ scratch'[d][l] = inputs[d]
      /\ \A e \in DP, k \in Layers : e # d \/ k # l => scratch'[e][k] = scratch[e][k]
  <2>1. inputs[d] \in Local!Values
    BY <1>0, Sizes DEF TypeOK, Steps, Local!Values, Local!Zeros
  <2>2. scratch' = [scratch EXCEPT ![d][l] = inputs[d]]
    BY <1>1 DEF Compute
  <2> QED
    BY <1>0, <2>1, <2>2 DEF TypeOK
<1>4. /\ copier' \in [DP -> [Layers -> [TP -> Ops]]]
      /\ \A u \in TP :
           copier'[d][l][u] = IF copier[d][l][u] = <<>> THEN <<"copy", "signal">>
                              ELSE <<"wait_reset", "copy", "signal">>
      /\ \A e \in DP, k \in Layers : e # d \/ k # l => copier'[e][k] = copier[e][k]
  <2> DEFINE h == [t \in TP |-> copier[d][l][t] \o <<"copy", "signal">>]
  <2>1. ASSUME NEW u \in TP
        PROVE  h[u] = IF copier[d][l][u] = <<>> THEN <<"copy", "signal">>
                      ELSE <<"wait_reset", "copy", "signal">>
    <3>1. copier[d][l][u] \in {<<>>, <<"wait_reset">>}
      BY <1>0, <1>1 DEF CopierInv
    <3>2. CASE copier[d][l][u] = <<>>
      <4>1. <<>> \o <<"copy", "signal">> = <<"copy", "signal">>
        OBVIOUS
      <4> QED
        BY <3>2, <4>1
    <3>3. CASE copier[d][l][u] = <<"wait_reset">>
      <4> DEFINE a == <<"wait_reset">>
                 b == <<"copy", "signal">>
                 c == <<"wait_reset", "copy", "signal">>
                 S == {"wait_reset", "copy", "signal"}
      <4>0. a \in Seq(S) /\ b \in Seq(S) /\ c \in Seq(S)
        OBVIOUS
      <4>1. a \o b = c
        <5>1. a \o b \in Seq(S) /\ Len(a \o b) = 3 /\ Len(c) = 3
          BY <4>0, ConcatProperties
        <5>2. \A i \in 1 .. 3 : (a \o b)[i] = c[i]
          BY <4>0, ConcatProperties
        <5> QED
          BY <4>0, <5>1, <5>2, SeqEqual
      <4> QED
        BY <3>3, <4>1, OpsFacts
    <3> QED
      BY <3>1, <3>2, <3>3
  <2>2. h \in [TP -> Ops]
    <3>1. \A u \in TP : h[u] \in Ops
      BY <2>1, OpsFacts
    <3> QED
      BY <3>1
  <2>3. copier' = [copier EXCEPT ![d][l] = h]
    BY <1>0 DEF Compute, CopyAndSignal, TypeOK
  <2> HIDE DEF h
  <2>4. /\ copier' \in [DP -> [Layers -> [TP -> Ops]]]
        /\ copier'[d][l] = h
        /\ \A e \in DP, k \in Layers : e # d \/ k # l => copier'[e][k] = copier[e][k]
    BY <1>0, <2>2, <2>3, UpdateTargets DEF TypeOK
  <2> QED
    BY <2>1, <2>4
<1>5. TypeOK' /\ OneHeld'
  BY <1>0, <1>1, <1>2, <1>3, <1>4 DEF TypeOK, OneHeld
<1>6. \A e \in DP, k \in Layers : e # d \/ k # l => <<k, e>> \notin held
  BY <1>1
<1>7. ASSUME NEW e \in DP, NEW k \in Layers, NEW u \in TP
      PROVE  Outstanding(e, k, u)' <=> Outstanding(e, k, u)
  <2>1. CASE e = d /\ k = l
    <3>1. copier'[e][k][u] # <<>>
      BY <2>1, <1>4, OpsFacts
    <3> QED
      BY <2>1, <3>1, <1>1 DEF Outstanding
  <2>2. CASE e # d \/ k # l
    BY <2>2, <1>1, <1>2, <1>4, <1>6 DEF Outstanding
  <2> QED
    BY <2>1, <2>2
<1>8. ASSUME NEW e \in DP PROVE ServiceInv(e)'
  <2>1. \A k \in Layers, u \in TP :
          Outstanding(e, k, u)' =>
            inputs'[e] # 0 /\ hpos'[e][0] = inputs'[e] /\ fin'[e][0] = inputs'[e] - 1
    BY <1>2, <1>7, ServiceFrame
  <2>2. CASE e = d
    BY <2>1, <2>2, <1>1, <1>2 DEF ServiceInv
  <2>3. CASE e # d
    BY <2>1, <2>3, <1>0, <1>1, <1>2, <1>4 DEF ServiceInv
  <2> QED
    BY <2>2, <2>3
<1>9. ASSUME NEW e \in DP, NEW k \in Layers, NEW u \in TP PROVE CopierInv(e, k, u)'
  <2>1. CASE e = d /\ k = l
    <3>1. <<k, e>> \notin todo' /\ <<k, e>> \notin held'
      BY <2>1, <1>1, <1>2
    <3>2. copier'[e][k][u] = IF copier[e][k][u] = <<>> THEN <<"copy", "signal">>
                             ELSE <<"wait_reset", "copy", "signal">>
      BY <2>1, <1>4
    <3>3. Passed(e, k, u)' => Passed(e, k, u)
      BY <2>1, <3>1, <3>2, <1>1, OpsFacts DEF Passed
    <3>4. copier'[e][k][u] # <<"wait_reset">> /\ copier'[e][k][u] # <<"signal">>
      BY <3>2, OpsFacts
    <3> QED
      BY <2>1, <3>1, <3>3, <3>4, <1>0, <1>2, <1>3 DEF CopierInv
  <2>2. CASE e # d \/ k # l
    <3>1. copier'[e][k][u] = copier[e][k][u] /\ scratch'[e][k] = scratch[e][k]
      BY <2>2, <1>3, <1>4
    <3> QED
      BY <2>2, <3>1, <1>0, <1>1, <1>2, <1>6 DEF CopierInv, Passed
  <2> QED
    BY <2>1, <2>2
<1>10. \A e \in DP, k \in Layers, u \in TP : FlagInv(e, k, u)'
  BY <1>2, <1>7, FlagFrame
<1> QED
  BY <1>2, <1>5, <1>7, <1>8, <1>9, <1>10, ServiceFrame DEF IInv


(* A copy past its wait has found the buffer free, of the step before. *)
LEMMA ResetMeansFree ==
  ASSUME IInv, NEW d \in DP, NEW l \in Layers, NEW t \in TP,
         flag[d][t][l] = Reset, Outstanding(d, l, t)
  PROVE  Free(d, l, t) /\ ~Filled(d, l, t) /\ fin[d][t] = inputs[d] - 1
<1>0. /\ ConsumedInv(d, t) /\ OutstandingInv(d, l, t) /\ FlagInv(d, l, t)
      /\ fin[d][t] \in Nat /\ inputs[d] \in Nat
      /\ l \in Nat /\ 1 <= l /\ l <= NumLayers /\ NumLayers \in Nat
  BY Parts, NatTypes, Sizes
<1>1. Free(d, l, t) /\ ~Filled(d, l, t)
  BY <1>0 DEF FlagInv, Reset, Done
<1>2. pos[d][t] # NumLayers + 1
  BY <1>0, <1>1 DEF Free
<1>3. fin[d][t] < inputs[d]
  BY <1>0 DEF OutstandingInv
<1> QED
  BY <1>0, <1>1, <1>2, <1>3 DEF ConsumedInv

(* What taking the first operation off a copy stream changes. *)
LEMMA PopOne ==
  ASSUME IInv, NEW d \in DP, NEW l \in Layers, NEW t \in TP, NEW op, NextIs(d, l, t, op),
         op \in {"wait_reset", "copy", "signal"}, Pop(d, l, t)
  PROVE  /\ copier[d][l][t] \in Ops /\ copier[d][l][t] # <<>> /\ Head(copier[d][l][t]) = op
         /\ copier' \in [DP -> [Layers -> [TP -> Ops]]]
         /\ copier'[d][l][t] = Tail(copier[d][l][t])
         /\ \A e \in DP, u \in TP, k \in Layers :
              e # d \/ u # t \/ k # l => copier'[e][k][u] = copier[e][k][u]
<1>0. copier \in [DP -> [Layers -> [TP -> Ops]]]
  BY Parts DEF TypeOK
<1>1. copier[d][l][t] \in Ops /\ copier[d][l][t] # <<>> /\ Head(copier[d][l][t]) = op
  BY <1>0 DEF NextIs
<1>2. Tail(copier[d][l][t]) \in Ops
  BY <1>1, PopFacts, OpsFacts
<1>3. copier' = [copier EXCEPT ![d][l][t] = Tail(copier[d][l][t])]
  BY <1>0 DEF Pop
<1> QED
  BY <1>0, <1>1, <1>2, <1>3, UpdateStream

LEMMA PassResetInv ==
  ASSUME IInv, NEW d \in DP, NEW l \in Layers, NEW t \in TP, PassReset(d, l, t)
  PROVE  IInv'
<1> DEFINE c == copier[d][l][t]
<1>0. /\ TypeOK /\ OneHeld
      /\ \A e \in DP : ServiceInv(e)
      /\ \A e \in DP, u \in TP, k \in Layers : CopierInv(e, k, u)
      /\ 0 \in TP
  BY Parts, Sizes
<1>1. /\ c \in Ops /\ c # <<>> /\ Head(c) = "wait_reset"
      /\ copier' \in [DP -> [Layers -> [TP -> Ops]]]
      /\ copier'[d][l][t] = Tail(c)
      /\ \A e \in DP, u \in TP, k \in Layers :
           e # d \/ u # t \/ k # l => copier'[e][k][u] = copier[e][k][u]
  BY PopOne DEF PassReset
<1>2. /\ UNCHANGED <<cuda, upto, hpos, raised, queue, event, staging, pos, fin, got, src, inputs>>
      /\ UNCHANGED <<out, flag, raw, net, todo, held, scratch>>
      /\ flag[d][t][l] = Reset
  BY DEF PassReset, hostVars, gpuVars, bufVars, workerVars
<1>3. \/ c = <<"wait_reset">> /\ copier'[d][l][t] = <<>> /\ <<l, d>> \in held
      \/ c = <<"wait_reset", "copy", "signal">> /\ copier'[d][l][t] = <<"copy", "signal">>
  BY <1>0, <1>1, PopFacts DEF CopierInv
<1>4. TypeOK' /\ OneHeld'
  BY <1>0, <1>1, <1>2 DEF TypeOK, OneHeld
<1>5. ASSUME NEW e \in DP, NEW k \in Layers, NEW u \in TP
      PROVE  Outstanding(e, k, u)' <=> Outstanding(e, k, u)
  <2>1. CASE e = d /\ k = l /\ u = t
    BY <2>1, <1>1, <1>2, <1>3, OpsFacts DEF Outstanding
  <2>2. CASE e # d \/ k # l \/ u # t
    BY <2>2, <1>1, <1>2 DEF Outstanding
  <2> QED
    BY <2>1, <2>2
<1>6. ASSUME NEW e \in DP PROVE ServiceInv(e)'
  <2>1. \A k \in Layers, u \in TP :
          Outstanding(e, k, u)' =>
            inputs'[e] # 0 /\ hpos'[e][0] = inputs'[e] /\ fin'[e][0] = inputs'[e] - 1
    BY <1>2, <1>5, ServiceFrame
  <2>2. net[d] = <<>>
    BY <1>0, <1>1 DEF ServiceInv
  <2>3. net[e] # <<>> => \A k \in Layers, u \in TP : copier'[e][k][u] = copier[e][k][u]
    BY <1>1, <2>2
  <2> QED
    BY <2>1, <2>3, <1>0, <1>2 DEF ServiceInv
<1>7. ASSUME NEW e \in DP, NEW k \in Layers, NEW u \in TP PROVE CopierInv(e, k, u)'
  <2>1. CASE e = d /\ k = l /\ u = t
    <3>1. Outstanding(d, l, t)
      BY <1>1 DEF Outstanding
    <3>2. fin[d][t] = inputs[d] - 1
      BY <1>2, <3>1, ResetMeansFree
    <3>3. <<l, d>> \notin todo
      BY <1>0, <1>1 DEF CopierInv
    <3>4. copier'[d][l][t] = <<"copy", "signal">> => scratch[d][l] = inputs[d] /\ <<l, d>> \notin held
      BY <1>0, <1>3, OpsFacts DEF CopierInv
    <3>5. copier'[d][l][t] \in {<<>>, <<"copy", "signal">>}
      BY <1>3
    <3> QED
      BY <2>1, <3>2, <3>3, <3>4, <3>5, <1>2, OpsFacts DEF CopierInv
  <2>2. CASE e # d \/ k # l \/ u # t
    <3>1. copier'[e][k][u] = copier[e][k][u]
      BY <2>2, <1>1
    <3> QED
      BY <3>1, <1>0, <1>2 DEF CopierInv, Passed
  <2> QED
    BY <2>1, <2>2
<1>8. \A e \in DP, k \in Layers, u \in TP : FlagInv(e, k, u)'
  BY <1>2, <1>5, FlagFrame
<1> QED
  BY <1>2, <1>4, <1>5, <1>6, <1>7, <1>8, ServiceFrame DEF IInv

LEMMA CopyLandsInv ==
  ASSUME IInv, NEW d \in DP, NEW l \in Layers, NEW t \in TP, CopyLands(d, l, t)
  PROVE  IInv'
<1> DEFINE c == copier[d][l][t]
<1>0. /\ TypeOK /\ OneHeld
      /\ \A e \in DP : ServiceInv(e)
      /\ \A e \in DP, u \in TP, k \in Layers : CopierInv(e, k, u) /\ FlagInv(e, k, u)
      /\ 0 \in TP
  BY Parts, Sizes
<1>1. /\ c \in Ops /\ c # <<>> /\ Head(c) = "copy"
      /\ copier' \in [DP -> [Layers -> [TP -> Ops]]]
      /\ copier'[d][l][t] = Tail(c)
      /\ \A e \in DP, u \in TP, k \in Layers :
           e # d \/ u # t \/ k # l => copier'[e][k][u] = copier[e][k][u]
  BY PopOne DEF CopyLands
<1>2. /\ UNCHANGED <<cuda, upto, hpos, raised, queue, event, staging, pos, fin, got, src, inputs>>
      /\ UNCHANGED <<flag, raw, net, todo, held, scratch>>
  BY DEF CopyLands, hostVars, gpuVars, bufVars, workerVars
<1>3. c = <<"copy", "signal">> /\ copier'[d][l][t] = <<"signal">>
  BY <1>1, PopFacts
<1>4. Passed(d, l, t) /\ Outstanding(d, l, t) /\ scratch[d][l] = inputs[d]
  BY <1>0, <1>3, OpsFacts DEF Passed, Outstanding, CopierInv
<1>5. flag[d][t][l] = Reset /\ fin[d][t] = inputs[d] - 1 /\ <<l, d>> \notin todo \cup held
  BY <1>0, <1>3, <1>4, OpsFacts DEF CopierInv
<1>6. /\ out' \in [DP -> [TP -> [Layers -> Local!Values]]]
      /\ out'[d][t][l] = inputs[d]
      /\ \A e \in DP, u \in TP, k \in Layers :
           e # d \/ u # t \/ k # l => out'[e][u][k] = out[e][u][k]
  <2>1. inputs[d] \in Local!Values
    BY <1>0, Sizes DEF TypeOK, Steps, Local!Values, Local!Zeros
  <2>2. out' = [out EXCEPT ![d][t][l] = inputs[d]]
    BY <1>4 DEF CopyLands
  <2> QED
    BY <1>0, <2>1, <2>2, UpdateLayer DEF TypeOK
<1>7. TypeOK' /\ OneHeld'
  BY <1>0, <1>1, <1>2, <1>6 DEF TypeOK, OneHeld
<1>8. ASSUME NEW e \in DP, NEW k \in Layers, NEW u \in TP
      PROVE  Outstanding(e, k, u)' <=> Outstanding(e, k, u)
  <2>1. CASE e = d /\ k = l /\ u = t
    BY <2>1, <1>1, <1>2, <1>3, OpsFacts DEF Outstanding
  <2>2. CASE e # d \/ k # l \/ u # t
    BY <2>2, <1>1, <1>2 DEF Outstanding
  <2> QED
    BY <2>1, <2>2
<1>9. ASSUME NEW e \in DP PROVE ServiceInv(e)'
  <2>1. \A k \in Layers, u \in TP :
          Outstanding(e, k, u)' =>
            inputs'[e] # 0 /\ hpos'[e][0] = inputs'[e] /\ fin'[e][0] = inputs'[e] - 1
    BY <1>2, <1>8, ServiceFrame
  <2>2. net[d] = <<>>
    BY <1>0, <1>1 DEF ServiceInv
  <2>3. net[e] # <<>> => \A k \in Layers, u \in TP : copier'[e][k][u] = copier[e][k][u]
    BY <1>1, <2>2
  <2> QED
    BY <2>1, <2>3, <1>0, <1>2 DEF ServiceInv
<1>10. ASSUME NEW e \in DP, NEW k \in Layers, NEW u \in TP PROVE CopierInv(e, k, u)'
  <2>1. CASE e = d /\ k = l /\ u = t
    BY <2>1, <1>2, <1>3, <1>4, <1>5, <1>6, OpsFacts DEF CopierInv
  <2>2. CASE e # d \/ k # l \/ u # t
    <3>1. copier'[e][k][u] = copier[e][k][u] /\ out'[e][u][k] = out[e][u][k]
      BY <2>2, <1>1, <1>6
    <3> QED
      BY <3>1, <1>0, <1>2 DEF CopierInv, Passed
  <2> QED
    BY <2>1, <2>2
<1>11. ASSUME NEW e \in DP, NEW k \in Layers, NEW u \in TP PROVE FlagInv(e, k, u)'
  <2>1. CASE e = d /\ k = l /\ u = t
    <3>1. Free(d, l, t) /\ ~Filled(d, l, t)
      BY <1>4, <1>5, ResetMeansFree
    <3>2. Free(d, l, t)' /\ ~Filled(d, l, t)'
      BY <3>1, <1>2, <1>8 DEF Free, Filled, IsReal, Local!IsReal
    <3> QED
      BY <2>1, <3>2, <1>2, <1>5 DEF FlagInv
  <2>2. CASE e # d \/ k # l \/ u # t
    <3>1. flag'[e][u][k] = flag[e][u][k] /\ out'[e][u][k] = out[e][u][k]
      BY <2>2, <1>2, <1>6
    <3> QED
      BY <3>1, <1>2, <1>8, FlagFrame
  <2> QED
    BY <2>1, <2>2
<1> QED
  BY <1>2, <1>7, <1>8, <1>9, <1>10, <1>11, ServiceFrame DEF IInv

LEMMA SignalInv ==
  ASSUME IInv, NEW d \in DP, NEW l \in Layers, NEW t \in TP, Signal(d, l, t)
  PROVE  IInv'
<1> DEFINE c == copier[d][l][t]
<1>0. /\ TypeOK /\ OneHeld
      /\ \A e \in DP : StageInv(e) /\ ServiceInv(e)
      /\ \A e \in DP, u \in TP : HostInv(e, u) /\ ConsumedInv(e, u) /\ GotInv(e, u)
      /\ \A e \in DP, u, w \in TP : InStep(e, u, w)
      /\ \A e \in DP, u \in TP, k \in Layers :
           OutstandingInv(e, k, u) /\ CopierInv(e, k, u) /\ FlagInv(e, k, u)
  BY Parts
<1>1. /\ c \in Ops /\ c # <<>> /\ Head(c) = "signal"
      /\ copier' \in [DP -> [Layers -> [TP -> Ops]]]
      /\ copier'[d][l][t] = Tail(c)
      /\ \A e \in DP, u \in TP, k \in Layers :
           e # d \/ u # t \/ k # l => copier'[e][k][u] = copier[e][k][u]
  BY PopOne DEF Signal
<1>2. /\ UNCHANGED <<cuda, upto, hpos, raised, queue, event, staging, pos, fin, got, src, inputs>>
      /\ UNCHANGED <<out, raw, net, todo, held, scratch>>
  BY DEF Signal, hostVars, gpuVars, bufVars, workerVars
<1>3. c = <<"signal">> /\ copier'[d][l][t] = <<>>
  BY <1>1, PopFacts
<1>4. Passed(d, l, t) /\ Outstanding(d, l, t) /\ out[d][t][l] = inputs[d]
  BY <1>0, <1>3, OpsFacts DEF Passed, Outstanding, CopierInv
<1>5. /\ flag[d][t][l] = Reset /\ fin[d][t] = inputs[d] - 1
      /\ <<l, d>> \notin todo \cup held /\ net[d] = <<>>
      /\ inputs[d] # 0 /\ IsReal(d, inputs[d])
  <2>1. <<l, d>> \notin todo \cup held
    BY <1>0, <1>3, OpsFacts DEF CopierInv
  <2>2. flag[d][t][l] = Reset /\ fin[d][t] = inputs[d] - 1
    BY <1>0, <1>4 DEF CopierInv
  <2>3. net[d] = <<>> /\ inputs[d] # 0
    BY <1>0, <1>1, <1>4 DEF ServiceInv
  <2> QED
    BY <2>1, <2>2, <2>3, <1>0 DEF StageInv
<1>6. Free(d, l, t) /\ fin[d][t] + 1 = inputs[d] /\ fin[d][t] \in Nat /\ inputs[d] \in Nat
  BY <1>0, <1>4, <1>5, ResetMeansFree, NatTypes
<1>7. /\ flag' \in [DP -> [TP -> [Layers -> {Reset, Done}]]]
      /\ flag'[d][t][l] = Done
      /\ \A e \in DP, u \in TP, k \in Layers :
           e # d \/ u # t \/ k # l => flag'[e][u][k] = flag[e][u][k]
  BY <1>0, UpdateLayer DEF Signal, TypeOK
<1>8. TypeOK' /\ OneHeld'
  BY <1>0, <1>1, <1>2, <1>7 DEF TypeOK, OneHeld
<1>9. ~Outstanding(d, l, t)'
  BY <1>2, <1>3, <1>5 DEF Outstanding
<1>10. \A e \in DP, k \in Layers, u \in TP :
         e # d \/ k # l \/ u # t => (Outstanding(e, k, u)' <=> Outstanding(e, k, u))
  BY <1>1, <1>2 DEF Outstanding
<1>11. \A e \in DP, k \in Layers, u \in TP : Outstanding(e, k, u)' => Outstanding(e, k, u)
  BY <1>4, <1>10
<1>12. ASSUME NEW e \in DP PROVE StageInv(e)' /\ ServiceInv(e)'
  <2>1. StageInv(e)'
    BY <1>0, <1>2 DEF StageInv, IsReal, Local!IsReal
  <2>2. net[e] # <<>> => \A k \in Layers, u \in TP : copier'[e][k][u] = copier[e][k][u]
    BY <1>1, <1>5
  <2>3. ServiceInv(e)'
    BY <2>2, <1>0, <1>2, <1>11 DEF ServiceInv
  <2> QED
    BY <2>1, <2>3
<1>13. ASSUME NEW e \in DP, NEW u \in TP
       PROVE  /\ HostInv(e, u)' /\ ConsumedInv(e, u)' /\ GotInv(e, u)'
              /\ \A w \in TP : InStep(e, u, w)'
  <2>1. HostInv(e, u)' /\ GotInv(e, u)' /\ \A w \in TP : InStep(e, u, w)'
    BY <1>0, <1>2 DEF HostInv, GotInv, InStep, IsReal, Local!IsReal, Local!Expected
  <2>2. ConsumedInv(e, u)'
    <3>1. CASE e = d /\ u = t
      BY <3>1, <1>2, <1>6 DEF ConsumedInv
    <3>2. CASE e # d \/ u # t
      BY <3>2, <1>0, <1>2, <1>10 DEF ConsumedInv
    <3> QED
      BY <3>1, <3>2
  <2> QED
    BY <2>1, <2>2
<1>14. ASSUME NEW e \in DP, NEW u \in TP, NEW k \in Layers
       PROVE  OutstandingInv(e, k, u)' /\ CopierInv(e, k, u)' /\ FlagInv(e, k, u)'
  <2>1. CASE e = d /\ u = t /\ k = l
    <3>0. l \in Nat /\ 1 <= l /\ l <= NumLayers /\ NumLayers \in Nat
      BY Sizes
    <3>1. pos[d][t] \notin (NumLayers + 2) .. (NumLayers + 1 + l)
      BY <3>0, <1>6 DEF Free
    <3>2. OutstandingInv(d, l, t)'
      BY <3>1, <1>2, <1>9 DEF OutstandingInv
    <3>3. CopierInv(d, l, t)'
      BY <1>2, <1>3, <1>5, OpsFacts DEF CopierInv, Passed
    <3>4. Free(d, l, t)' /\ Filled(d, l, t)'
      BY <1>2, <1>6, <1>9 DEF Free, Filled
    <3>5. out'[d][t][l] = Local!Expected(d, fin[d][t] + 1)'
      BY <1>2, <1>4, <1>5, <1>6 DEF Local!Expected, IsReal, Local!IsReal
    <3>6. FlagInv(d, l, t)'
      BY <3>4, <3>5, <1>7 DEF FlagInv
    <3> QED
      BY <2>1, <3>2, <3>3, <3>6
  <2>2. CASE e # d \/ u # t \/ k # l
    <3>1. /\ flag'[e][u][k] = flag[e][u][k] /\ copier'[e][k][u] = copier[e][k][u]
          /\ Outstanding(e, k, u)' <=> Outstanding(e, k, u)
      BY <2>2, <1>1, <1>7, <1>10
    <3>2. OutstandingInv(e, k, u)'
      BY <3>1, <1>0, <1>2 DEF OutstandingInv
    <3>3. CopierInv(e, k, u)'
      BY <3>1, <1>0, <1>2 DEF CopierInv, Passed
    <3>4. FlagInv(e, k, u)'
      BY <3>1, <1>2, FlagFrame
    <3> QED
      BY <3>2, <3>3, <3>4
  <2> QED
    BY <2>1, <2>2
<1> QED
  BY <1>8, <1>12, <1>13, <1>14 DEF IInv

-----------------------------------------------------------------------------
(* The invariant is inductive. *)

LEMMA StutterInv ==
  ASSUME IInv, UNCHANGED vars
  PROVE  IInv'
<1>0. UNCHANGED <<cuda, upto, hpos, raised, queue, event, staging, pos, fin, got, out, flag,
                  src, inputs, raw, net, todo, held, scratch, copier>>
  BY DEF vars, hostVars, gpuVars, bufVars, workerVars
<1>1. /\ TypeOK
      /\ \A e \in DP : StageInv(e) /\ ServiceInv(e)
      /\ \A e \in DP, u \in TP : HostInv(e, u)
  BY Parts
<1>2. TypeOK'
  BY <1>0, <1>1 DEF TypeOK
<1>3. \A e \in DP : StageInv(e)' /\ ServiceInv(e)'
  BY <1>0, <1>1 DEF StageInv, ServiceInv, Outstanding, IsReal, Local!IsReal
<1>4. \A e \in DP, u \in TP : HostInv(e, u)'
  BY <1>0, <1>1 DEF HostInv
<1> QED
  BY <1>0, <1>2, <1>3, <1>4, StreamFrame DEF IInv

LEMMA InitInv == Init => IInv
<1> SUFFICES ASSUME Init PROVE IInv
  OBVIOUS
<1>0. /\ 0 \in Steps /\ 0 \in 0 .. (2 * NumLayers + 1) /\ <<>> \in AtMostOne /\ <<>> \in Ops
      /\ NumLayers \in Nat /\ NumLayers >= 1 /\ 0 \in TP
      /\ Local!Junk \in Local!Values
      /\ \A l \in Layers : l \in Nat /\ 1 <= l /\ l <= NumLayers
  <2>1. <<>> \in AtMostOne /\ <<>> \in Ops
    BY DEF AtMostOne, Ops
  <2>2. Local!Junk \in Local!Values
    BY DEF Local!Values
  <2>3. 0 \in Steps /\ 0 \in 0 .. (2 * NumLayers + 1)
    BY Sizes DEF Steps
  <2> QED
    BY <2>1, <2>2, <2>3, Sizes
<1>1. /\ cuda \in BOOLEAN
      /\ upto \in [DP -> [Steps -> Steps]]
  <2>1. Local!Schedules \subseteq [Steps -> Steps]
    BY DEF Local!Schedules, Local!Steps, Steps
  <2> QED
    BY <2>1, StreamAssumption DEF Init
<1>2. Local!Unread \in [Layers -> Local!Values]
  BY <1>0 DEF Local!Unread, Layers
<1>3. /\ got \in [DP -> [TP -> [Layers -> Local!Values]]]
      /\ out \in [DP -> [TP -> [Layers -> Local!Values]]]
      /\ flag \in [DP -> [TP -> [Layers -> {Reset, Done}]]]
      /\ scratch \in [DP -> [Layers -> Local!Values]]
      /\ copier \in [DP -> [Layers -> [TP -> Ops]]]
  BY <1>0, <1>2 DEF Init
<1>4. TypeOK
  BY <1>0, <1>1, <1>3 DEF Init, TypeOK
<1>5. /\ \A d \in DP : /\ net[d] = <<>> /\ raw[d] = FALSE /\ inputs[d] = 0
                       /\ queue[d] = <<>> /\ staging[d] = 0
      /\ \A d \in DP, t \in TP : fin[d][t] = 0 /\ pos[d][t] = 0 /\ hpos[d][t] = 0
      /\ \A d \in DP, l \in Layers, t \in TP : copier[d][l][t] = <<>> /\ flag[d][t][l] = Reset
  BY DEF Init
<1>6. todo = {} /\ held = {}
  BY DEF Init
<1>7. \A d \in DP, l \in Layers, t \in TP : ~Outstanding(d, l, t)
  BY <1>5, <1>6 DEF Outstanding
<1>8. ASSUME NEW d \in DP PROVE StageInv(d) /\ ServiceInv(d)
  <2>1. 1 \in Layers
    BY Sizes
  <2> QED
    BY <2>1, <1>0, <1>5, <1>7 DEF StageInv, ServiceInv
<1>9. ASSUME NEW d \in DP, NEW t \in TP
      PROVE  /\ HostInv(d, t) /\ ConsumedInv(d, t) /\ GotInv(d, t)
             /\ \A u \in TP : InStep(d, t, u)
  <2>1. 1 \in Layers
    BY Sizes
  <2> QED
    BY <2>1, <1>0, <1>5 DEF HostInv, ConsumedInv, GotInv, InStep
<1>10. ASSUME NEW d \in DP, NEW t \in TP, NEW l \in Layers
       PROVE  OutstandingInv(d, l, t) /\ CopierInv(d, l, t) /\ FlagInv(d, l, t)
  <2>1. OutstandingInv(d, l, t)
    BY <1>0, <1>5, <1>7 DEF OutstandingInv
  <2>2. CopierInv(d, l, t)
    BY <1>5, <1>6, OpsFacts DEF CopierInv, Passed
  <2>3. ~Filled(d, l, t)
    BY <1>0, <1>5 DEF Filled
  <2>4. Free(d, l, t)
    BY <1>0, <1>5 DEF Free
  <2> QED
    BY <2>1, <2>2, <2>3, <2>4, <1>5 DEF FlagInv
<1> QED
  BY <1>4, <1>6, <1>8, <1>9, <1>10 DEF IInv, OneHeld

LEMMA NextInv == IInv /\ [Next]_vars => IInv'
<1> SUFFICES ASSUME IInv, [Next]_vars PROVE IInv'
  OBVIOUS
<1>1. ASSUME NEW d \in DP, NEW t \in TP, HostStep(d, t) PROVE IInv'
  BY <1>1, LaunchInv, LaunchDummyInv DEF HostStep
<1>2. ASSUME NEW d \in DP, NEW t \in TP, GpuStep(d, t) PROVE IInv'
  BY <1>2, ProduceInputsInv, BeginForwardInv, ReadLayerInv, FinishForwardInv, ReleaseInv
  DEF GpuStep
<1>3. ASSUME NEW d \in DP, RequestStep(d) PROVE IInv'
  BY <1>3, GetRequestInv, StageAndSendInv DEF RequestStep
<1>4. ASSUME WorkerStep PROVE IInv'
  BY <1>4, TakeBatchInv, WaitResetInv, ComputeInv DEF WorkerStep
<1>5. ASSUME NEW d \in DP, NEW l \in Layers, NEW t \in TP, CopyStep(d, l, t) PROVE IInv'
  BY <1>5, PassResetInv, CopyLandsInv, SignalInv DEF CopyStep
<1>6. ASSUME UNCHANGED vars PROVE IInv'
  BY <1>6, StutterInv
<1> QED
  BY <1>1, <1>2, <1>3, <1>4, <1>5, <1>6 DEF Next

-----------------------------------------------------------------------------
(* The theorems. *)

(***************************************************************************)
(* The invariant holds in every reachable state: types, and the two values *)
(* of a flag telling free, filled and consumed buffers apart.              *)
(***************************************************************************)
THEOREM Inductive == Spec => []IInv
BY InitInv, NextInv, PTL DEF Spec

(***************************************************************************)
(* put_nowait finds room in the request queue of size one, whatever the    *)
(* schedule: no worker dies of a full queue.                               *)
(***************************************************************************)
THEOREM QueueHasRoom == Spec => []PutFindsRoom
<1>1. IInv => PutFindsRoom
  BY DEF IInv, TypeOK, PutFindsRoom
<1> QED
  BY <1>1, Inductive, PTL

(***************************************************************************)
(* The shared input buffers stay those of the request in flight until the  *)
(* last layer has been computed from them.                                 *)
(***************************************************************************)
THEOREM InputsAreStable == Spec => []InputsOfRequest
<1>1. ASSUME IInv PROVE InputsOfRequest
  <2> SUFFICES ASSUME NEW d \in DP, net[d] # <<>> \/ \E w \in todo \cup held : w[2] = d
               PROVE  inputs[d] = hpos[d][0]
    BY DEF InputsOfRequest
  <2>0. ServiceInv(d) /\ TypeOK /\ 0 \in TP /\ 1 \in Layers
    BY <1>1, Parts, Sizes
  <2>1. \E l \in Layers : Outstanding(d, l, 0)
    <3>1. CASE net[d] # <<>>
      BY <3>1, <2>0 DEF Outstanding
    <3>2. ASSUME NEW w \in todo \cup held, w[2] = d PROVE \E l \in Layers : Outstanding(d, l, 0)
      <4>1. w \in Layers \X DP
        BY <2>0 DEF TypeOK
      <4>2. w = <<w[1], d>> /\ w[1] \in Layers
        BY <3>2, <4>1
      <4> QED
        BY <3>2, <4>2 DEF Outstanding
    <3> QED
      BY <3>1, <3>2
  <2> QED
    BY <2>0, <2>1 DEF ServiceInv
<1> QED
  BY <1>1, Inductive, PTL

(***************************************************************************)
(* A copy past its wait finds the buffer released by the forward before,   *)
(* on the very rank it copies to.                                          *)
(***************************************************************************)
THEOREM CopiesAreSafe == Spec => []CopiesFindBufferFree
<1>1. ASSUME IInv PROVE CopiesFindBufferFree
  <2> SUFFICES ASSUME NEW d \in DP, NEW l \in Layers, NEW t \in TP, NextIs(d, l, t, "copy")
               PROVE  /\ fin[d][t] = scratch[d][l] - 1
                      /\ pos[d][t] \notin (l + 1) .. (NumLayers + 1 + l)
    BY DEF CopiesFindBufferFree
  <2>1. TypeOK /\ CopierInv(d, l, t)
    BY <1>1, Parts
  <2>2. copier[d][l][t] = <<"copy", "signal">>
    <3>1. copier[d][l][t] \in Ops
      BY <2>1 DEF TypeOK
    <3> QED
      BY <3>1, PopFacts DEF NextIs
  <2>3. Passed(d, l, t) /\ scratch[d][l] = inputs[d]
    BY <2>1, <2>2, OpsFacts DEF Passed, CopierInv
  <2>4. flag[d][t][l] = Reset /\ fin[d][t] = inputs[d] - 1
    BY <2>1, <2>3 DEF CopierInv
  <2>5. Free(d, l, t)
    BY <1>1, <2>3, <2>4, PassedIsOutstanding, ResetMeansFree
  <2> QED
    BY <2>3, <2>4, <2>5 DEF Free
<1> QED
  BY <1>1, Inductive, PTL

(***************************************************************************)
(* Signals and resets of a flag alternate: two values tell them apart.     *)
(***************************************************************************)
THEOREM SignalsAreKept == Spec => []SignalsAlternate
<1>1. ASSUME IInv PROVE SignalsAlternate
  <2> SUFFICES ASSUME NEW d \in DP, NEW t \in TP, NEW l \in Layers
               PROVE  /\ NextIs(d, l, t, "signal") => flag[d][t][l] = Reset
                      /\ pos[d][t] = 0 /\ fin[d][t] < hpos[d][t] /\ ~IsReal(d, fin[d][t] + 1) =>
                           flag[d][t][l] = Reset
                      /\ pos[d][t] = NumLayers + 1 + l => flag[d][t][l] = Done
    BY DEF SignalsAlternate
  <2>0. /\ TypeOK /\ StageInv(d) /\ CopierInv(d, l, t) /\ FlagInv(d, l, t)
        /\ l \in Nat /\ 1 <= l /\ l <= NumLayers /\ NumLayers \in Nat
        /\ fin[d][t] \in Nat
    BY <1>1, Parts, Sizes, NatTypes
  <2>1. ASSUME NextIs(d, l, t, "signal") PROVE flag[d][t][l] = Reset
    <3>1. copier[d][l][t] = <<"signal">>
      <4>1. copier[d][l][t] \in Ops
        BY <2>0 DEF TypeOK
      <4> QED
        BY <2>1, <4>1, PopFacts DEF NextIs
    <3> QED
      BY <2>0, <3>1 DEF CopierInv, Passed
  <2>2. ASSUME pos[d][t] = 0, ~IsReal(d, fin[d][t] + 1) PROVE flag[d][t][l] = Reset
    <3>1. Free(d, l, t)
      BY <2>0, <2>2 DEF Free
    <3>2. inputs[d] # fin[d][t] + 1
      BY <2>0, <2>2 DEF StageInv
    <3>3. ~Filled(d, l, t)
      BY <2>0, <2>2, <3>2 DEF Filled
    <3> QED
      BY <2>0, <3>1, <3>3 DEF FlagInv
  <2>3. ASSUME pos[d][t] = NumLayers + 1 + l PROVE flag[d][t][l] = Done
    <3>1. ~Free(d, l, t)
      BY <2>0, <2>3 DEF Free
    <3> QED
      BY <2>0, <3>1 DEF FlagInv
  <2> QED
    BY <2>1, <2>2, <2>3
<1> QED
  BY <1>1, Inductive, PTL

(* What PleLocal sees of the streams when one rank's moves on. *)
LEMMA MapStep ==
  ASSUME TypeOK, NEW d \in DP, NEW t \in TP, NEW v \in 0 .. (2 * NumLayers + 1),
         pos' = [pos EXCEPT ![d][t] = v]
  PROVE  St' = [St EXCEPT ![d][t] = IF v > NumLayers + 1 THEN 0 ELSE v]
<1> DEFINE w == IF v > NumLayers + 1 THEN 0 ELSE v
           F(e) == [u \in TP |-> IF pos[e][u] > NumLayers + 1 THEN 0 ELSE pos[e][u]]
           G == [St EXCEPT ![d][t] = w]
<1>1. \A e \in DP, u \in TP : pos'[e][u] = IF e = d /\ u = t THEN v ELSE pos[e][u]
  BY DEF TypeOK
<1>2. St = [e \in DP |-> F(e)]
  BY DEF St, TP, Local!TP
<1>3. St' = [e \in DP |-> F(e)']
  BY DEF St, TP, Local!TP
<1>4. \A e \in DP : e # d => F(e)' = F(e)
  BY <1>1
<1>5. F(d)' = [F(d) EXCEPT ![t] = w]
  BY <1>1
<1> HIDE DEF F, w
<1>6. G = [e \in DP |-> IF e = d THEN [F(d) EXCEPT ![t] = w] ELSE F(e)]
  BY <1>2
<1> QED
  BY <1>3, <1>4, <1>5, <1>6 DEF w

(***************************************************************************)
(* The original handshake, too, shows every forward its own embeddings: it *)
(* implements PleLocal, for any number of ranks, layers and steps.         *)
(***************************************************************************)
THEOREM Implementation == Spec => ImplementsLocal
<1>0. \A d \in DP, t \in TP : St[d][t] = IF pos[d][t] > NumLayers + 1 THEN 0 ELSE pos[d][t]
  BY DEF St, TP, Local!TP
<1>1. Init => Local!LocalInit
  <2> SUFFICES ASSUME Init PROVE Local!LocalInit
    OBVIOUS
  <2>1. St = [d \in DP |-> [t \in TP |-> 0]]
    BY Sizes DEF Init, St, TP, Local!TP
  <2> QED
    BY <2>1 DEF Init, St, TP, Local!LocalInit
<1>2. ASSUME IInv, [Next]_vars PROVE [Local!LocalNext]_(Local!localVars)
  <2>0. TypeOK /\ NumLayers \in Nat /\ NumLayers >= 1
        /\ \A e \in DP, u \in TP : pos[e][u] \in Nat /\ fin[e][u] \in Nat
        /\ \A k \in Layers : k \in Nat /\ 1 <= k /\ k <= NumLayers
    BY <1>2, Parts, NatTypes, Sizes
  <2>1. ASSUME NEW d \in DP, NEW t \in TP, BeginForward(d, t) PROVE Local!LocalNext
    <3>1. fin[d][t] < MaxStep
      <4>1. fin[d][t] + 1 <= hpos[d][t]
        BY <2>1 DEF BeginForward
      <4> QED
        BY <4>1, <2>0, NatTypes, Sizes
    <3>2. pos[d][t] = 0 /\ pos' = [pos EXCEPT ![d][t] = 1]
      BY <2>1 DEF BeginForward
    <3>3. St[d][t] = 0 /\ St' = [St EXCEPT ![d][t] = 1]
      <4>1. 1 \in 0 .. (2 * NumLayers + 1) /\ ~(1 > NumLayers + 1) /\ ~(0 > NumLayers + 1)
        BY <2>0
      <4>2. St[d][t] = 0
        BY <1>0, <3>2, <4>1
      <4> DEFINE v == 1
      <4>3. v \in 0 .. (2 * NumLayers + 1) /\ pos' = [pos EXCEPT ![d][t] = v] /\ ~(v > NumLayers + 1)
        BY <3>2, <4>1
      <4> HIDE DEF v
      <4>4. St' = [St EXCEPT ![d][t] = v]
        BY <2>0, <4>3, MapStep
      <4> QED
        BY <4>2, <4>4 DEF v
    <3>4. got' = [got EXCEPT ![d][t] = Local!Unread] /\ UNCHANGED <<upto, fin>>
      BY <2>1 DEF BeginForward
    <3>5. Local!LocalBegin(d, t)
      BY <3>1, <3>3, <3>4 DEF St, Local!LocalBegin
    <3> QED
      BY <3>5 DEF Local!LocalNext, TP
  <2>2. ASSUME NEW d \in DP, NEW t \in TP, ReadLayer(d, t) PROVE Local!LocalNext
    <3> DEFINE l == pos[d][t]
    <3>1. l \in Layers /\ out[d][t][l] = Local!Expected(d, fin[d][t] + 1)
      BY <1>2, <2>2, ReadOwn
    <3>2. /\ pos' = [pos EXCEPT ![d][t] = l + 1] /\ UNCHANGED <<upto, fin>>
          /\ got' = [got EXCEPT ![d][t][l] = Local!Expected(d, fin[d][t] + 1)]
      BY <2>2, <3>1 DEF ReadLayer
    <3>3. St[d][t] = l /\ St' = [St EXCEPT ![d][t] = l + 1]
      <4>1. l + 1 \in 0 .. (2 * NumLayers + 1) /\ ~(l + 1 > NumLayers + 1) /\ ~(l > NumLayers + 1)
        BY <2>0, <3>1
      <4> HIDE DEF l
      <4>2. St' = [St EXCEPT ![d][t] = l + 1]
        BY <3>2, <2>0, <4>1, MapStep
      <4> QED
        BY <1>0, <4>1, <4>2 DEF l
    <3> HIDE DEF l
    <3>4. Local!LocalRead(d, t)
      BY <3>1, <3>2, <3>3 DEF St, Layers, Local!LocalRead
    <3> QED
      BY <3>4 DEF Local!LocalNext, TP
  <2>3. ASSUME NEW d \in DP, NEW t \in TP, FinishForward(d, t) PROVE Local!LocalNext
    <3>1. /\ pos[d][t] = NumLayers + 1 /\ UNCHANGED <<upto, got>>
          /\ fin' = [fin EXCEPT ![d][t] = fin[d][t] + 1]
          /\ \A u \in TP : \/ fin[d][u] >= fin[d][t] + 1
                           \/ fin[d][u] = (fin[d][t] + 1) - 1 /\ pos[d][u] = NumLayers + 1
      BY <2>3 DEF FinishForward
    <3>2. pos' = [pos EXCEPT ![d][t] = NumLayers + 2]
      <4>1. pos' = [pos EXCEPT ![d][t] = pos[d][t] + 1] /\ pos[d][t] + 1 = NumLayers + 2
        BY <2>0, <2>3, <3>1 DEF FinishForward, TypeOK
      <4> QED
        BY <4>1
    <3>3. St[d][t] = NumLayers + 1 /\ St' = [St EXCEPT ![d][t] = 0]
      <4>1. NumLayers + 2 \in 0 .. (2 * NumLayers + 1) /\ NumLayers + 2 > NumLayers + 1
            /\ ~(NumLayers + 1 > NumLayers + 1)
        BY <2>0
      <4>2. St' = [St EXCEPT ![d][t] = 0]
        BY <3>2, <2>0, <4>1, MapStep
      <4> QED
        BY <1>0, <3>1, <4>1, <4>2
    <3>4. \A u \in TP : \/ fin[d][u] >= fin[d][t] + 1
                        \/ fin[d][u] = (fin[d][t] + 1) - 1 /\ St[d][u] = NumLayers + 1
      <4>1. \A u \in TP : pos[d][u] = NumLayers + 1 => St[d][u] = NumLayers + 1
        BY <1>0, <2>0
      <4>2. ASSUME NEW u \in TP
            PROVE  \/ fin[d][u] >= fin[d][t] + 1
                   \/ fin[d][u] = (fin[d][t] + 1) - 1 /\ St[d][u] = NumLayers + 1
        BY <3>1, <4>1
      <4> QED
        BY <4>2
    <3>5. Local!AllReadBy(d, fin[d][t] + 1)
      BY <3>4 DEF St, TP, Local!AllReadBy
    <3>6. Local!LocalFinish(d, t)
      BY <2>0, <3>1, <3>3, <3>5 DEF St, TypeOK, Local!LocalFinish
    <3> QED
      BY <3>6 DEF Local!LocalNext, TP
  <2>4. ASSUME NEW d \in DP, NEW t \in TP, Release(d, t) PROVE UNCHANGED Local!localVars
    <3> DEFINE l == pos[d][t] - (NumLayers + 1)
               v == IF l = NumLayers THEN 0 ELSE pos[d][t] + 1
    <3>1. l \in Layers /\ UNCHANGED <<upto, fin, got>>
      BY <2>4 DEF Release
    <3>2. pos' = [pos EXCEPT ![d][t] = v]
      BY <2>0, <2>4 DEF Release, TypeOK
    <3>3. v \in 0 .. (2 * NumLayers + 1) /\ (v > NumLayers + 1 \/ v = 0) /\ pos[d][t] > NumLayers + 1
      BY <2>0, <3>1
    <3> HIDE DEF v
    <3>4. St' = [St EXCEPT ![d][t] = 0]
      <4>1. (IF v > NumLayers + 1 THEN 0 ELSE v) = 0
        BY <3>3
      <4>2. St' = [St EXCEPT ![d][t] = IF v > NumLayers + 1 THEN 0 ELSE v]
        BY <2>0, <3>2, <3>3, MapStep
      <4> QED
        BY <4>1, <4>2
    <3>5. St[d][t] = 0
      BY <1>0, <3>3
    <3>6. St' = St
      <4>1. St \in [DP -> [TP -> Nat]]
        BY <2>0 DEF St, TP, Local!TP
      <4> QED
        BY <3>4, <3>5, <4>1
    <3> QED
      BY <3>1, <3>6 DEF St, Local!localVars
  <2>5. ASSUME UNCHANGED <<upto, pos, fin, got>> PROVE UNCHANGED Local!localVars
    BY <2>5 DEF Local!localVars
  <2>6. ASSUME NEW d \in DP, NEW t \in TP, HostStep(d, t) PROVE UNCHANGED Local!localVars
    BY <2>5, <2>6 DEF HostStep, Launch, LaunchDummy, gpuVars
  <2>7. ASSUME NEW d \in DP, RequestStep(d) PROVE UNCHANGED Local!localVars
    BY <2>5, <2>7 DEF RequestStep, GetRequest, StageAndSend, gpuVars
  <2>8. ASSUME WorkerStep PROVE UNCHANGED Local!localVars
    BY <2>5, <2>8 DEF WorkerStep, TakeBatch, WaitReset, Compute, gpuVars
  <2>9. ASSUME NEW d \in DP, NEW l \in Layers, NEW t \in TP, CopyStep(d, l, t)
        PROVE  UNCHANGED Local!localVars
    BY <2>5, <2>9 DEF CopyStep, PassReset, CopyLands, Signal, gpuVars
  <2>10. ASSUME NEW d \in DP, ProduceInputs(d) PROVE UNCHANGED Local!localVars
    BY <2>5, <2>10 DEF ProduceInputs, gpuVars
  <2>11. ASSUME UNCHANGED vars PROVE UNCHANGED Local!localVars
    BY <2>5, <2>11 DEF vars, gpuVars
  <2> QED
    BY <1>2, <2>1, <2>2, <2>3, <2>4, <2>6, <2>7, <2>8, <2>9, <2>10, <2>11 DEF Next, GpuStep
<1> QED
  BY <1>1, <1>2, Inductive, PTL DEF Spec, ImplementsLocal, Local!LocalSpec

=============================================================================
