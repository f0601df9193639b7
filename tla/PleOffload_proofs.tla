--------------------------- MODULE PleOffload_proofs ---------------------------
(* Theorems about PleOffload, for every value of its constants. *)
EXTENDS PleOffloadInv, TLAPS

-----------------------------------------------------------------------------
(* Facts about schedules. *)

(* How the count of real steps grows between two steps of a schedule. *)
LEMMA ScheduleFacts ==
  ASSUME NEW f \in Schedules, NEW a \in Steps, NEW b \in Steps, a < b
  PROVE  /\ f[a] \in Nat /\ f[b] \in Nat /\ f[b - 1] \in Nat
         /\ a <= b - 1 /\ b - 1 \in Steps
         /\ f[a] <= f[b - 1]
         /\ f[b - 1] <= f[b] /\ f[b] <= f[b - 1] + 1
<1>1. b - 1 \in Steps /\ a <= b - 1 /\ b - 1 <= b /\ b - (b - 1) = 1
  BY SizesAssumption DEF Steps
<1>2. \A x \in Steps : f[x] \in Nat
  <2>1. f \in [Steps -> Steps]
    BY DEF Schedules
  <2> QED
    BY <2>1, SizesAssumption DEF Steps
<1>3. \A x, y \in Steps : x <= y => f[x] <= f[y] /\ f[y] - f[x] <= y - x
  BY DEF Schedules
<1>4. f[a] <= f[b - 1]
  BY <1>1, <1>3
<1>5. f[b - 1] <= f[b] /\ f[b] - f[b - 1] <= 1
  BY <1>1, <1>3
<1> QED
  BY <1>1, <1>2, <1>4, <1>5

(* The same about rank d's schedule, with the steps that are real. *)
LEMMA UptoFacts ==
  ASSUME TypeOK, NEW d \in DP, NEW a \in Steps, NEW b \in Steps, a < b
  PROVE  /\ upto[d][a] \in Nat /\ upto[d][b] \in Nat /\ upto[d][b - 1] \in Nat
         /\ upto[d][a] <= upto[d][b - 1]
         /\ upto[d][b - 1] <= upto[d][b] /\ upto[d][b] <= upto[d][b - 1] + 1
         /\ upto[d][a] <= upto[d][b]
         /\ IsReal(d, b) => upto[d][b] = upto[d][b - 1] + 1 /\ upto[d][a] < upto[d][b]
<1>1. upto[d] \in Schedules
  BY DEF TypeOK
<1>2. /\ upto[d][a] \in Nat /\ upto[d][b] \in Nat /\ upto[d][b - 1] \in Nat
      /\ upto[d][a] <= upto[d][b - 1]
      /\ upto[d][b - 1] <= upto[d][b] /\ upto[d][b] <= upto[d][b - 1] + 1
  BY <1>1, ScheduleFacts
<1> QED
  BY <1>2 DEF IsReal

(* Counts stay within the bound. *)
LEMMA UptoRange ==
  ASSUME TypeOK, NEW d \in DP
  PROVE  upto[d][0] = 0 /\ \A a \in Steps : upto[d][a] \in Steps
  BY DEF TypeOK, Schedules

-----------------------------------------------------------------------------
(* Facts about EXCEPT, stated once. *)

(* A function of ranks updated at one rank. *)
LEMMA UpdateRank ==
  ASSUME NEW S, NEW f \in [DP -> [TP -> S]], NEW d \in DP, NEW t \in TP, NEW v \in S,
         NEW g, g = [f EXCEPT ![d][t] = v]
  PROVE  /\ g \in [DP -> [TP -> S]]
         /\ g[d][t] = v
         /\ \A e \in DP, u \in TP : e # d \/ u # t => g[e][u] = f[e][u]
OBVIOUS

(* A function of data-parallel ranks updated at one rank. *)
LEMMA UpdateDP ==
  ASSUME NEW S, NEW f \in [DP -> S], NEW d \in DP, NEW v \in S,
         NEW g, g = [f EXCEPT ![d] = v]
  PROVE  /\ g \in [DP -> S]
         /\ g[d] = v
         /\ \A e \in DP : e # d => g[e] = f[e]
OBVIOUS

(* A function of ranks and layers updated at one layer of one rank. *)
LEMMA UpdateLayer ==
  ASSUME NEW f \in [DP -> [TP -> [Layers -> Values]]], NEW d \in DP, NEW t \in TP,
         NEW l \in Layers, NEW v \in Values, NEW g, g = [f EXCEPT ![d][t][l] = v]
  PROVE  /\ g \in [DP -> [TP -> [Layers -> Values]]]
         /\ g[d][t][l] = v
         /\ \A k \in Layers : k # l => g[d][t][k] = f[d][t][k]
         /\ \A e \in DP, u \in TP : e # d \/ u # t => g[e][u] = f[e][u]
OBVIOUS

LEMMA ZeroTP == 0 \in TP
BY SizesAssumption DEF TP

(* The numbers of a state, for arithmetic. *)
LEMMA NatTypes ==
  ASSUME TypeOK
  PROVE  /\ \A e \in DP : inputs[e] \in Nat /\ src[e] \in Nat /\ job[e] \in Nat
         /\ \A e \in DP : inputs[e] \in Steps
         /\ \A e \in DP, a \in Steps : upto[e][a] \in Nat
         /\ \A e \in DP, u \in TP :
              /\ hpos[e][u] \in Nat /\ seq[e][u] \in Nat /\ enq[e][u] \in Nat
              /\ fin[e][u] \in Nat /\ st[e][u] \in Nat /\ done[e][u] \in Nat
              /\ hpos[e][u] \in Steps /\ enq[e][u] \in Steps /\ fin[e][u] \in Steps
              /\ hpos[e][u] <= MaxStep /\ enq[e][u] <= MaxStep /\ fin[e][u] <= MaxStep
         /\ MaxStep \in Nat /\ NumLayers \in Nat /\ NumLayers >= 1
<1>1. \A x \in Steps : x \in Nat /\ x <= MaxStep
  BY SizesAssumption DEF Steps
<1>2. \A x \in 0 .. (NumLayers + 1) : x \in Nat
  BY SizesAssumption
<1>3. \A e \in DP, a \in Steps : upto[e][a] \in Steps
  BY UptoRange
<1> QED
  BY <1>1, <1>2, <1>3, SizesAssumption DEF TypeOK

-----------------------------------------------------------------------------
(* The model thread preserves the invariant. *)

LEMMA LaunchInv ==
  ASSUME IInv, NEW d \in DP, NEW t \in TP, Launch(d, t)
  PROVE  IInv'
<1>0. /\ TypeOK /\ WorkerInv
      /\ \A e \in DP : StageInv(e) /\ Asked(e) /\ ServiceInv(e) /\ PublishInv(e)
      /\ \A e \in DP, u \in TP : HostInv(e, u)
  BY DEF IInv
<1>1. /\ hpos[d][t] + 1 \in Steps
      /\ hpos[d][t] < hpos[d][t] + 1 /\ (hpos[d][t] + 1) - 1 = hpos[d][t]
  <2>1. hpos[d][t] < MaxStep
    BY DEF Launch, MayBegin
  <2> QED
    BY <2>1, <1>0, NatTypes DEF Steps
<1>2. seq[d][t] + 1 = upto[d][hpos[d][t] + 1] /\ seq[d][t] + 1 \in Steps
  <2>1. seq[d][t] + 1 = upto[d][hpos[d][t] + 1]
    BY <1>0, <1>1, UptoFacts, NatTypes DEF Launch, HostInv
  <2> QED
    BY <2>1, <1>0, <1>1, UptoRange
<1>3. /\ hpos' \in [DP -> [TP -> Steps]] /\ seq' \in [DP -> [TP -> Steps]]
      /\ hpos'[d][t] = hpos[d][t] + 1 /\ seq'[d][t] = seq[d][t] + 1
      /\ \A e \in DP, u \in TP : e # d \/ u # t =>
           hpos'[e][u] = hpos[e][u] /\ seq'[e][u] = seq[e][u]
  BY <1>0, <1>1, <1>2, UpdateRank DEF Launch, TypeOK
<1>4. /\ pc' \in [DP -> [TP -> {"idle", "staging", "sending", "waiting", "failed"}]]
      /\ pc[d][t] = "idle" /\ pc'[d][t] = IF t = 0 THEN "staging" ELSE "waiting"
      /\ \A e \in DP, u \in TP : e # d \/ u # t => pc'[e][u] = pc[e][u]
  BY <1>0, UpdateRank DEF Launch, MayBegin, TypeOK
<1>5. /\ src' \in [DP -> Steps]
      /\ t = 0 /\ ~CudaInputs => src'[d] = hpos[d][t] + 1
      /\ \A e \in DP : e # d \/ t # 0 => src'[e] = src[e]
  BY <1>0, <1>1, UpdateDP DEF Launch, TypeOK
<1>6. UNCHANGED <<upto, enq, fin, st, got, out, inputs, raw, done, net,
                  up, job, todo, scratch, dma, unsynced, flags>>
  BY DEF Launch, gpuVars, workerVars
<1>7. TypeOK'
  BY <1>0, <1>3, <1>4, <1>5, <1>6 DEF TypeOK
<1>8. \A e \in DP, u \in TP : HostInv(e, u)'
  <2> SUFFICES ASSUME NEW e \in DP, NEW u \in TP PROVE HostInv(e, u)'
    OBVIOUS
  <2>1. CASE e = d /\ u = t
    BY <2>1, <1>0, <1>1, <1>2, <1>3, <1>4, <1>6, NatTypes DEF HostInv, IsReal, Launch
  <2>2. CASE e # d \/ u # t
    BY <2>2, <1>0, <1>3, <1>4, <1>6 DEF HostInv, IsReal
  <2> QED
    BY <2>1, <2>2
<1>9. \A e \in DP : StageInv(e)' /\ Asked(e)' /\ ServiceInv(e)'
  <2> SUFFICES ASSUME NEW e \in DP PROVE StageInv(e)' /\ Asked(e)' /\ ServiceInv(e)'
    OBVIOUS
  <2>1. CASE e = d /\ t = 0
    <3>1. inputs[d] <= hpos[d][0] /\ pc[d][0] = "idle" /\ ~InService(d)
      BY <2>1, <1>0, <1>4 DEF StageInv, ServiceInv
    <3>2. ~CudaInputs => fin[d][0] = hpos[d][0]
      <4>1. enq[d][0] - fin[d][0] <= RunAhead
        BY <2>1 DEF Launch, MayBegin
      <4>2. fin[d][0] <= enq[d][0] /\ enq[d][0] = hpos[d][0]
        BY <1>0, <3>1, ZeroTP DEF HostInv
      <4>3. fin[d][0] \in Nat /\ enq[d][0] \in Nat
        BY <1>0, NatTypes, ZeroTP
      <4> QED
        BY <4>1, <4>2, <4>3, HandshakeAssumption
    <3>3. pc'[d][0] = "staging" /\ hpos'[d][0] = hpos[d][0] + 1
      BY <2>1, <1>3, <1>4
    <3>4. StageInv(d)'
      BY <2>1, <3>1, <3>2, <3>3, <1>0, <1>1, <1>5, <1>6, NatTypes DEF StageInv, IsReal
    <3>5. Asked(d)' /\ ServiceInv(d)'
      BY <3>1, <3>3, <1>6 DEF Asked, ServiceInv, InService, Requests
    <3> QED
      BY <2>1, <3>4, <3>5
  <2>2. CASE e # d \/ t # 0
    <3>1. /\ hpos'[e][0] = hpos[e][0] /\ seq'[e][0] = seq[e][0]
          /\ pc'[e][0] = pc[e][0] /\ src'[e] = src[e]
      BY <2>2, <1>3, <1>4, <1>5, ZeroTP
    <3> QED
      BY <3>1, <1>0, <1>6 DEF StageInv, Asked, ServiceInv, InService, Requests, IsReal
  <2> QED
    BY <2>1, <2>2
<1> QED
  BY <1>6, <1>7, <1>8, <1>9
  DEF IInv, WorkerInv, PublishInv, Published, EnqueuedIsPublished, Consumed, FlagInv,
      DummyInv, GotInv, InStep, IsReal, Expected

LEMMA LaunchDummyInv ==
  ASSUME IInv, NEW d \in DP, NEW t \in TP, LaunchDummy(d, t)
  PROVE  IInv'
<1>0. /\ TypeOK
      /\ \A e \in DP : StageInv(e) /\ Asked(e) /\ ServiceInv(e)
      /\ \A e \in DP, u \in TP : HostInv(e, u) /\ EnqueuedIsPublished(e, u)
  BY DEF IInv
<1>1. /\ hpos[d][t] + 1 \in Steps
      /\ hpos[d][t] < hpos[d][t] + 1 /\ (hpos[d][t] + 1) - 1 = hpos[d][t]
      /\ ~IsReal(d, hpos[d][t] + 1) /\ pc[d][t] = "idle"
  <2>1. hpos[d][t] < MaxStep /\ ~IsReal(d, hpos[d][t] + 1) /\ pc[d][t] = "idle"
    BY DEF LaunchDummy, MayBegin
  <2> QED
    BY <2>1, <1>0, NatTypes DEF Steps
<1>2. upto[d][hpos[d][t] + 1] = upto[d][hpos[d][t]]
  BY <1>1 DEF IsReal
<1>3. /\ hpos' \in [DP -> [TP -> Steps]] /\ enq' \in [DP -> [TP -> Steps]]
      /\ hpos'[d][t] = hpos[d][t] + 1 /\ enq'[d][t] = hpos[d][t] + 1
      /\ \A e \in DP, u \in TP : e # d \/ u # t =>
           hpos'[e][u] = hpos[e][u] /\ enq'[e][u] = enq[e][u]
  BY <1>0, <1>1, UpdateRank DEF LaunchDummy, TypeOK
<1>4. UNCHANGED <<upto, pc, seq, fin, st, got, out, src, inputs, raw, done, net,
                  up, job, todo, scratch, dma, unsynced, flags>>
  BY DEF LaunchDummy, gpuVars, workerVars
<1>5. TypeOK'
  BY <1>0, <1>3, <1>4 DEF TypeOK
<1>6. \A e \in DP, u \in TP : HostInv(e, u)' /\ EnqueuedIsPublished(e, u)'
  <2> SUFFICES ASSUME NEW e \in DP, NEW u \in TP
               PROVE  HostInv(e, u)' /\ EnqueuedIsPublished(e, u)'
    OBVIOUS
  <2>1. CASE e = d /\ u = t
    BY <2>1, <1>0, <1>1, <1>2, <1>3, <1>4, NatTypes
    DEF HostInv, EnqueuedIsPublished, IsReal
  <2>2. CASE e # d \/ u # t
    BY <2>2, <1>0, <1>3, <1>4 DEF HostInv, EnqueuedIsPublished, IsReal
  <2> QED
    BY <2>1, <2>2
<1>7. \A e \in DP : StageInv(e)' /\ Asked(e)' /\ ServiceInv(e)'
  <2> SUFFICES ASSUME NEW e \in DP PROVE StageInv(e)' /\ Asked(e)' /\ ServiceInv(e)'
    OBVIOUS
  <2>1. CASE e = d /\ t = 0
    <3>1. inputs[d] <= hpos[d][0] /\ pc[d][0] = "idle" /\ ~InService(d)
      BY <2>1, <1>0, <1>1 DEF StageInv, ServiceInv
    <3>2. StageInv(d)'
      BY <2>1, <3>1, <1>0, <1>1, <1>3, <1>4, NatTypes DEF StageInv, IsReal
    <3>3. Asked(d)' /\ ServiceInv(d)'
      BY <3>1, <1>4 DEF Asked, ServiceInv, InService, Requests
    <3> QED
      BY <2>1, <3>2, <3>3
  <2>2. CASE e # d \/ t # 0
    <3>1. hpos'[e][0] = hpos[e][0]
      BY <2>2, <1>3, ZeroTP
    <3> QED
      BY <3>1, <1>0, <1>4 DEF StageInv, Asked, ServiceInv, InService, Requests, IsReal
  <2> QED
    BY <2>1, <2>2
<1> QED
  BY <1>4, <1>5, <1>6, <1>7
  DEF IInv, WorkerInv, PublishInv, Published, Consumed, FlagInv,
      DummyInv, GotInv, InStep, IsReal, Expected

(***************************************************************************)
(* When TP rank 0 stages step h it has finished h - 1, so every rank has   *)
(* read what it reads of h - 1, and every flag stands just below h.        *)
(***************************************************************************)
LEMMA StageFacts ==
  ASSUME IInv, NEW d \in DP, Stage(d)
  PROVE  /\ src[d] = hpos[d][0] /\ hpos[d][0] >= 1 /\ IsReal(d, hpos[d][0])
         /\ ~InService(d)
         /\ inputs[d] < hpos[d][0]
         /\ upto[d][inputs[d]] <= upto[d][hpos[d][0]] - 1
         /\ \A t \in TP :
              /\ \/ fin[d][t] >= hpos[d][0] - 1
                 \/ fin[d][t] = hpos[d][0] - 2 /\ st[d][t] = NumLayers + 1
              /\ done[d][t] = upto[d][hpos[d][0]] - 1
<1>0. /\ TypeOK /\ StageInv(d) /\ ServiceInv(d) /\ PublishInv(d)
      /\ \A t \in TP : HostInv(d, t) /\ EnqueuedIsPublished(d, t) /\ InStep(d, 0, t)
  BY ZeroTP DEF IInv
<1> DEFINE h == hpos[d][0]
<1>1. pc[d][0] = "staging" /\ InputReady(d)
  BY DEF Stage
<1>2. /\ h >= 1 /\ IsReal(d, h) /\ enq[d][0] = h - 1
      /\ ~InService(d) /\ inputs[d] < h
  BY <1>0, <1>1, ZeroTP DEF HostInv, StageInv, ServiceInv
<1>3. fin[d][0] = h - 1 /\ src[d] = h
  BY <1>0, <1>1 DEF StageInv, InputReady
<1>4. /\ inputs[d] \in Steps /\ h \in Steps /\ h - 1 \in Steps
      /\ h \in Nat /\ h - 1 \in Nat
  BY <1>0, <1>2, NatTypes, ZeroTP, SizesAssumption DEF Steps
<1>5. /\ upto[d][inputs[d]] <= upto[d][h - 1] /\ upto[d][h] = upto[d][h - 1] + 1
      /\ upto[d][inputs[d]] \in Nat /\ upto[d][h - 1] \in Nat
  BY <1>0, <1>2, <1>4, UptoFacts
<1>6. ASSUME NEW t \in TP
      PROVE  /\ fin[d][t] >= h - 1 \/ (fin[d][t] = h - 2 /\ st[d][t] = NumLayers + 1)
             /\ done[d][t] = upto[d][h] - 1
  <2>1. fin[d][t] >= h - 1 \/ (fin[d][t] = h - 2 /\ st[d][t] = NumLayers + 1)
    BY <1>0, <1>3, <1>4, NatTypes, ZeroTP DEF InStep
  <2>2. enq[d][t] >= h - 1 /\ enq[d][t] \in Steps /\ enq[d][t] \in Nat
    <3>1. /\ fin[d][t] <= enq[d][t]
          /\ st[d][t] = NumLayers + 1 => fin[d][t] < enq[d][t]
      BY <1>0, NatTypes DEF HostInv
    <3> QED
      BY <2>1, <3>1, <1>0, <1>4, NatTypes
  <2>3. upto[d][h - 1] <= upto[d][enq[d][t]]
    <3>1. CASE enq[d][t] = h - 1
      BY <3>1, <1>5
    <3>2. CASE h - 1 < enq[d][t]
      BY <3>2, <2>2, <1>0, <1>4, UptoFacts
    <3> QED
      BY <3>1, <3>2, <2>2, <1>4
  <2>4. upto[d][enq[d][t]] <= done[d][t] /\ done[d][t] <= upto[d][inputs[d]]
    BY <1>0 DEF EnqueuedIsPublished, PublishInv
  <2> QED
    BY <2>1, <2>2, <2>3, <2>4, <1>0, <1>4, <1>5, NatTypes
<1> QED
  BY <1>2, <1>3, <1>5, <1>6

LEMMA StageStepInv ==
  ASSUME IInv, NEW d \in DP, Stage(d)
  PROVE  IInv'
<1>0. /\ TypeOK /\ WorkerInv
      /\ \A e \in DP : StageInv(e) /\ Asked(e) /\ ServiceInv(e) /\ PublishInv(e)
      /\ \A e \in DP, u \in TP :
           HostInv(e, u) /\ EnqueuedIsPublished(e, u) /\ Consumed(e, u) /\ FlagInv(e, u)
  BY DEF IInv
<1>1. /\ src[d] = hpos[d][0] /\ hpos[d][0] >= 1 /\ IsReal(d, hpos[d][0])
      /\ ~InService(d)
      /\ inputs[d] < hpos[d][0]
      /\ upto[d][inputs[d]] <= upto[d][hpos[d][0]] - 1
      /\ \A t \in TP :
           /\ \/ fin[d][t] >= hpos[d][0] - 1
              \/ fin[d][t] = hpos[d][0] - 2 /\ st[d][t] = NumLayers + 1
           /\ done[d][t] = upto[d][hpos[d][0]] - 1
  BY StageFacts
<1>2. /\ inputs' \in [DP -> Steps] /\ inputs'[d] = hpos[d][0]
      /\ \A e \in DP : e # d => inputs'[e] = inputs[e]
  BY <1>0, <1>1, UpdateDP DEF Stage, TypeOK
<1>3. /\ raw' \in [DP -> BOOLEAN] /\ raw'[d] = Speculative
      /\ \A e \in DP : e # d => raw'[e] = raw[e]
  BY <1>0, UpdateDP, OffloadAssumption DEF Stage, TypeOK
<1>4. /\ pc' \in [DP -> [TP -> {"idle", "staging", "sending", "waiting", "failed"}]]
      /\ pc[d][0] = "staging" /\ pc'[d][0] = "sending"
      /\ \A e \in DP, u \in TP : e # d \/ u # 0 => pc'[e][u] = pc[e][u]
  BY <1>0, UpdateRank, ZeroTP DEF Stage, TypeOK
<1>5. UNCHANGED <<upto, hpos, seq, enq, fin, st, got, out, src, done, net,
                  up, job, todo, scratch, dma, unsynced, flags>>
  BY DEF Stage, gpuVars, workerVars
<1>6. TypeOK'
  BY <1>0, <1>2, <1>3, <1>4, <1>5 DEF TypeOK
<1>7. \A e \in DP, u \in TP : HostInv(e, u)'
  BY <1>0, <1>4, <1>5 DEF HostInv, IsReal
<1>8. WorkerInv'
  BY <1>0, <1>1, <1>2, <1>5 DEF WorkerInv, InService
<1>9. ASSUME NEW e \in DP, e # d
      PROVE  /\ StageInv(e)' /\ Asked(e)' /\ ServiceInv(e)' /\ PublishInv(e)'
             /\ \A u \in TP : Consumed(e, u)' /\ FlagInv(e, u)'
  <2>1. inputs'[e] = inputs[e] /\ raw'[e] = raw[e] /\ pc'[e][0] = pc[e][0]
    BY <1>2, <1>3, <1>4, <1>9, ZeroTP
  <2>2. StageInv(e)' /\ Asked(e)' /\ ServiceInv(e)'
    BY <2>1, <1>0, <1>5 DEF StageInv, Asked, ServiceInv, InService, Requests, IsReal
  <2>3. PublishInv(e)' /\ \A u \in TP : Consumed(e, u)' /\ FlagInv(e, u)'
    BY <2>1, <1>0, <1>5 DEF PublishInv, Published, Consumed, FlagInv
  <2> QED
    BY <2>2, <2>3
<1>10. \A l \in Layers, u \in TP : <<d, l, u>> \in flags => done[d][u] = job[d]
  <2> SUFFICES ASSUME NEW l \in Layers, NEW u \in TP, <<d, l, u>> \in flags
               PROVE  done[d][u] = job[d]
    OBVIOUS
  <2>1. /\ done[d][u] \in Nat /\ job[d] \in Nat
        /\ upto[d][inputs[d]] \in Nat /\ upto[d][hpos[d][0]] \in Nat
    BY <1>0, NatTypes, ZeroTP
  <2> QED
    BY <2>1, <1>0, <1>1 DEF FlagInv
<1>13. StageInv(d)' /\ Asked(d)' /\ ServiceInv(d)'
  BY <1>0, <1>1, <1>2, <1>3, <1>4, <1>5, <1>10, NatTypes, ZeroTP
  DEF StageInv, Asked, ServiceInv, InService, Requests, IsReal
<1>11. PublishInv(d)'
  <2>1. upto[d][hpos[d][0]] \in Nat
    BY <1>0, NatTypes, ZeroTP
  <2> QED
    BY <2>1, <1>1, <1>2, <1>5 DEF PublishInv, Published
<1>12. ASSUME NEW u \in TP PROVE Consumed(d, u)' /\ FlagInv(d, u)'
  <2>1. Consumed(d, u)'
    BY <1>1, <1>2, <1>5 DEF Consumed
  <2>3. (\E l \in Layers : <<d, l, u>> \in flags) => d \notin unsynced /\ done[d][u] = job[d]
    BY <1>0, <1>10 DEF FlagInv
  <2> QED
    BY <2>1, <2>3, <1>5 DEF FlagInv
<1> QED
  BY <1>0, <1>5, <1>6, <1>7, <1>8, <1>9, <1>11, <1>12, <1>13
  DEF IInv, EnqueuedIsPublished, DummyInv, GotInv, InStep, IsReal, Expected

LEMMA SendInv ==
  ASSUME IInv, NEW d \in DP, Send(d)
  PROVE  IInv'
<1>0. /\ TypeOK /\ WorkerInv
      /\ \A e \in DP : StageInv(e) /\ Asked(e) /\ ServiceInv(e)
      /\ \A e \in DP, u \in TP : HostInv(e, u)
  BY DEF IInv
<1> DEFINE r == [dp |-> d, seq |-> seq[d][0]]
<1>1. net' = net \cup {r} /\ r \in [dp : DP, seq : Steps] /\ r.dp = d /\ r.seq = seq[d][0]
  BY <1>0, ZeroTP DEF Send, TypeOK
<1>2. /\ pc' \in [DP -> [TP -> {"idle", "staging", "sending", "waiting", "failed"}]]
      /\ pc[d][0] = "sending" /\ pc'[d][0] = "waiting"
      /\ \A e \in DP, u \in TP : e # d \/ u # 0 => pc'[e][u] = pc[e][u]
  BY <1>0, UpdateRank, ZeroTP DEF Send, TypeOK
<1>3. UNCHANGED <<upto, hpos, seq, enq, fin, st, got, out, src, inputs, raw, done,
                  up, job, todo, scratch, dma, unsynced, flags>>
  BY DEF Send, gpuVars, workerVars
<1>4. ~InService(d)
  BY <1>0, <1>2 DEF ServiceInv
<1>5. TypeOK'
  BY <1>0, <1>1, <1>2, <1>3 DEF TypeOK
<1>6. \A e \in DP, u \in TP : HostInv(e, u)'
  BY <1>0, <1>2, <1>3 DEF HostInv, IsReal
<1>7. ASSUME NEW e \in DP, e # d
      PROVE  StageInv(e)' /\ Asked(e)' /\ ServiceInv(e)'
  <2>1. pc'[e][0] = pc[e][0]
    BY <1>2, <1>7, ZeroTP
  <2>2. Requests(e)' = Requests(e)
    BY <1>1, <1>7 DEF Requests
  <2>3. \A o \in net' : o.dp = e => o \in net
    BY <1>1, <1>7
  <2> QED
    BY <2>1, <2>2, <2>3, <1>0, <1>3 DEF StageInv, Asked, ServiceInv, InService, IsReal
<1>8. StageInv(d)' /\ Asked(d)' /\ ServiceInv(d)'
  BY <1>0, <1>1, <1>2, <1>3, <1>4, ZeroTP
  DEF StageInv, Asked, ServiceInv, InService, Requests, IsReal
<1> QED
  BY <1>3, <1>5, <1>6, <1>7, <1>8
  DEF IInv, WorkerInv, PublishInv, Published, EnqueuedIsPublished, Consumed, FlagInv,
      DummyInv, GotInv, InStep, IsReal, Expected

LEMMA ResumeInv ==
  ASSUME IInv, NEW d \in DP, NEW t \in TP, Resume(d, t)
  PROVE  IInv'
<1>0. /\ TypeOK
      /\ \A e \in DP : StageInv(e) /\ Asked(e) /\ ServiceInv(e)
      /\ \A e \in DP, u \in TP : HostInv(e, u) /\ EnqueuedIsPublished(e, u)
  BY DEF IInv
<1>1. /\ pc' \in [DP -> [TP -> {"idle", "staging", "sending", "waiting", "failed"}]]
      /\ pc[d][t] = "waiting" /\ pc'[d][t] = "idle"
      /\ \A e \in DP, u \in TP : e # d \/ u # t => pc'[e][u] = pc[e][u]
  BY <1>0, UpdateRank DEF Resume, TypeOK
<1>2. /\ enq' \in [DP -> [TP -> Steps]]
      /\ enq'[d][t] = hpos[d][t]
      /\ \A e \in DP, u \in TP : e # d \/ u # t => enq'[e][u] = enq[e][u]
  BY <1>0, UpdateRank DEF Resume, TypeOK
<1>3. UNCHANGED <<upto, hpos, seq, fin, st, got, out, src, inputs, raw, done, net,
                  up, job, todo, scratch, dma, unsynced, flags>>
  BY DEF Resume, gpuVars, workerVars
<1>4. done[d][t] >= upto[d][hpos[d][t]]
  BY <1>0 DEF Resume, Answered, HostInv
<1>5. TypeOK'
  BY <1>0, <1>1, <1>2, <1>3 DEF TypeOK
<1>6. \A e \in DP, u \in TP : HostInv(e, u)' /\ EnqueuedIsPublished(e, u)'
  <2> SUFFICES ASSUME NEW e \in DP, NEW u \in TP
               PROVE  HostInv(e, u)' /\ EnqueuedIsPublished(e, u)'
    OBVIOUS
  <2>1. CASE e = d /\ u = t
    BY <2>1, <1>0, <1>1, <1>2, <1>3, <1>4, NatTypes DEF HostInv, EnqueuedIsPublished, IsReal
  <2>2. CASE e # d \/ u # t
    BY <2>2, <1>0, <1>1, <1>2, <1>3 DEF HostInv, EnqueuedIsPublished, IsReal
  <2> QED
    BY <2>1, <2>2
<1>7. \A e \in DP : StageInv(e)' /\ Asked(e)' /\ ServiceInv(e)'
  <2> SUFFICES ASSUME NEW e \in DP PROVE StageInv(e)' /\ Asked(e)' /\ ServiceInv(e)'
    OBVIOUS
  <2>1. CASE e = d /\ t = 0
    <3>1. ~InService(d)
      <4>1. upto[d][inputs[d]] \in Nat
        BY <1>0, NatTypes
      <4> QED
        BY <2>1, <4>1, <1>0, <1>1, <1>4 DEF Asked
    <3> QED
      BY <2>1, <3>1, <1>0, <1>1, <1>3 DEF StageInv, Asked, ServiceInv, InService, Requests, IsReal
  <2>2. CASE e # d \/ t # 0
    <3>1. pc'[e][0] = pc[e][0]
      BY <2>2, <1>1, ZeroTP
    <3> QED
      BY <3>1, <1>0, <1>3 DEF StageInv, Asked, ServiceInv, InService, Requests, IsReal
  <2> QED
    BY <2>1, <2>2
<1> QED
  BY <1>3, <1>5, <1>6, <1>7
  DEF IInv, WorkerInv, PublishInv, Published, Consumed, FlagInv,
      DummyInv, GotInv, InStep, IsReal, Expected

LEMMA TimeoutInv ==
  ASSUME IInv, NEW d \in DP, NEW t \in TP, Timeout(d, t)
  PROVE  IInv'
<1>0. /\ TypeOK
      /\ \A e \in DP : StageInv(e) /\ Asked(e) /\ ServiceInv(e)
      /\ \A e \in DP, u \in TP : HostInv(e, u)
  BY DEF IInv
<1>1. /\ pc' \in [DP -> [TP -> {"idle", "staging", "sending", "waiting", "failed"}]]
      /\ pc[d][t] = "waiting" /\ pc'[d][t] = "failed"
      /\ \A e \in DP, u \in TP : e # d \/ u # t => pc'[e][u] = pc[e][u]
  BY <1>0, UpdateRank DEF Timeout, TypeOK
<1>2. UNCHANGED <<upto, hpos, seq, enq, fin, st, got, out, src, inputs, raw, done, net,
                  up, job, todo, scratch, dma, unsynced, flags>>
  BY DEF Timeout, gpuVars, workerVars
<1>3. TypeOK'
  BY <1>0, <1>1, <1>2 DEF TypeOK
<1>4. \A e \in DP, u \in TP : HostInv(e, u)'
  <2> SUFFICES ASSUME NEW e \in DP, NEW u \in TP PROVE HostInv(e, u)'
    OBVIOUS
  <2>1. pc'[e][u] = pc[e][u] \/ (pc[e][u] = "waiting" /\ pc'[e][u] = "failed")
    BY <1>1
  <2> QED
    BY <2>1, <1>0, <1>2 DEF HostInv, IsReal
<1>5. \A e \in DP : StageInv(e)' /\ Asked(e)' /\ ServiceInv(e)'
  <2> SUFFICES ASSUME NEW e \in DP PROVE StageInv(e)' /\ Asked(e)' /\ ServiceInv(e)'
    OBVIOUS
  <2>1. pc'[e][0] = pc[e][0] \/ (pc[e][0] = "waiting" /\ pc'[e][0] = "failed")
    BY <1>1, ZeroTP
  <2> QED
    BY <2>1, <1>0, <1>2 DEF StageInv, Asked, ServiceInv, InService, Requests, IsReal
<1> QED
  BY <1>2, <1>3, <1>4, <1>5
  DEF IInv, WorkerInv, PublishInv, Published, EnqueuedIsPublished, Consumed, FlagInv,
      DummyInv, GotInv, InStep, IsReal, Expected

-----------------------------------------------------------------------------
(* The GPU streams preserve the invariant. *)

LEMMA ProduceInputsInv ==
  ASSUME IInv, NEW d \in DP, ProduceInputs(d)
  PROVE  IInv'
<1>0. /\ TypeOK
      /\ \A e \in DP : StageInv(e)
  BY DEF IInv
<1>1. CudaInputs /\ fin[d][0] + 1 \in Steps
  <2>1. CudaInputs /\ fin[d][0] + 1 <= hpos[d][0]
    BY DEF ProduceInputs
  <2> QED
    BY <2>1, <1>0, NatTypes, ZeroTP DEF Steps
<1>2. src' \in [DP -> Steps]
  BY <1>0, <1>1, UpdateDP DEF ProduceInputs, TypeOK
<1>3. UNCHANGED <<upto, pc, hpos, seq, enq, fin, st, got, out, inputs, raw, done, net,
                  up, job, todo, scratch, dma, unsynced, flags>>
  BY DEF ProduceInputs, hostVars, gpuVars, workerVars
<1>4. TypeOK'
  BY <1>0, <1>2, <1>3 DEF TypeOK
<1>5. \A e \in DP : StageInv(e)'
  BY <1>0, <1>1, <1>3 DEF StageInv, IsReal
<1> QED
  BY <1>3, <1>4, <1>5
  DEF IInv, WorkerInv, Asked, ServiceInv, PublishInv, Published, HostInv, InService, Requests,
      EnqueuedIsPublished, Consumed, FlagInv, DummyInv, GotInv, InStep, IsReal, Expected

(***************************************************************************)
(* While step q is in service no rank has enqueued its forward, and no     *)
(* rank is in the middle of reading an earlier one.                        *)
(***************************************************************************)
LEMMA ServiceFindsBuffersFree ==
  ASSUME IInv, NEW d \in DP, NEW t \in TP, InService(d)
  PROVE  /\ enq[d][t] < inputs[d]
         /\ \/ fin[d][t] = inputs[d] - 1 /\ enq[d][t] = fin[d][t] /\ st[d][t] = 0
            \/ /\ fin[d][t] = inputs[d] - 2 /\ enq[d][t] = fin[d][t] + 1
               /\ st[d][t] = NumLayers + 1
<1>0. TypeOK /\ Asked(d) /\ HostInv(d, t) /\ EnqueuedIsPublished(d, t) /\ Consumed(d, t)
  BY DEF IInv
<1>1. /\ inputs[d] \in Steps /\ enq[d][t] \in Steps
      /\ inputs[d] \in Nat /\ enq[d][t] \in Nat /\ fin[d][t] \in Nat /\ st[d][t] \in Nat
      /\ upto[d][inputs[d]] \in Nat /\ upto[d][enq[d][t]] \in Nat /\ done[d][t] \in Nat
      /\ NumLayers \in Nat
  BY <1>0, NatTypes
<1>2. upto[d][enq[d][t]] < upto[d][inputs[d]]
  BY <1>0, <1>1 DEF Asked, EnqueuedIsPublished
<1>3. enq[d][t] < inputs[d]
  <2>1. inputs[d] < enq[d][t] => upto[d][inputs[d]] <= upto[d][enq[d][t]]
    BY <1>0, <1>1, UptoFacts
  <2> QED
    BY <2>1, <1>1, <1>2
<1>4. fin[d][t] <= enq[d][t] /\ (st[d][t] >= 1 => fin[d][t] < enq[d][t])
  BY <1>0 DEF HostInv
<1> QED
  BY <1>0, <1>1, <1>3, <1>4 DEF Consumed

LEMMA BeginForwardInv ==
  ASSUME IInv, NEW d \in DP, NEW t \in TP, BeginForward(d, t)
  PROVE  IInv'
<1>0. /\ TypeOK /\ WorkerInv
      /\ \A e \in DP : StageInv(e) /\ PublishInv(e)
      /\ \A e \in DP, u \in TP :
           /\ HostInv(e, u) /\ Consumed(e, u) /\ FlagInv(e, u) /\ DummyInv(e, u)
           /\ GotInv(e, u) /\ \A x \in TP : InStep(e, x, u)
  BY DEF IInv
<1> DEFINE p == fin[d][t] + 1
<1>1. p <= enq[d][t] /\ st[d][t] = 0
  BY DEF BeginForward
<1>2. /\ st' \in [DP -> [TP -> 0 .. (NumLayers + 1)]] /\ st'[d][t] = 1
      /\ \A e \in DP, u \in TP : e # d \/ u # t => st'[e][u] = st[e][u]
  BY <1>0, UpdateRank, SizesAssumption DEF BeginForward, TypeOK
<1>3. /\ got' \in [DP -> [TP -> [Layers -> Values]]]
      /\ \A e \in DP, u \in TP : e # d \/ u # t => got'[e][u] = got[e][u]
  <2>1. Unread \in [Layers -> Values]
    BY DEF Unread, Values
  <2> QED
    BY <2>1, <1>0, UpdateRank DEF BeginForward, TypeOK
<1>4. /\ out' \in [DP -> [TP -> [Layers -> Values]]]
      /\ IsReal(d, p) => out' = out
      /\ ~IsReal(d, p) => out'[d][t] = [l \in Layers |-> Zeros]
      /\ \A e \in DP, u \in TP : e # d \/ u # t => out'[e][u] = out[e][u]
  <2>1. [l \in Layers |-> Zeros] \in [Layers -> Values]
    BY DEF Values
  <2>2. CASE IsReal(d, p)
    BY <2>2, <1>0 DEF BeginForward, TypeOK
  <2>3. CASE ~IsReal(d, p)
    BY <2>1, <2>3, <1>0, UpdateRank DEF BeginForward, TypeOK
  <2> QED
    BY <2>2, <2>3
<1>5. UNCHANGED <<upto, pc, hpos, seq, enq, fin, src, inputs, raw, done, net,
                  up, job, todo, scratch, dma, unsynced, flags>>
  BY DEF BeginForward, hostVars, workerVars
<1>6. TypeOK'
  BY <1>0, <1>2, <1>3, <1>4, <1>5 DEF TypeOK
<1>7. fin[d][t] \in Nat /\ enq[d][t] \in Nat /\ inputs[d] \in Nat /\ NumLayers \in Nat
      /\ NumLayers >= 1
  BY <1>0, NatTypes
<1>8. ~IsReal(d, p) => d \notin unsynced /\ fin[d][t] >= inputs[d]
  <2>1. d \notin unsynced
    BY <1>1, <1>7, ServiceFindsBuffersFree DEF InService
  <2>2. fin[d][t] >= inputs[d] - 1
    BY <1>0, <1>1, <1>7 DEF Consumed
  <2>3. fin[d][t] = inputs[d] - 1 => p = inputs[d] /\ inputs[d] >= 1
    BY <1>7
  <2> QED
    BY <2>1, <2>2, <2>3, <1>0, <1>7 DEF StageInv
<1>9. \A e \in DP, u \in TP, l \in Layers :
        e \in unsynced \/ fin[e][u] < inputs[e] => out'[e][u][l] = out[e][u][l]
  BY <1>4, <1>7, <1>8
<1>10. WorkerInv' /\ (\A e \in DP : PublishInv(e)') /\ (\A e \in DP, u \in TP : FlagInv(e, u)')
  <2>1. WorkerInv'
    BY <1>0, <1>5, <1>9 DEF WorkerInv
  <2>2. \A e \in DP : PublishInv(e)'
    BY <1>0, <1>5, <1>9 DEF PublishInv, Published
  <2>3. \A e \in DP, u \in TP : FlagInv(e, u)'
    BY <1>0, <1>5, <1>9 DEF FlagInv
  <2> QED
    BY <2>1, <2>2, <2>3
<1>11. ASSUME NEW e \in DP, NEW u \in TP
       PROVE  /\ HostInv(e, u)' /\ Consumed(e, u)' /\ DummyInv(e, u)' /\ GotInv(e, u)'
              /\ \A x \in TP : InStep(e, x, u)'
  <2>1. CASE e = d /\ u = t
    <3>1. HostInv(d, t)' /\ Consumed(d, t)' /\ \A x \in TP : InStep(d, x, t)'
      BY <1>0, <1>1, <1>2, <1>5, <1>7 DEF HostInv, Consumed, InStep, IsReal
    <3>2. DummyInv(d, t)' /\ GotInv(d, t)'
      <4>1. \A l \in Layers : ~(l < 1)
        BY DEF Layers
      <4> QED
        BY <4>1, <1>2, <1>4, <1>5 DEF DummyInv, GotInv, IsReal
    <3> QED
      BY <2>1, <3>1, <3>2
  <2>2. CASE e # d \/ u # t
    <3>1. st'[e][u] = st[e][u] /\ got'[e][u] = got[e][u] /\ out'[e][u] = out[e][u]
      BY <2>2, <1>2, <1>3, <1>4
    <3>2. HostInv(e, u)' /\ Consumed(e, u)' /\ \A x \in TP : InStep(e, x, u)'
      BY <3>1, <1>0, <1>5 DEF HostInv, Consumed, InStep, IsReal
    <3>3. DummyInv(e, u)' /\ GotInv(e, u)'
      BY <3>1, <1>0, <1>5 DEF DummyInv, GotInv, IsReal, Expected
    <3> QED
      BY <3>2, <3>3
  <2> QED
    BY <2>1, <2>2
<1> QED
  BY <1>5, <1>6, <1>10, <1>11
  DEF IInv, StageInv, Asked, ServiceInv, InService, Requests, EnqueuedIsPublished, IsReal

(***************************************************************************)
(* A layer that a forward is about to read holds that forward's rows.      *)
(***************************************************************************)
LEMMA ReadOwn ==
  ASSUME IInv, NEW d \in DP, NEW t \in TP, st[d][t] \in Layers
  PROVE  out[d][t][st[d][t]] = Expected(d, fin[d][t] + 1)
<1>0. /\ TypeOK /\ PublishInv(d)
      /\ HostInv(d, t) /\ EnqueuedIsPublished(d, t) /\ Consumed(d, t) /\ DummyInv(d, t)
  BY DEF IInv
<1> DEFINE p == fin[d][t] + 1
           q == inputs[d]
<1>1. /\ fin[d][t] \in Nat /\ enq[d][t] \in Nat /\ enq[d][t] \in Steps
      /\ q \in Nat /\ q \in Steps /\ NumLayers \in Nat
      /\ upto[d][q] \in Nat /\ upto[d][enq[d][t]] \in Nat /\ done[d][t] \in Nat
  BY <1>0, NatTypes
<1>2. st[d][t] >= 1 /\ st[d][t] # NumLayers + 1
  BY <1>1 DEF Layers
<1>3. CASE ~IsReal(d, p)
  BY <1>0, <1>2, <1>3 DEF DummyInv, Expected, Layers
<1>4. CASE IsReal(d, p)
  <2>1. p <= enq[d][t] /\ p \in Steps /\ p >= q
    <3>1. fin[d][t] < enq[d][t] /\ enq[d][t] <= MaxStep /\ MaxStep \in Nat
      BY <1>0, <1>2, NatTypes DEF HostInv
    <3>2. fin[d][t] >= q - 1
      BY <1>0, <1>2 DEF Consumed
    <3> QED
      BY <3>1, <3>2, <1>1 DEF Steps
  <2>2. upto[d][p] \in Nat /\ upto[d][p] <= upto[d][enq[d][t]]
    <3>1. upto[d][p] \in Nat
      BY <2>1, <1>0, NatTypes
    <3>2. p < enq[d][t] => upto[d][p] <= upto[d][enq[d][t]]
      BY <2>1, <1>0, <1>1, UptoFacts
    <3> QED
      BY <3>1, <3>2, <2>1, <1>1
  <2>3. upto[d][p] <= done[d][t] /\ done[d][t] <= upto[d][q]
    BY <2>2, <1>0, <1>1 DEF EnqueuedIsPublished, PublishInv
  <2>4. p = q
    <3>1. q < p => upto[d][q] < upto[d][p]
      BY <2>1, <1>0, <1>1, <1>4, UptoFacts
    <3> QED
      BY <3>1, <2>1, <2>2, <2>3, <1>1
  <2>5. Published(d) /\ q >= 1 /\ fin[d][t] < q
    BY <2>2, <2>3, <2>4, <1>1 DEF Published
  <2> QED
    BY <2>4, <2>5, <1>0, <1>4 DEF PublishInv, Expected
<1> QED
  BY <1>3, <1>4

LEMMA ReadLayerInv ==
  ASSUME IInv, NEW d \in DP, NEW t \in TP, ReadLayer(d, t)
  PROVE  IInv'
<1>0. /\ TypeOK
      /\ \A e \in DP, u \in TP :
           /\ HostInv(e, u) /\ Consumed(e, u) /\ DummyInv(e, u) /\ GotInv(e, u)
           /\ \A x \in TP : InStep(e, x, u)
  BY DEF IInv
<1> DEFINE l == st[d][t]
<1>1. l \in Layers /\ l \in Nat /\ l >= 1 /\ l <= NumLayers /\ NumLayers \in Nat
  BY SizesAssumption DEF ReadLayer, Layers
<1>2. /\ st' \in [DP -> [TP -> 0 .. (NumLayers + 1)]] /\ st'[d][t] = l + 1
      /\ \A e \in DP, u \in TP : e # d \/ u # t => st'[e][u] = st[e][u]
  <2>1. l + 1 \in 0 .. (NumLayers + 1)
    BY <1>1
  <2> QED
    BY <2>1, <1>0, UpdateRank DEF ReadLayer, TypeOK
<1>3. /\ got' \in [DP -> [TP -> [Layers -> Values]]]
      /\ got'[d][t][l] = out[d][t][l]
      /\ \A k \in Layers : k # l => got'[d][t][k] = got[d][t][k]
      /\ \A e \in DP, u \in TP : e # d \/ u # t => got'[e][u] = got[e][u]
  <2>1. out[d][t][l] \in Values
    BY <1>0, <1>1 DEF TypeOK
  <2>2. got \in [DP -> [TP -> [Layers -> Values]]] /\ got' = [got EXCEPT ![d][t][l] = out[d][t][l]]
    BY <1>0 DEF ReadLayer, TypeOK
  <2> QED
    BY <2>1, <2>2, <1>1, UpdateLayer
<1>4. UNCHANGED <<upto, pc, hpos, seq, enq, fin, out, src, inputs, raw, done, net,
                  up, job, todo, scratch, dma, unsynced, flags>>
  BY DEF ReadLayer, hostVars, workerVars
<1>5. TypeOK'
  BY <1>0, <1>2, <1>3, <1>4 DEF TypeOK
<1>6. ASSUME NEW e \in DP, NEW u \in TP
      PROVE  /\ HostInv(e, u)' /\ Consumed(e, u)' /\ DummyInv(e, u)' /\ GotInv(e, u)'
             /\ \A x \in TP : InStep(e, x, u)'
  <2>1. CASE e = d /\ u = t
    <3>1. HostInv(d, t)' /\ Consumed(d, t)' /\ \A x \in TP : InStep(d, x, t)'
      BY <1>0, <1>1, <1>2, <1>4 DEF HostInv, Consumed, InStep, IsReal
    <3>2. DummyInv(d, t)'
      <4>1. \A k \in Layers : k >= l + 1 => k >= l
        BY <1>1 DEF Layers
      <4> QED
        BY <4>1, <1>0, <1>1, <1>2, <1>4 DEF DummyInv, IsReal
    <3>3. GotInv(d, t)'
      <4>1. \A k \in Layers : k < l + 1 => k < l \/ k = l
        BY <1>1 DEF Layers
      <4>2. got'[d][t][l] = Expected(d, fin[d][t] + 1)
        BY <1>1, <1>3, ReadOwn
      <4>3. \A k \in Layers : k < l => got'[d][t][k] = Expected(d, fin[d][t] + 1)
        BY <1>0, <1>1, <1>3 DEF GotInv, Layers
      <4> QED
        BY <4>1, <4>2, <4>3, <1>2, <1>4 DEF GotInv, Expected, IsReal
    <3> QED
      BY <2>1, <3>1, <3>2, <3>3
  <2>2. CASE e # d \/ u # t
    <3>1. st'[e][u] = st[e][u] /\ got'[e][u] = got[e][u]
      BY <2>2, <1>2, <1>3
    <3>2. HostInv(e, u)' /\ Consumed(e, u)' /\ \A x \in TP : InStep(e, x, u)'
      BY <3>1, <1>0, <1>4 DEF HostInv, Consumed, InStep, IsReal
    <3>3. DummyInv(e, u)' /\ GotInv(e, u)'
      BY <3>1, <1>0, <1>4 DEF DummyInv, GotInv, IsReal, Expected
    <3> QED
      BY <3>2, <3>3
  <2> QED
    BY <2>1, <2>2
<1> QED
  BY <1>4, <1>5, <1>6
  DEF IInv, WorkerInv, StageInv, Asked, ServiceInv, PublishInv, Published, FlagInv,
      InService, Requests, EnqueuedIsPublished, IsReal

LEMMA FinishForwardInv ==
  ASSUME IInv, NEW d \in DP, NEW t \in TP, FinishForward(d, t)
  PROVE  IInv'
<1>0. /\ TypeOK
      /\ \A e \in DP : StageInv(e) /\ PublishInv(e)
      /\ \A e \in DP, u \in TP :
           /\ HostInv(e, u) /\ Consumed(e, u) /\ FlagInv(e, u) /\ DummyInv(e, u) /\ GotInv(e, u)
           /\ \A x \in TP : InStep(e, x, u)
  BY DEF IInv
<1>1. /\ st[d][t] = NumLayers + 1
      /\ \A u \in TP : fin[d][u] >= fin[d][t] + 1 \/ (fin[d][u] = fin[d][t] /\ st[d][u] = NumLayers + 1)
  <2>1. st[d][t] = NumLayers + 1 /\ AllReadBy(d, fin[d][t] + 1)
    BY DEF FinishForward, LocalFinish
  <2>2. \A u \in TP : fin[d][u] \in Nat
    BY <1>0, NatTypes
  <2> QED
    BY <2>1, <2>2 DEF AllReadBy
<1>2. fin[d][t] < enq[d][t] /\ fin[d][t] + 1 \in Steps
  <2>1. /\ fin[d][t] \in Nat /\ enq[d][t] \in Nat /\ enq[d][t] <= MaxStep /\ MaxStep \in Nat
        /\ NumLayers \in Nat
    BY <1>0, NatTypes
  <2>2. fin[d][t] < enq[d][t]
    BY <2>1, <1>0, <1>1 DEF HostInv
  <2> QED
    BY <2>1, <2>2 DEF Steps
<1>3. /\ fin' \in [DP -> [TP -> Steps]] /\ fin'[d][t] = fin[d][t] + 1
      /\ \A e \in DP, u \in TP : e # d \/ u # t => fin'[e][u] = fin[e][u]
  BY <1>0, <1>2, UpdateRank DEF FinishForward, LocalFinish, TypeOK
<1>4. /\ st' \in [DP -> [TP -> 0 .. (NumLayers + 1)]] /\ st'[d][t] = 0
      /\ \A e \in DP, u \in TP : e # d \/ u # t => st'[e][u] = st[e][u]
  BY <1>0, UpdateRank, SizesAssumption DEF FinishForward, LocalFinish, TypeOK
<1>5. UNCHANGED <<upto, got, pc, hpos, seq, enq, out, src, inputs, raw, done, net,
                  up, job, todo, scratch, dma, unsynced, flags>>
  BY DEF FinishForward, LocalFinish, hostVars, workerVars
<1>6. TypeOK'
  BY <1>0, <1>3, <1>4, <1>5 DEF TypeOK
<1>7. \A e \in DP, u \in TP : fin[e][u] \in Nat /\ enq[e][u] \in Nat /\ inputs[e] \in Nat
  BY <1>0, NatTypes
<1>8. \A e \in DP, u \in TP : fin'[e][u] < inputs[e] => fin[e][u] < inputs[e]
  BY <1>3, <1>7
<1>9. \A e \in DP : StageInv(e)' /\ PublishInv(e)'
  <2> SUFFICES ASSUME NEW e \in DP PROVE StageInv(e)' /\ PublishInv(e)'
    OBVIOUS
  <2>1. PublishInv(e)'
    BY <1>0, <1>5, <1>8 DEF PublishInv, Published
  <2>2. ~CudaInputs /\ pc[e][0] = "staging" => fin'[e][0] = fin[e][0]
    <3>1. CASE e = d /\ t = 0
      BY <3>1, <1>0, <1>2, <1>7, ZeroTP DEF StageInv, HostInv
    <3>2. CASE e # d \/ t # 0
      BY <3>2, <1>3, ZeroTP
    <3> QED
      BY <3>1, <3>2
  <2> QED
    BY <2>1, <2>2, <1>0, <1>5 DEF StageInv, IsReal
<1>10. ASSUME NEW e \in DP, NEW u \in TP
       PROVE  /\ HostInv(e, u)' /\ Consumed(e, u)' /\ FlagInv(e, u)'
              /\ DummyInv(e, u)' /\ GotInv(e, u)'
  <2>1. FlagInv(e, u)'
    BY <1>0, <1>5, <1>8 DEF FlagInv
  <2>2. CASE e = d /\ u = t
    <3>1. HostInv(d, t)' /\ Consumed(d, t)'
      <4>1. HostInv(d, t)'
        <5>1. fin'[d][t] <= enq[d][t]
          BY <1>2, <1>3, <1>7
        <5>2. ~(st'[d][t] >= 1)
          BY <1>4
        <5> QED
          BY <5>1, <5>2, <1>0, <1>5 DEF HostInv, IsReal
      <4>2. Consumed(d, t)'
        BY <1>0, <1>3, <1>5, <1>7 DEF Consumed
      <4> QED
        BY <4>1, <4>2
    <3>2. DummyInv(d, t)' /\ GotInv(d, t)'
      <4>1. \A l \in Layers : ~(l < 0)
        BY DEF Layers
      <4> QED
        BY <4>1, <1>4 DEF DummyInv, GotInv
    <3> QED
      BY <2>1, <2>2, <3>1, <3>2
  <2>3. CASE e # d \/ u # t
    BY <2>1, <2>3, <1>0, <1>3, <1>4, <1>5
    DEF HostInv, Consumed, DummyInv, GotInv, IsReal, Expected
  <2> QED
    BY <2>2, <2>3
<1>11. \A e \in DP, u, x \in TP : InStep(e, x, u)'
  <2> SUFFICES ASSUME NEW e \in DP, NEW u \in TP, NEW x \in TP PROVE InStep(e, x, u)'
    OBVIOUS
  <2>1. CASE e # d \/ (u # t /\ x # t)
    BY <2>1, <1>0, <1>3, <1>4 DEF InStep
  <2>2. CASE e = d /\ x = t /\ u # t
    BY <2>2, <1>1, <1>3, <1>4, <1>7 DEF InStep
  <2>3. CASE e = d /\ u = t
    BY <2>3, <1>0, <1>3, <1>4, <1>7 DEF InStep
  <2> QED
    BY <2>1, <2>2, <2>3
<1> QED
  BY <1>5, <1>6, <1>9, <1>10, <1>11
  DEF IInv, WorkerInv, Asked, ServiceInv, InService, Requests, EnqueuedIsPublished, IsReal

-----------------------------------------------------------------------------
(* The offload process preserves the invariant. *)

LEMMA TakeBatchInv ==
  ASSUME IInv, NEW B \in SUBSET net, TakeBatch(B)
  PROVE  IInv'
<1>0. /\ TypeOK /\ WorkerInv
      /\ \A e \in DP : StageInv(e) /\ Asked(e) /\ ServiceInv(e)
  BY DEF IInv
<1> DEFINE served == {r.dp : r \in B}
           first(e) == CHOOSE r \in B : r.dp = e /\ \A o \in B : o.dp = e => r.seq <= o.seq
<1>1. /\ unsynced = {} /\ flags = {} /\ net' = net \ B /\ served \subseteq DP
      /\ job' = [e \in DP |-> IF e \in served THEN first(e).seq ELSE 0]
      /\ todo' = Layers \X served /\ unsynced' = served
      /\ raw' = [e \in DP |-> raw[e] /\ ~(Speculative /\ e \in served)]
  BY <1>0 DEF TakeBatch, Clamp, TypeOK
<1>2. UNCHANGED <<upto, pc, hpos, seq, enq, fin, st, got, out, src, inputs, done,
                  up, scratch, dma, flags>>
  BY DEF TakeBatch, hostVars, gpuVars
<1>3. \A o \in net : o = [dp |-> o.dp, seq |-> seq[o.dp][0]] /\ o.dp \in DP
  <2>1. \A o \in net : o \in [dp : DP, seq : Steps]
    BY <1>0 DEF TypeOK
  <2>2. \A o \in net : o.dp \in DP /\ o.seq = seq[o.dp][0]
    BY <2>1, <1>0 DEF ServiceInv
  <2> QED
    BY <2>1, <2>2
<1>4. ASSUME NEW e \in served
      PROVE  first(e).seq = seq[e][0] /\ Requests(e) # {} /\ Requests(e)' = {}
  <2>1. PICK r \in B : r.dp = e
    OBVIOUS
  <2>2. \A o \in net : o.dp = e => o = r
    BY <2>1, <1>3
  <2>3. seq[e][0] \in Nat
    BY <1>0, <1>1, NatTypes, ZeroTP
  <2>4. \A o \in B : o.dp = e => r.seq <= o.seq
    BY <2>1, <2>2, <2>3, <1>3
  <2>5. first(e) \in B /\ first(e).dp = e
    BY <2>1, <2>4
  <2>6. first(e) = r
    BY <2>2, <2>5
  <2> QED
    BY <2>1, <2>2, <2>6, <1>1, <1>3 DEF Requests
<1>5. \A e \in DP : e \notin served => Requests(e)' = Requests(e)
  BY <1>1 DEF Requests
<1>6. \A e \in DP : InService(e)' <=> InService(e)
  BY <1>1, <1>4, <1>5 DEF InService
<1>7. todo = {} /\ dma = {}
  BY <1>0, <1>1 DEF WorkerInv, TypeOK
<1>8. TypeOK'
  <2>1. net' \subseteq [dp : DP, seq : Steps]
    BY <1>0, <1>1 DEF TypeOK
  <2>2. job' \in [DP -> Steps]
    <3>1. \A e \in DP : seq[e][0] \in Steps
      BY <1>0, ZeroTP DEF TypeOK
    <3>2. 0 \in Steps
      BY SizesAssumption DEF Steps
    <3>3. \A e \in DP : (IF e \in served THEN first(e).seq ELSE 0) \in Steps
      BY <3>1, <3>2, <1>4
    <3> QED
      BY <3>3, <1>1
  <2>3. raw' \in [DP -> BOOLEAN] /\ todo' \subseteq Layers \X DP /\ unsynced' \subseteq DP
    BY <1>1
  <2> QED
    BY <2>1, <2>2, <2>3, <1>0, <1>2 DEF TypeOK
<1>9. WorkerInv'
  BY <1>1, <1>2, <1>7 DEF WorkerInv
<1>10. ASSUME NEW e \in DP PROVE StageInv(e)' /\ Asked(e)' /\ ServiceInv(e)'
  <2>1. raw'[e] = (raw[e] /\ ~(Speculative /\ e \in served))
    BY <1>1
  <2>2. StageInv(e)'
    BY <2>1, <1>0, <1>2 DEF StageInv, IsReal
  <2>3. Asked(e)'
    BY <1>0, <1>1, <1>2, <1>6 DEF Asked
  <2>4. e \in served => job'[e] = seq[e][0]
    BY <1>1, <1>4
  <2>5. ServiceInv(e)'
    BY <2>1, <2>4, <1>0, <1>1, <1>2, <1>4, <1>6 DEF ServiceInv, StageInv
  <2> QED
    BY <2>2, <2>3, <2>5
<1>11. \A e \in DP, u \in TP : FlagInv(e, u)'
  BY <1>1, <1>2 DEF FlagInv
<1> QED
  BY <1>2, <1>8, <1>9, <1>10, <1>11
  DEF IInv, PublishInv, Published, HostInv, EnqueuedIsPublished, Consumed, DummyInv,
      GotInv, InStep, IsReal, Expected

LEMMA ComputeInv ==
  ASSUME IInv, NEW l \in Layers, NEW d \in DP, Compute(l, d)
  PROVE  IInv'
<1>0. TypeOK /\ WorkerInv /\ ServiceInv(d)
  BY DEF IInv
<1>1. /\ <<l, d>> \in todo /\ todo' = todo \ {<<l, d>>}
      /\ dma' = dma \cup {<<d, l, t>> : t \in TP}
  BY DEF Compute
<1>2. d \in unsynced /\ ~raw[d]
  BY <1>0, <1>1 DEF WorkerInv, ServiceInv
<1>3. /\ scratch' \in [DP -> [Layers -> Values]] /\ scratch'[d][l] = inputs[d]
      /\ \A e \in DP, k \in Layers : e # d \/ k # l => scratch'[e][k] = scratch[e][k]
  <2>1. scratch' = [scratch EXCEPT ![d][l] = inputs[d]]
    BY <1>2 DEF Compute
  <2>2. inputs[d] \in Values
    BY <1>0, SizesAssumption DEF TypeOK, Values, Steps, Zeros
  <2>3. scratch \in [DP -> [Layers -> Values]]
    BY <1>0 DEF TypeOK
  <2> QED
    BY <2>1, <2>2, <2>3
<1>4. UNCHANGED <<upto, pc, hpos, seq, enq, fin, st, got, out, src, inputs, raw, done, net,
                  up, job, unsynced, flags>>
  BY DEF Compute, hostVars, gpuVars
<1>5. TypeOK'
  BY <1>0, <1>1, <1>3, <1>4 DEF TypeOK
<1>6. ASSUME NEW e \in DP, NEW k \in Layers, NEW t \in TP
      PROVE  /\ <<e, k, t>> \in dma' =>
                  e \in unsynced' /\ <<k, e>> \notin todo' /\ scratch'[e][k] = inputs'[e]
             /\ e \in unsynced' /\ <<k, e>> \notin todo' /\ <<e, k, t>> \notin dma' =>
                  out'[e][t][k] = inputs'[e]
  <2>1. CASE e = d /\ k = l
    BY <2>1, <1>1, <1>2, <1>3, <1>4
  <2>2. CASE e # d \/ k # l
    <3>1. /\ <<e, k, t>> \in dma' <=> <<e, k, t>> \in dma
          /\ <<k, e>> \in todo' <=> <<k, e>> \in todo
      BY <2>2, <1>1
    <3> QED
      BY <2>2, <3>1, <1>0, <1>3, <1>4 DEF WorkerInv
  <2> QED
    BY <2>1, <2>2
<1>7. WorkerInv'
  BY <1>0, <1>1, <1>4, <1>6 DEF WorkerInv
<1> QED
  BY <1>4, <1>5, <1>7
  DEF IInv, StageInv, Asked, ServiceInv, InService, Requests, PublishInv, Published, HostInv,
      EnqueuedIsPublished, Consumed, FlagInv, DummyInv, GotInv, InStep, IsReal, Expected

LEMMA CopyLandsInv ==
  ASSUME IInv, NEW d \in DP, NEW l \in Layers, NEW t \in TP, CopyLands(d, l, t)
  PROVE  IInv'
<1>0. /\ TypeOK /\ WorkerInv /\ Asked(d)
      /\ \A e \in DP : PublishInv(e)
      /\ \A e \in DP, u \in TP : FlagInv(e, u) /\ DummyInv(e, u)
  BY DEF IInv
<1>1. <<d, l, t>> \in dma /\ dma' = dma \ {<<d, l, t>>}
  BY DEF CopyLands
<1>2. d \in unsynced /\ InService(d) /\ scratch[d][l] = inputs[d]
  BY <1>0, <1>1 DEF WorkerInv, InService
<1>3. /\ out' \in [DP -> [TP -> [Layers -> Values]]] /\ out'[d][t][l] = inputs[d]
      /\ \A k \in Layers : k # l => out'[d][t][k] = out[d][t][k]
      /\ \A e \in DP, u \in TP : e # d \/ u # t => out'[e][u] = out[e][u]
  <2>1. scratch[d][l] \in Values
    BY <1>0 DEF TypeOK
  <2>2. out \in [DP -> [TP -> [Layers -> Values]]] /\ out' = [out EXCEPT ![d][t][l] = scratch[d][l]]
    BY <1>0 DEF CopyLands, TypeOK
  <2> QED
    BY <2>1, <2>2, <1>2, UpdateLayer
<1>4. UNCHANGED <<upto, pc, hpos, seq, enq, fin, st, got, src, inputs, raw, done, net,
                  up, job, todo, scratch, unsynced, flags>>
  BY DEF CopyLands, hostVars, gpuVars
<1>5. TypeOK'
  BY <1>0, <1>1, <1>3, <1>4 DEF TypeOK
<1>6. ASSUME NEW e \in DP, NEW k \in Layers, NEW u \in TP
      PROVE  /\ <<e, k, u>> \in dma' =>
                  e \in unsynced' /\ <<k, e>> \notin todo' /\ scratch'[e][k] = inputs'[e]
             /\ e \in unsynced' /\ <<k, e>> \notin todo' /\ <<e, k, u>> \notin dma' =>
                  out'[e][u][k] = inputs'[e]
  <2>1. CASE e = d /\ k = l /\ u = t
    BY <2>1, <1>1, <1>3, <1>4
  <2>2. CASE e # d \/ k # l \/ u # t
    <3>1. /\ <<e, k, u>> \in dma' <=> <<e, k, u>> \in dma
          /\ out'[e][u][k] = out[e][u][k]
      BY <2>2, <1>1, <1>3
    <3> QED
      BY <3>1, <1>0, <1>4 DEF WorkerInv
  <2> QED
    BY <2>1, <2>2
<1>7. WorkerInv'
  BY <1>0, <1>4, <1>6 DEF WorkerInv
<1>8. ~Published(d)
  <2>1. \A u \in TP : done[d][u] = upto[d][inputs[d]] - 1 /\ upto[d][inputs[d]] \in Nat
    BY <1>0, <1>2, NatTypes DEF Asked
  <2> QED
    BY <2>1 DEF Published
<1>9. \A e \in DP : PublishInv(e)'
  <2> SUFFICES ASSUME NEW e \in DP PROVE PublishInv(e)'
    OBVIOUS
  <2>1. CASE e = d
    BY <2>1, <1>0, <1>4, <1>8 DEF PublishInv, Published
  <2>2. CASE e # d
    <3>1. \A u \in TP, k \in Layers : out'[e][u][k] = out[e][u][k]
      BY <2>2, <1>3
    <3> QED
      BY <3>1, <1>0, <1>4 DEF PublishInv, Published
  <2> QED
    BY <2>1, <2>2
<1>10. \A e \in DP, u \in TP : FlagInv(e, u)'
  <2> SUFFICES ASSUME NEW e \in DP, NEW u \in TP PROVE FlagInv(e, u)'
    OBVIOUS
  <2>1. CASE e = d
    BY <2>1, <1>0, <1>2, <1>4 DEF FlagInv
  <2>2. CASE e # d
    <3>1. \A x \in TP, k \in Layers : out'[e][x][k] = out[e][x][k]
      BY <2>2, <1>3
    <3> QED
      BY <3>1, <1>0, <1>4 DEF FlagInv
  <2> QED
    BY <2>1, <2>2
<1>11. \A e \in DP, u \in TP : DummyInv(e, u)'
  <2> SUFFICES ASSUME NEW e \in DP, NEW u \in TP PROVE DummyInv(e, u)'
    OBVIOUS
  <2>1. CASE e = d /\ u = t
    <3>1. st[d][t] = 0 \/ st[d][t] = NumLayers + 1
      BY <1>2, ServiceFindsBuffersFree
    <3>2. \A k \in Layers : ~(k >= NumLayers + 1)
      BY SizesAssumption DEF Layers
    <3> QED
      BY <2>1, <3>1, <3>2, <1>4 DEF DummyInv
  <2>2. CASE e # d \/ u # t
    BY <2>2, <1>0, <1>3, <1>4 DEF DummyInv, IsReal
  <2> QED
    BY <2>1, <2>2
<1> QED
  BY <1>4, <1>5, <1>7, <1>9, <1>10, <1>11
  DEF IInv, StageInv, Asked, ServiceInv, InService, Requests, HostInv,
      EnqueuedIsPublished, Consumed, GotInv, InStep, IsReal, Expected

LEMMA SynchronizeInv ==
  ASSUME IInv, NEW d \in DP, Synchronize(d)
  PROVE  IInv'
<1>0. /\ TypeOK /\ WorkerInv
      /\ \A e \in DP : Asked(e) /\ ServiceInv(e)
      /\ HostInv(d, 0)
  BY ZeroTP DEF IInv
<1>1. /\ d \in unsynced /\ todo = {} /\ flags = {} /\ Landed(d)
      /\ unsynced' = unsynced \ {d} /\ flags' = {d} \X Layers \X TP
  BY DEF Synchronize
<1>2. UNCHANGED <<upto, pc, hpos, seq, enq, fin, st, got, out, src, inputs, raw, done, net,
                  up, job, todo, scratch, dma>>
  BY DEF Synchronize, hostVars, gpuVars
<1>3. \A l \in Layers, t \in TP : <<d, l, t>> \notin dma /\ out[d][t][l] = inputs[d]
  BY <1>0, <1>1 DEF WorkerInv, Landed
<1>4. TypeOK'
  BY <1>0, <1>1, <1>2 DEF TypeOK
<1>5. WorkerInv'
  BY <1>0, <1>1, <1>2, <1>3 DEF WorkerInv
<1>6. /\ InService(d) /\ ~InService(d)' /\ pc[d][0] # "sending"
      /\ \A e \in DP : e # d => (InService(e)' <=> InService(e))
  BY <1>0, <1>1, <1>2 DEF InService, ServiceInv, Requests
<1>7. \A e \in DP : Asked(e)' /\ ServiceInv(e)'
  <2> SUFFICES ASSUME NEW e \in DP PROVE Asked(e)' /\ ServiceInv(e)'
    OBVIOUS
  <2>1. CASE e = d
    BY <2>1, <1>0, <1>1, <1>2, <1>6 DEF Asked, ServiceInv
  <2>2. CASE e # d
    BY <2>2, <1>0, <1>1, <1>2, <1>6 DEF Asked, ServiceInv, Requests
  <2> QED
    BY <2>1, <2>2
<1>8. \A e \in DP, u \in TP : FlagInv(e, u)'
  <2> SUFFICES ASSUME NEW e \in DP, NEW u \in TP PROVE FlagInv(e, u)'
    OBVIOUS
  <2>1. CASE e = d
    <3>1. job[d] = upto[d][inputs[d]] /\ inputs[d] >= 1 /\ done[d][u] = job[d] - 1
      BY <1>0, <1>1, <1>6 DEF ServiceInv, HostInv, Asked
    <3> QED
      BY <2>1, <3>1, <1>1, <1>2, <1>3 DEF FlagInv
  <2>2. CASE e # d
    BY <2>2, <1>1 DEF FlagInv
  <2> QED
    BY <2>1, <2>2
<1> QED
  BY <1>2, <1>4, <1>5, <1>7, <1>8
  DEF IInv, StageInv, PublishInv, Published, HostInv,
      EnqueuedIsPublished, Consumed, DummyInv, GotInv, InStep, IsReal, Expected

LEMMA WriteFlagInv ==
  ASSUME IInv, NEW d \in DP, NEW l \in Layers, NEW t \in TP, WriteFlag(d, l, t)
  PROVE  IInv'
<1>0. /\ TypeOK
      /\ \A e \in DP : Asked(e) /\ PublishInv(e)
      /\ \A e \in DP, u \in TP : FlagInv(e, u) /\ EnqueuedIsPublished(e, u)
  BY DEF IInv
<1>1. <<d, l, t>> \in flags /\ flags' = flags \ {<<d, l, t>>}
  BY DEF WriteFlag
<1>2. /\ done' \in [DP -> [TP -> Steps]] /\ done'[d][t] = job[d]
      /\ \A e \in DP, u \in TP : e # d \/ u # t => done'[e][u] = done[e][u]
  BY <1>0, UpdateRank DEF WriteFlag, TypeOK
<1>3. UNCHANGED <<upto, pc, hpos, seq, enq, fin, st, got, out, src, inputs, raw, net,
                  up, job, todo, scratch, dma, unsynced>>
  BY DEF WriteFlag, hostVars, gpuVars
<1>4. TypeOK'
  BY <1>0, <1>1, <1>2, <1>3 DEF TypeOK
<1>5. /\ upto[d][inputs[d]] \in Nat /\ job[d] \in Nat
      /\ \A u \in TP : done[d][u] \in Nat /\ upto[d][enq[d][u]] \in Nat
  BY <1>0, NatTypes
<1>6. \/ job[d] = done[d][t]
      \/ /\ job[d] = upto[d][inputs[d]] /\ job[d] = done[d][t] + 1 /\ inputs[d] >= 1
         /\ \A u \in TP, k \in Layers : fin[d][u] < inputs[d] => out[d][u][k] = inputs[d]
         /\ ~(pc[d][0] = "sending" \/ InService(d))
  BY <1>0, <1>1, <1>5 DEF FlagInv, Asked
<1>7. \A e \in DP, u \in TP : EnqueuedIsPublished(e, u)' /\ FlagInv(e, u)'
  <2> SUFFICES ASSUME NEW e \in DP, NEW u \in TP
               PROVE  EnqueuedIsPublished(e, u)' /\ FlagInv(e, u)'
    OBVIOUS
  <2>1. CASE e = d /\ u = t
    <3>1. d \notin unsynced /\ upto[d][enq[d][t]] <= done[d][t]
      BY <1>0, <1>1 DEF FlagInv, EnqueuedIsPublished
    <3> QED
      BY <2>1, <3>1, <1>2, <1>3, <1>5, <1>6 DEF FlagInv, EnqueuedIsPublished
  <2>2. CASE e # d \/ u # t
    BY <2>2, <1>0, <1>1, <1>2, <1>3 DEF FlagInv, EnqueuedIsPublished
  <2> QED
    BY <2>1, <2>2
<1>8. \A e \in DP : Asked(e)' /\ PublishInv(e)'
  <2> SUFFICES ASSUME NEW e \in DP PROVE Asked(e)' /\ PublishInv(e)'
    OBVIOUS
  <2>1. CASE e # d \/ job[d] = done[d][t]
    <3>1. \A u \in TP : done'[e][u] = done[e][u]
      BY <2>1, <1>2
    <3>2. Asked(e)'
      BY <3>1, <1>0, <1>1, <1>3 DEF Asked, InService, Requests
    <3>3. PublishInv(e)'
      BY <3>1, <1>0, <1>3 DEF PublishInv, Published
    <3> QED
      BY <3>2, <3>3
  <2>2. CASE e = d /\ job[d] # done[d][t]
    <3>1. Asked(d)'
      BY <2>2, <1>3, <1>6 DEF Asked, InService, Requests
    <3>2. \A u \in TP : done'[d][u] <= upto[d][inputs[d]]
      <4> SUFFICES ASSUME NEW u \in TP PROVE done'[d][u] <= upto[d][inputs[d]]
        OBVIOUS
      <4>1. CASE u = t
        BY <4>1, <2>2, <1>2, <1>5, <1>6
      <4>2. CASE u # t
        BY <4>2, <1>0, <1>2 DEF PublishInv
      <4> QED
        BY <4>1, <4>2
    <3>3. PublishInv(d)'
      BY <2>2, <3>2, <1>3, <1>6 DEF PublishInv
    <3> QED
      BY <2>2, <3>1, <3>3
  <2> QED
    BY <2>1, <2>2
<1> QED
  BY <1>3, <1>4, <1>7, <1>8
  DEF IInv, WorkerInv, StageInv, ServiceInv, InService, Requests, HostInv,
      Consumed, DummyInv, GotInv, InStep, IsReal, Expected

LEMMA StopInv ==
  ASSUME IInv, Stop
  PROVE  IInv'
<1>0. TypeOK /\ \A e \in DP : Asked(e) /\ ServiceInv(e)
  BY DEF IInv
<1>1. up' = FALSE /\ todo' = {} /\ dma' = {} /\ unsynced' = {} /\ flags' = {}
  BY DEF Stop
<1>2. UNCHANGED <<upto, pc, hpos, seq, enq, fin, st, got, out, src, inputs, raw, done, net,
                  job, scratch>>
  BY DEF Stop, hostVars, gpuVars
<1>3. TypeOK'
  BY <1>0, <1>1, <1>2 DEF TypeOK
<1>4. WorkerInv' /\ \A e \in DP, u \in TP : FlagInv(e, u)'
  BY <1>1 DEF WorkerInv, FlagInv
<1>5. \A e \in DP : InService(e)' => InService(e)
  BY <1>1, <1>2 DEF InService, Requests
<1>6. \A e \in DP : Asked(e)' /\ ServiceInv(e)'
  BY <1>0, <1>1, <1>2, <1>5 DEF Asked, ServiceInv
<1> QED
  BY <1>2, <1>3, <1>4, <1>6
  DEF IInv, StageInv, PublishInv, Published, HostInv,
      EnqueuedIsPublished, Consumed, DummyInv, GotInv, InStep, IsReal, Expected

-----------------------------------------------------------------------------
(* The invariant. *)

LEMMA InitType == Init => TypeOK
BY SizesAssumption
DEF Init, LocalInit, TypeOK, Unread, TP, Layers, Steps, Junk, Zeros, Values

LEMMA InitInv == Init => IInv
<1> SUFFICES ASSUME Init PROVE IInv
  OBVIOUS
<1>1. TypeOK
  BY InitType
<1>2. \A e \in DP : upto[e][0] = 0
  BY <1>1, UptoRange
<1>3. /\ \A e \in DP : inputs[e] = 0 /\ ~raw[e] /\ job[e] = 0
      /\ \A e \in DP, u \in TP :
           /\ pc[e][u] = "idle" /\ hpos[e][u] = 0 /\ seq[e][u] = 0 /\ enq[e][u] = 0
           /\ fin[e][u] = 0 /\ st[e][u] = 0 /\ done[e][u] = 0
      /\ net = {} /\ todo = {} /\ dma = {} /\ unsynced = {} /\ flags = {}
  BY DEF Init, LocalInit
<1>4. \A e \in DP : ~InService(e)
  BY <1>3 DEF InService, Requests
<1>5. WorkerInv
  BY <1>3 DEF WorkerInv
<1>6. \A e \in DP : StageInv(e) /\ Asked(e) /\ ServiceInv(e) /\ PublishInv(e)
  <2> SUFFICES ASSUME NEW e \in DP
               PROVE  StageInv(e) /\ Asked(e) /\ ServiceInv(e) /\ PublishInv(e)
    OBVIOUS
  <2>1. StageInv(e)
    BY <1>3, ZeroTP DEF StageInv
  <2>2. Asked(e) /\ ServiceInv(e)
    BY <1>3, <1>4, ZeroTP DEF Asked, ServiceInv
  <2>3. PublishInv(e)
    BY <1>2, <1>3 DEF PublishInv
  <2> QED
    BY <2>1, <2>2, <2>3
<1>7. \A e \in DP, u \in TP :
        /\ HostInv(e, u) /\ EnqueuedIsPublished(e, u) /\ Consumed(e, u)
        /\ \A x \in TP : InStep(e, u, x)
  BY <1>2, <1>3 DEF HostInv, EnqueuedIsPublished, Consumed, InStep
<1>8. \A e \in DP, u \in TP : FlagInv(e, u) /\ DummyInv(e, u) /\ GotInv(e, u)
  <2>1. \A l \in Layers : ~(l < 0)
    BY DEF Layers
  <2> QED
    BY <2>1, <1>3 DEF FlagInv, DummyInv, GotInv
<1> QED
  BY <1>1, <1>5, <1>6, <1>7, <1>8 DEF IInv

LEMMA StutterInv == IInv /\ UNCHANGED vars => IInv'
<1> SUFFICES ASSUME IInv, UNCHANGED vars PROVE IInv'
  OBVIOUS
<1>1. UNCHANGED <<upto, pc, hpos, seq, enq, fin, st, got, out, src, inputs, raw, done, net,
                  up, job, todo, scratch, dma, unsynced, flags>>
  BY DEF vars, hostVars, gpuVars, workerVars
<1>2. TypeOK' /\ WorkerInv'
  BY <1>1 DEF IInv, TypeOK, WorkerInv
<1>3. \A e \in DP : StageInv(e)' /\ Asked(e)' /\ ServiceInv(e)' /\ PublishInv(e)'
  BY <1>1 DEF IInv, StageInv, Asked, ServiceInv, PublishInv, InService, Requests, Published, IsReal
<1>4. \A e \in DP, u \in TP :
        /\ HostInv(e, u)' /\ EnqueuedIsPublished(e, u)' /\ Consumed(e, u)'
        /\ \A x \in TP : InStep(e, u, x)'
  BY <1>1 DEF IInv, HostInv, EnqueuedIsPublished, Consumed, InStep, IsReal
<1>5. \A e \in DP, u \in TP : FlagInv(e, u)' /\ DummyInv(e, u)' /\ GotInv(e, u)'
  BY <1>1 DEF IInv, FlagInv, DummyInv, GotInv, IsReal, Expected
<1> QED
  BY <1>2, <1>3, <1>4, <1>5 DEF IInv

LEMMA NextInv == IInv /\ [Next]_vars => IInv'
<1> SUFFICES ASSUME IInv, [Next]_vars PROVE IInv'
  OBVIOUS
<1>1. ASSUME NEW d \in DP, NEW t \in TP, HostStep(d, t) PROVE IInv'
  BY <1>1, LaunchInv, LaunchDummyInv, StageStepInv, SendInv, ResumeInv, TimeoutInv DEF HostStep
<1>2. ASSUME NEW d \in DP, NEW t \in TP, GpuStep(d, t) PROVE IInv'
  BY <1>2, ProduceInputsInv, BeginForwardInv, ReadLayerInv, FinishForwardInv DEF GpuStep
<1>3. CASE WorkerStep
  BY <1>3, TakeBatchInv, ComputeInv, CopyLandsInv, SynchronizeInv, WriteFlagInv DEF WorkerStep
<1>4. CASE Stop
  BY <1>4, StopInv
<1>5. CASE UNCHANGED vars
  BY <1>5, StutterInv
<1> QED
  BY <1>1, <1>2, <1>3, <1>4, <1>5 DEF Next, Finished

(***************************************************************************)
(* The inductive invariant holds in every reachable state of the handshake *)
(* of prepare_forward, _request_loop and _handle_requests.                 *)
(***************************************************************************)
THEOREM Inductive == Spec => []IInv
<1> QED
  BY InitInv, NextInv, PTL DEF Spec

(***************************************************************************)
(* Type correctness of the model threads, streams, shared memory, sockets  *)
(* and offload process.                                                    *)
(***************************************************************************)
THEOREM TypeCorrect == Spec => []TypeOK
<1>1. IInv => TypeOK
  BY DEF IInv
<1> QED
  BY <1>1, Inductive, PTL

(***************************************************************************)
(* Whatever the schedule of real and dummy forwards, the number of ranks   *)
(* and layers and the interleaving, PleOffloadLayer.forward returns to     *)
(* every forward the embeddings of its own tokens; also after the offload  *)
(* process stopped or a worker timed out.                                  *)
(***************************************************************************)
THEOREM EmbeddingsAreOwn == Spec => []OwnEmbeddings
<1>1. IInv => OwnEmbeddings
  BY DEF IInv, GotInv, OwnEmbeddings
<1> QED
  BY <1>1, Inductive, PTL

(***************************************************************************)
(* _handle_requests never starts a copy into an output buffer that an      *)
(* enqueued forward has still to read.                                     *)
(***************************************************************************)
THEOREM CopiesAreSafe == Spec => []CopiesFindBufferFree
<1>1. ASSUME IInv PROVE CopiesFindBufferFree
  <2> SUFFICES ASSUME NEW d \in DP, NEW l \in Layers, NEW t \in TP, <<d, l, t>> \in dma
               PROVE  \/ enq[d][t] = fin[d][t]
                      \/ enq[d][t] = fin[d][t] + 1 /\ l < st[d][t]
    <3>1. \A c \in dma : \E d \in DP, l \in Layers, t \in TP : c = <<d, l, t>>
      BY <1>1 DEF IInv, TypeOK
    <3> QED
      BY <3>1 DEF CopiesFindBufferFree
  <2>1. InService(d)
    BY <1>1 DEF IInv, WorkerInv, InService
  <2>2. l < NumLayers + 1
    BY SizesAssumption DEF Layers
  <2> QED
    BY <1>1, <2>1, <2>2, ServiceFindsBuffersFree
<1> QED
  BY <1>1, Inductive, PTL

(***************************************************************************)
(* "One pending request is sufficient": a rank's request is never found    *)
(* with another one of the same rank, so none is dropped as a duplicate.   *)
(***************************************************************************)
THEOREM RequestsAreSingle == Spec => []OneRequestPerRank
<1>1. ASSUME IInv PROVE OneRequestPerRank
  <2> SUFFICES ASSUME NEW d \in DP
               PROVE  /\ \A r, o \in Requests(d) : r = o
                      /\ d \in unsynced => Requests(d) = {} /\ job[d] = seq[d][0]
                      /\ \A r \in Requests(d) : r.seq = seq[d][0]
    BY DEF OneRequestPerRank
  <2>1. ServiceInv(d)
    BY <1>1 DEF IInv
  <2>2. \A r \in Requests(d) : r = [dp |-> d, seq |-> seq[d][0]]
    <3>1. \A r \in Requests(d) : r \in [dp : DP, seq : Steps] /\ r.dp = d
      BY <1>1 DEF IInv, TypeOK, Requests
    <3>2. \A r \in Requests(d) : r.seq = seq[d][0]
      BY <2>1 DEF ServiceInv, Requests
    <3> QED
      BY <3>1, <3>2
  <2> QED
    BY <2>1, <2>2 DEF ServiceInv
<1> QED
  BY <1>1, Inductive, PTL

(***************************************************************************)
(* The shared input buffers hold the batch of the request being served.    *)
(***************************************************************************)
THEOREM InputsAreStable == Spec => []InputsOfRequest
<1>1. IInv => InputsOfRequest
  BY DEF IInv, Asked, InService, InputsOfRequest
<1> QED
  BY <1>1, Inductive, PTL

(***************************************************************************)
(* A done flag that answers the batch TP rank 0 waits for is written only  *)
(* after every layer's copy has landed on every TP rank.                   *)
(***************************************************************************)
THEOREM FlagsAreLate == Spec => []FlagMeansAllLanded
<1>1. ASSUME IInv PROVE FlagMeansAllLanded
  <2> SUFFICES ASSUME NEW d \in DP, pc[d][0] = "waiting",
                      NEW u \in TP, done[d][u] >= seq[d][0],
                      NEW t \in TP, NEW l \in Layers
               PROVE  out[d][t][l] = hpos[d][0]
    BY DEF FlagMeansAllLanded
  <2>1. /\ TypeOK /\ StageInv(d) /\ PublishInv(d) /\ HostInv(d, 0) /\ EnqueuedIsPublished(d, t)
        /\ InStep(d, t, 0) /\ HostInv(d, t)
    BY <1>1, ZeroTP DEF IInv
  <2>2. inputs[d] = hpos[d][0] /\ inputs[d] >= 1 /\ seq[d][0] = upto[d][inputs[d]]
    BY <2>1 DEF StageInv, HostInv
  <2>3. Published(d)
    <3>1. done[d][u] <= upto[d][inputs[d]] /\ done[d][u] \in Nat /\ upto[d][inputs[d]] \in Nat
      BY <2>1, NatTypes DEF PublishInv
    <3> QED
      BY <2>2, <3>1 DEF Published
  <2>4. fin[d][t] < inputs[d]
    <3>1. /\ fin[d][0] \in Nat /\ fin[d][t] \in Nat /\ enq[d][0] \in Nat /\ inputs[d] \in Nat
          /\ NumLayers \in Nat
      BY <2>1, NatTypes, ZeroTP
    <3>2. enq[d][0] = inputs[d] - 1 /\ fin[d][0] <= enq[d][0]
      BY <2>1, <2>2 DEF HostInv
    <3>3. st[d][0] = NumLayers + 1 => fin[d][0] < enq[d][0]
      BY <2>1, <3>1 DEF HostInv
    <3> QED
      BY <2>1, <3>1, <3>2, <3>3 DEF InStep
  <2> QED
    BY <2>1, <2>2, <2>3, <2>4 DEF PublishInv
<1> QED
  BY <1>1, Inductive, PTL

(***************************************************************************)
(* A done flag is written only forwards, and one batch at a time.          *)
(***************************************************************************)
THEOREM FlagsAreMonotone == Spec => FlagsCountUp
<1> DEFINE A == \A d \in DP, t \in TP : done'[d][t] - done[d][t] \in {0, 1}
<1>1. ASSUME IInv, [Next]_vars PROVE [A]_done
  <2>0. TypeOK
    BY <1>1 DEF IInv
  <2>1. ASSUME NEW d \in DP, NEW l \in Layers, NEW t \in TP, WriteFlag(d, l, t)
        PROVE  A
    <3>1. /\ done'[d][t] = job[d]
          /\ \A e \in DP, u \in TP : e # d \/ u # t => done'[e][u] = done[e][u]
      BY <2>0, <2>1, UpdateRank DEF WriteFlag, TypeOK
    <3>2. job[d] = done[d][t] \/ job[d] = done[d][t] + 1
      <4>1. <<d, l, t>> \in flags /\ FlagInv(d, t)
        BY <1>1, <2>1 DEF WriteFlag, IInv
      <4>2. done[d][t] \in Nat /\ job[d] \in Nat
        BY <2>0, NatTypes
      <4> QED
        BY <4>1, <4>2 DEF FlagInv
    <3>3. \A e \in DP, u \in TP : done[e][u] \in Nat
      BY <2>0, NatTypes
    <3> QED
      BY <3>1, <3>2, <3>3
  <2>2. (\E d \in DP, l \in Layers, t \in TP : WriteFlag(d, l, t)) \/ UNCHANGED done
    <3>1. ASSUME NEW d \in DP, NEW t \in TP, HostStep(d, t) PROVE UNCHANGED done
      BY <3>1 DEF HostStep, Launch, LaunchDummy, Stage, Send, Resume, Timeout
    <3>2. ASSUME NEW d \in DP, NEW t \in TP, GpuStep(d, t) PROVE UNCHANGED done
      BY <3>2 DEF GpuStep, ProduceInputs, BeginForward, ReadLayer, FinishForward
    <3>3. ASSUME WorkerStep
          PROVE  UNCHANGED done \/ \E d \in DP, l \in Layers, t \in TP : WriteFlag(d, l, t)
      BY <3>3 DEF WorkerStep, TakeBatch, Compute, CopyLands, Synchronize
    <3>4. Stop => UNCHANGED done
      BY DEF Stop
    <3>5. UNCHANGED vars => UNCHANGED done
      BY DEF vars
    <3> QED
      BY <1>1, <3>1, <3>2, <3>3, <3>4, <3>5 DEF Next, Finished
  <2> QED
    BY <2>1, <2>2
<1> QED
  BY <1>1, Inductive, PTL DEF Spec, FlagsCountUp

-----------------------------------------------------------------------------
(* Refinement. *)

(***************************************************************************)
(* The offloaded layer implements the local one: whatever the offload      *)
(* process does, a forward reads in every layer what PleOffloadLayer.      *)
(* forward would have computed in place.                                   *)
(***************************************************************************)
THEOREM Implementation == Spec => ImplementsLocal
<1>1. Init => LocalInit
  BY DEF Init
<1>2. ASSUME IInv, [Next]_vars PROVE [LocalNext]_localVars
  <2>0. TypeOK
    BY <1>2 DEF IInv
  <2>1. ASSUME NEW d \in DP, NEW t \in TP, BeginForward(d, t) PROVE LocalNext
    <3>1. fin[d][t] < MaxStep
      <4>1. fin[d][t] + 1 <= enq[d][t]
        BY <2>1 DEF BeginForward
      <4> QED
        BY <4>1, <2>0, NatTypes
    <3>2. LocalBegin(d, t)
      BY <2>1, <3>1 DEF BeginForward, LocalBegin
    <3> QED
      BY <3>2 DEF LocalNext
  <2>2. ASSUME NEW d \in DP, NEW t \in TP, ReadLayer(d, t) PROVE LocalNext
    <3>1. st[d][t] \in Layers /\ out[d][t][st[d][t]] = Expected(d, fin[d][t] + 1)
      BY <1>2, <2>2, ReadOwn DEF ReadLayer
    <3>2. LocalRead(d, t)
      BY <2>2, <3>1 DEF ReadLayer, LocalRead
    <3> QED
      BY <3>2 DEF LocalNext
  <2>3. ASSUME NEW d \in DP, NEW t \in TP, FinishForward(d, t) PROVE LocalNext
    BY <2>3 DEF FinishForward, LocalNext
  <2>4. \/ \E d \in DP, t \in TP : BeginForward(d, t) \/ ReadLayer(d, t) \/ FinishForward(d, t)
        \/ UNCHANGED localVars
    <3>1. ASSUME NEW d \in DP, NEW t \in TP, HostStep(d, t) PROVE UNCHANGED localVars
      BY <3>1
      DEF HostStep, Launch, LaunchDummy, Stage, Send, Resume, Timeout, gpuVars, localVars
    <3>2. ASSUME NEW d \in DP, NEW t \in TP, GpuStep(d, t)
          PROVE  \/ BeginForward(d, t) \/ ReadLayer(d, t) \/ FinishForward(d, t)
                 \/ UNCHANGED localVars
      BY <3>2 DEF GpuStep, ProduceInputs, gpuVars, localVars
    <3>3. WorkerStep => UNCHANGED localVars
      BY DEF WorkerStep, TakeBatch, Compute, CopyLands, Synchronize, WriteFlag, gpuVars, localVars
    <3>4. Stop => UNCHANGED localVars
      BY DEF Stop, gpuVars, localVars
    <3>5. UNCHANGED vars => UNCHANGED localVars
      BY DEF vars, gpuVars, localVars
    <3> QED
      BY <1>2, <3>1, <3>2, <3>3, <3>4, <3>5 DEF Next, Finished
  <2> QED
    BY <2>1, <2>2, <2>3, <2>4
<1> QED
  BY <1>1, <1>2, Inductive, PTL DEF Spec, ImplementsLocal, LocalSpec

=============================================================================
