------------------------------ MODULE PleLocal ------------------------------
(***************************************************************************)
(* What per-layer embedding (PLE) lookup promises to a forward pass.       *)
(*                                                                         *)
(* PleOffloadLayer.forward computes the embedding in place when the layer  *)
(* is not offloaded: every layer of forward p gets the rows of p's own     *)
(* tokens.  This module is that behaviour and nothing else: the forwards   *)
(* of one rank run one after the other, a forward reads its layers in      *)
(* order, and the tensor-parallel ranks of a data-parallel group leave a   *)
(* forward together.  PleOffload, where another process computes the       *)
(* embeddings, is shown to implement it.                                   *)
(***************************************************************************)
EXTENDS Integers

CONSTANTS
  DP,         \* data-parallel ranks served by one offload process
  TpSize,     \* tensor-parallel ranks of each data-parallel rank
  NumLayers,  \* PLE layers of the model, numbered in traversal order
  MaxStep     \* bound on the length of a rank's schedule

ASSUME SizesAssumption ==
  /\ TpSize \in Nat \ {0}
  /\ NumLayers \in Nat \ {0}
  /\ MaxStep \in Nat

TP     == 0 .. (TpSize - 1)
Layers == 1 .. NumLayers
Steps  == 0 .. MaxStep

Junk  == -1  \* memory nobody has written (torch.empty)
Zeros == 0   \* rows zeroed for a dummy or capture forward
Values == {Junk, Zeros} \cup 1 .. MaxStep  \* p > 0: the embeddings of step p

VARIABLES
  upto,  \* upto[d][p]: how many of d's first p scheduled steps are real
  fin,   \* fin[d][t]: the last forward that finished on rank (d, t)
  st,    \* st[d][t]: 0 before a forward starts, else the next layer to read
  got    \* got[d][t][l]: what layer l returned to the current forward

localVars == <<upto, fin, st, got>>

(***************************************************************************)
(* A schedule mixes real batches and dummy runs; upto counts the real      *)
(* ones, so it starts at 0 and grows by 0 or 1 with every step.            *)
(***************************************************************************)
Schedules ==
  {f \in [Steps -> Steps] :
     /\ f[0] = 0
     /\ \A a, b \in Steps : a <= b => f[a] <= f[b] /\ f[b] - f[a] <= b - a}

IsReal(d, p) == upto[d][p] # upto[d][p - 1]

Expected(d, p) == IF IsReal(d, p) THEN p ELSE Zeros

Unread == [l \in Layers |-> Junk]

LocalInit ==
  /\ upto \in [DP -> Schedules]
  /\ fin = [d \in DP |-> [t \in TP |-> 0]]
  /\ st  = [d \in DP |-> [t \in TP |-> 0]]
  /\ got = [d \in DP |-> [t \in TP |-> Unread]]

LocalBegin(d, t) ==
  /\ fin[d][t] < MaxStep
  /\ st[d][t] = 0
  /\ st'  = [st EXCEPT ![d][t] = 1]
  /\ got' = [got EXCEPT ![d][t] = Unread]
  /\ UNCHANGED <<upto, fin>>

LocalRead(d, t) ==
  LET l == st[d][t] IN
  /\ l \in Layers
  /\ got' = [got EXCEPT ![d][t][l] = Expected(d, fin[d][t] + 1)]
  /\ st'  = [st EXCEPT ![d][t] = l + 1]
  /\ UNCHANGED <<upto, fin>>

(***************************************************************************)
(* The collectives after the last PLE layer: a rank leaves forward p when  *)
(* every rank of its group has read all layers of p.                       *)
(***************************************************************************)
AllReadBy(d, p) ==
  \A u \in TP : fin[d][u] >= p \/ (fin[d][u] = p - 1 /\ st[d][u] = NumLayers + 1)

LocalFinish(d, t) ==
  /\ st[d][t] = NumLayers + 1
  /\ AllReadBy(d, fin[d][t] + 1)
  /\ fin' = [fin EXCEPT ![d][t] = @ + 1]
  /\ st'  = [st EXCEPT ![d][t] = 0]
  /\ UNCHANGED <<upto, got>>

LocalNext ==
  \E d \in DP, t \in TP : LocalBegin(d, t) \/ LocalRead(d, t) \/ LocalFinish(d, t)

LocalSpec == LocalInit /\ [][LocalNext]_localVars

=============================================================================
