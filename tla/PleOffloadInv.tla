---------------------------- MODULE PleOffloadInv ----------------------------
(***************************************************************************)
(* The inductive invariant of PleOffload: why a forward that starts when   *)
(* its flag is set finds its own embeddings, and finds them untouched.     *)
(*                                                                         *)
(* The argument turns on q == inputs[d], the step staged last.  While q is *)
(* in service, no rank's flag has reached it (Asked), hence no rank has    *)
(* enqueued the forward of q (EnqueuedIsPublished); and since TP rank 0    *)
(* staged q only after finishing step q - 1, and the collectives keep the  *)
(* ranks within one step, every rank has read all it will read of the      *)
(* steps before q (Consumed).  So the copies of q land in buffers nobody   *)
(* reads, and stay there until the forward of q has finished everywhere.   *)
(***************************************************************************)
EXTENDS PleOffload

(***************************************************************************)
(* The handshake is safe in two configurations: the request waits on the   *)
(* GPU stream for the previous forward (CUDA inputs), or the runner itself *)
(* has waited for it (CPU inputs, no run-ahead).                           *)
(***************************************************************************)
ASSUME HandshakeAssumption == CudaInputs \/ RunAhead = 0

InService(d) == Requests(d) # {} \/ d \in unsynced

Published(d) == \E t \in TP : done[d][t] = upto[d][inputs[d]]

HostInv(d, t) ==
  /\ seq[d][t] = upto[d][hpos[d][t]]
  /\ fin[d][t] <= enq[d][t]
  /\ st[d][t] >= 1 => fin[d][t] < enq[d][t]
  /\ pc[d][t] = "idle" => enq[d][t] = hpos[d][t]
  /\ pc[d][t] # "idle" =>
       enq[d][t] = hpos[d][t] - 1 /\ hpos[d][t] >= 1 /\ IsReal(d, hpos[d][t])
  /\ t # 0 => pc[d][t] \notin {"staging", "sending"}

EnqueuedIsPublished(d, t) == upto[d][enq[d][t]] <= done[d][t]

(* The collectives: no rank is ahead of another one that still reads. *)
InStep(d, t, u) ==
  fin[d][t] <= fin[d][u] \/ (fin[d][t] = fin[d][u] + 1 /\ st[d][u] = NumLayers + 1)

StageInv(d) ==
  /\ inputs[d] <= hpos[d][0]
  /\ inputs[d] >= 1 => IsReal(d, inputs[d])
  /\ pc[d][0] = "staging" => inputs[d] < hpos[d][0]
  /\ pc[d][0] = "staging" /\ ~CudaInputs => src[d] = hpos[d][0] /\ fin[d][0] = hpos[d][0] - 1
  /\ pc[d][0] \in {"sending", "waiting", "failed"} => inputs[d] = hpos[d][0]
  /\ raw[d] => Speculative

Consumed(d, t) ==
  \/ fin[d][t] >= inputs[d] - 1
  \/ fin[d][t] = inputs[d] - 2 /\ st[d][t] = NumLayers + 1

Asked(d) ==
  pc[d][0] = "sending" \/ InService(d) =>
    /\ inputs[d] = hpos[d][0]
    /\ inputs[d] >= 1
    /\ \A t \in TP : done[d][t] = upto[d][inputs[d]] - 1
    /\ \A l \in Layers, t \in TP : <<d, l, t>> \in flags => done[d][t] = job[d]

ServiceInv(d) ==
  /\ InService(d) => pc[d][0] \in {"waiting", "failed"}
  /\ \A r \in net : r.dp = d => r.seq = seq[d][0]
  /\ d \in unsynced => Requests(d) = {} /\ job[d] = seq[d][0] /\ ~raw[d]

WorkerInv ==
  /\ todo \subseteq Layers \X unsynced
  /\ \A d \in DP, l \in Layers, t \in TP :
       /\ <<d, l, t>> \in dma =>
            d \in unsynced /\ <<l, d>> \notin todo /\ scratch[d][l] = inputs[d]
       /\ d \in unsynced /\ <<l, d>> \notin todo /\ <<d, l, t>> \notin dma =>
            out[d][t][l] = inputs[d]

PublishInv(d) ==
  /\ \A t \in TP : done[d][t] <= upto[d][inputs[d]]
  /\ inputs[d] >= 1 /\ Published(d) =>
       \A t \in TP, l \in Layers : fin[d][t] < inputs[d] => out[d][t][l] = inputs[d]

FlagInv(d, t) ==
  (\E l \in Layers : <<d, l, t>> \in flags) =>
    /\ d \notin unsynced
    /\ \/ done[d][t] = job[d]
       \/ /\ job[d] = upto[d][inputs[d]]
          /\ done[d][t] = job[d] - 1
          /\ inputs[d] >= 1
          /\ \A u \in TP, l \in Layers : fin[d][u] < inputs[d] => out[d][u][l] = inputs[d]

DummyInv(d, t) ==
  st[d][t] >= 1 /\ ~IsReal(d, fin[d][t] + 1) =>
    \A l \in Layers : l >= st[d][t] => out[d][t][l] = Zeros

GotInv(d, t) ==
  \A l \in Layers : l < st[d][t] => got[d][t][l] = Expected(d, fin[d][t] + 1)

IInv ==
  /\ TypeOK
  /\ WorkerInv
  /\ \A d \in DP :
       /\ StageInv(d) /\ Asked(d) /\ ServiceInv(d) /\ PublishInv(d)
       /\ \A t \in TP :
            /\ HostInv(d, t) /\ EnqueuedIsPublished(d, t) /\ Consumed(d, t)
            /\ FlagInv(d, t) /\ DummyInv(d, t) /\ GotInv(d, t)
            /\ \A u \in TP : InStep(d, t, u)

=============================================================================
