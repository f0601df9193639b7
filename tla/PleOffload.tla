----------------------------- MODULE PleOffload -----------------------------
(***************************************************************************)
(* The PLE CPU-offload handshake of patches/ple_offload.                   *)
(*                                                                         *)
(* Every GPU worker (d, t) owns one output buffer per PLE layer and a      *)
(* done flag in shared memory.  For a real batch the model thread of TP    *)
(* rank 0 stages the batch inputs in its group's shared buffers, sends a   *)
(* request with a sequence number, and every rank of the group spins on    *)
(* its own flag.  The offload process drains its socket into a batch,      *)
(* computes layer by layer into pinned scratch buffers, starts the copies  *)
(* to the GPU buffers, waits for them and writes the sequence number in    *)
(* the flags.  A dummy run sends nothing: it zeroes the output buffers on  *)
(* its own stream.  The host enqueues a forward and may run ahead of it.   *)
(*                                                                         *)
(* Contents are identified by the schedule step that produced them.        *)
(* The schedule (upto) and what a forward does with the results (fin, st,  *)
(* got) are the variables of PleLocal, which this module implements.       *)
(***************************************************************************)
EXTENDS PleLocal

CONSTANTS
  CudaInputs,   \* the runner's input tensors are on the GPU (MRV2)
  Speculative,  \* a speculative_config: staged ids may hold placeholders
  RunAhead,     \* unfinished forwards the runner tolerates when it begins one
  Faults        \* subset of {"stop", "timeout"}: what may go wrong

ASSUME OffloadAssumption ==
  /\ CudaInputs \in BOOLEAN
  /\ Speculative \in BOOLEAN
  /\ RunAhead \in Nat
  /\ Faults \subseteq {"stop", "timeout"}

VARIABLES
  (* model thread of a GPU worker *)
  pc,       \* "idle", "staging", "sending", "waiting" or "failed"
  hpos,     \* last schedule step the model thread has begun
  seq,      \* PleOffloadConnector._seq
  enq,      \* last step whose forward is enqueued on the GPU stream
  out,      \* _gpu_output_buffer of every layer
  (* shared memory of a data-parallel rank *)
  src,      \* the runner's input tensors
  inputs,   \* _input_ids_buf, _query_start_loc_buf, _ngram_context_buf
  raw,      \* the staged ids still hold speculative placeholders
  done,     \* _done_flag
  (* requests in the PUSH/PULL sockets *)
  net,
  (* the offload process *)
  up,       \* its busy loop is running
  job,      \* requests_by_dp: the sequence number being served, 0 if none
  todo,     \* <<l, d>>: layers still to be computed in this batch
  scratch,  \* _pinned_bufs
  dma,      \* <<d, l, t>>: copies started on a copy stream, not landed
  unsynced, \* ranks of the batch whose copy streams are not yet synchronized
  flags     \* <<d, l, t>>: flag writes still to be made for the batch

hostVars   == <<pc, hpos, seq, enq>>
gpuVars    == <<fin, st, got>>
workerVars == <<up, job, todo, scratch, dma, unsynced, flags>>
vars == <<upto, hostVars, gpuVars, out, src, inputs, raw, done, net, workerVars>>

-----------------------------------------------------------------------------

Init ==
  /\ LocalInit
  /\ pc   = [d \in DP |-> [t \in TP |-> "idle"]]
  /\ hpos = [d \in DP |-> [t \in TP |-> 0]]
  /\ seq  = [d \in DP |-> [t \in TP |-> 0]]
  /\ enq  = [d \in DP |-> [t \in TP |-> 0]]
  /\ out  = [d \in DP |-> [t \in TP |-> [l \in Layers |-> Junk]]]
  /\ src    = [d \in DP |-> 0]
  /\ inputs = [d \in DP |-> 0]
  /\ raw    = [d \in DP |-> FALSE]
  /\ done = [d \in DP |-> [t \in TP |-> 0]]
  /\ net  = {}
  /\ up   = TRUE
  /\ job  = [d \in DP |-> 0]
  /\ todo = {}
  /\ scratch = [d \in DP |-> [l \in Layers |-> Junk]]
  /\ dma = {}
  /\ unsynced = {}
  /\ flags = {}

-----------------------------------------------------------------------------
(* The model thread of GPU worker (d, t): the runner and the connector.    *)

(***************************************************************************)
(* The runner takes the next step of its schedule when no more than        *)
(* RunAhead of its forwards are unfinished.                                *)
(***************************************************************************)
MayBegin(d, t) ==
  /\ pc[d][t] = "idle"
  /\ hpos[d][t] < MaxStep
  /\ enq[d][t] - fin[d][t] <= RunAhead

(***************************************************************************)
(* prepare_forward(dummy_run=False), up to the staging: every rank counts  *)
(* the batch, only TP rank 0 has inputs to send.  A runner with CPU inputs *)
(* has written its mirrors by now; with CUDA inputs the writes are work    *)
(* on the stream (ProduceInputs).                                          *)
(***************************************************************************)
Launch(d, t) ==
  LET p == hpos[d][t] + 1 IN
  /\ MayBegin(d, t)
  /\ IsReal(d, p)
  /\ hpos' = [hpos EXCEPT ![d][t] = p]
  /\ seq'  = [seq EXCEPT ![d][t] = @ + 1]
  /\ pc'   = [pc EXCEPT ![d][t] = IF t = 0 THEN "staging" ELSE "waiting"]
  /\ src'  = IF t = 0 /\ ~CudaInputs THEN [src EXCEPT ![d] = p] ELSE src
  /\ UNCHANGED <<upto, enq, gpuVars, out, inputs, raw, done, net, workerVars>>

(* Mutant: a dummy run counts as a batch of the sequence. *)
LaunchDummyCounted(d, t) ==
  LET p == hpos[d][t] + 1 IN
  /\ MayBegin(d, t)
  /\ ~IsReal(d, p)
  /\ hpos' = [hpos EXCEPT ![d][t] = p]
  /\ enq'  = [enq EXCEPT ![d][t] = p]
  /\ seq'  = [seq EXCEPT ![d][t] = @ + 1]
  /\ UNCHANGED <<upto, pc, gpuVars, out, src, inputs, raw, done, net, workerVars>>

(***************************************************************************)
(* prepare_forward(dummy_run=True): no request and no sequence number; the *)
(* zeroing and the forward are enqueued at once.                           *)
(***************************************************************************)
LaunchDummy(d, t) ==
  LET p == hpos[d][t] + 1 IN
  /\ MayBegin(d, t)
  /\ ~IsReal(d, p)
  /\ hpos' = [hpos EXCEPT ![d][t] = p]
  /\ enq'  = [enq EXCEPT ![d][t] = p]
  /\ UNCHANGED <<upto, pc, seq, gpuVars, out, src, inputs, raw, done, net, workerVars>>

(* Mutant: the staging does not wait for the event. *)
InputReadyUnawaited(d) == TRUE

(***************************************************************************)
(* The input_ready event, recorded on the model stream after everything    *)
(* enqueued so far: the previous forwards and this step's input writes.    *)
(***************************************************************************)
InputReady(d) ==
  CudaInputs => fin[d][0] = hpos[d][0] - 1 /\ src[d] = hpos[d][0]

(* _copy_cuda_inputs (waits for the event) or _copy_cpu_inputs (does not). *)
Stage(d) ==
  /\ pc[d][0] = "staging"
  /\ InputReady(d)
  /\ inputs' = [inputs EXCEPT ![d] = src[d]]
  /\ raw'    = [raw EXCEPT ![d] = Speculative]
  /\ pc'     = [pc EXCEPT ![d][0] = "sending"]
  /\ UNCHANGED <<upto, hpos, seq, enq, gpuVars, out, src, done, net, workerVars>>

(* The end of _process_request: the request goes out once it is staged.    *)
Send(d) ==
  /\ pc[d][0] = "sending"
  /\ net' = net \cup {[dp |-> d, seq |-> seq[d][0]]}
  /\ pc'  = [pc EXCEPT ![d][0] = "waiting"]
  /\ UNCHANGED <<upto, hpos, seq, enq, gpuVars, out, src, inputs, raw, done, workerVars>>

(* Mutant: the flag of the previous batch is taken for this one's. *)
AnsweredBefore(d, t) == done[d][t] >= seq[d][t] - 1

(* The condition _wait_done spins on. *)
Answered(d, t) == done[d][t] >= seq[d][t]

(* _wait_done returns and the runner enqueues the forward.                 *)
Resume(d, t) ==
  /\ pc[d][t] = "waiting"
  /\ Answered(d, t)
  /\ enq' = [enq EXCEPT ![d][t] = hpos[d][t]]
  /\ pc'  = [pc EXCEPT ![d][t] = "idle"]
  /\ UNCHANGED <<upto, hpos, seq, gpuVars, out, src, inputs, raw, done, net, workerVars>>

(* Mutant: the request is sent again instead. *)
TimeoutRetried(d, t) ==
  /\ "timeout" \in Faults
  /\ pc[d][t] = "waiting"
  /\ pc' = [pc EXCEPT ![d][t] = IF t = 0 THEN "sending" ELSE "failed"]
  /\ UNCHANGED <<upto, hpos, seq, enq, gpuVars, out, src, inputs, raw, done, net, workerVars>>

(***************************************************************************)
(* _wait_done finds its deadline passed and raises, which ends the worker. *)
(* The flag is not read again after the sleep that precedes the test, so   *)
(* an answer that arrived during it does not save the worker.              *)
(***************************************************************************)
Timeout(d, t) ==
  /\ "timeout" \in Faults
  /\ pc[d][t] = "waiting"
  /\ pc' = [pc EXCEPT ![d][t] = "failed"]
  /\ UNCHANGED <<upto, hpos, seq, enq, gpuVars, out, src, inputs, raw, done, net, workerVars>>

-----------------------------------------------------------------------------
(* The GPU stream of worker (d, t), in the order the work was enqueued.    *)

(* The runner's input kernels for the step TP rank 0 has begun.            *)
ProduceInputs(d) ==
  LET p == fin[d][0] + 1 IN
  /\ CudaInputs
  /\ st[d][0] = 0
  /\ p <= hpos[d][0]
  /\ src[d] # p
  /\ src' = [src EXCEPT ![d] = p]
  /\ UNCHANGED <<upto, hostVars, gpuVars, out, inputs, raw, done, net, workerVars>>

(* A forward starts; signal_dummy_outputs' zeroing precedes a dummy one.   *)
BeginForward(d, t) ==
  LET p == fin[d][t] + 1 IN
  /\ p <= enq[d][t]
  /\ st[d][t] = 0
  /\ CudaInputs /\ t = 0 => src[d] = p
  /\ st'  = [st EXCEPT ![d][t] = 1]
  /\ got' = [got EXCEPT ![d][t] = Unread]
  /\ out' = IF IsReal(d, p) THEN out
            ELSE [out EXCEPT ![d][t] = [l \in Layers |-> Zeros]]
  /\ UNCHANGED <<upto, hostVars, fin, src, inputs, raw, done, net, workerVars>>

(* PleOffloadLayer.forward: whatever the output buffer holds.              *)
ReadLayer(d, t) ==
  LET l == st[d][t] IN
  /\ l \in Layers
  /\ got' = [got EXCEPT ![d][t][l] = out[d][t][l]]
  /\ st'  = [st EXCEPT ![d][t] = l + 1]
  /\ UNCHANGED <<upto, hostVars, fin, out, src, inputs, raw, done, net, workerVars>>

(* The forward's last collective: the group's ranks leave it together.     *)
FinishForward(d, t) ==
  /\ LocalFinish(d, t)
  /\ UNCHANGED <<hostVars, out, src, inputs, raw, done, net, workerVars>>

-----------------------------------------------------------------------------
(* The offload process.                                                    *)

Requests(d) == {r \in net : r.dp = d}

(* A queue's older messages are received first. *)
ReceivableTogether(B) ==
  \A r \in B, o \in net : o.dp = r.dp /\ o.seq < r.seq => o \in B

(* Mutant: the placeholders are left in. *)
ClampNothing(served) == raw

(* _handle_requests clamps the staged ids of every rank it serves. *)
Clamp(served) == [d \in DP |-> raw[d] /\ ~(Speculative /\ d \in served)]

(***************************************************************************)
(* busy_loop drains some of the messages that have arrived, and            *)
(* _handle_requests keeps the first request of every data-parallel rank;   *)
(* a later one in the same batch is dropped.  The placeholders in the      *)
(* shared buffers are clamped once, before any layer runs.                 *)
(***************************************************************************)
TakeBatch(B) ==
  LET served == {r.dp : r \in B}
      first(d) == CHOOSE r \in B : r.dp = d /\ \A o \in B : o.dp = d => r.seq <= o.seq
  IN
  /\ up
  /\ unsynced = {} /\ flags = {}
  /\ B # {}
  /\ ReceivableTogether(B)
  /\ net' = net \ B
  /\ job' = [d \in DP |-> IF d \in served THEN first(d).seq ELSE 0]
  /\ todo' = Layers \X served
  /\ unsynced' = served
  /\ raw' = Clamp(served)
  /\ UNCHANGED <<upto, hostVars, gpuVars, out, src, inputs, done, up, scratch, dma, flags>>

(***************************************************************************)
(* forward_impl of the next layer for one rank of the batch, and the start *)
(* of the copies to every TP target.  Placeholder ids give no embedding.   *)
(***************************************************************************)
Compute(l, d) ==
  /\ <<l, d>> \in todo
  /\ \A w \in todo : l <= w[1]
  /\ todo' = todo \ {<<l, d>>}
  /\ scratch' = [scratch EXCEPT ![d][l] = IF raw[d] THEN Junk ELSE inputs[d]]
  /\ dma' = dma \cup {<<d, l, t>> : t \in TP}
  /\ UNCHANGED <<upto, hostVars, gpuVars, out, src, inputs, raw, done, net,
                 up, job, unsynced, flags>>

(* A copy stream moves a scratch buffer's rows into the output buffer.     *)
CopyLands(d, l, t) ==
  /\ <<d, l, t>> \in dma
  /\ dma' = dma \ {<<d, l, t>>}
  /\ out' = [out EXCEPT ![d][t][l] = scratch[d][l]]
  /\ UNCHANGED <<upto, hostVars, gpuVars, src, inputs, raw, done, net,
                 up, job, todo, scratch, unsynced, flags>>

(* Mutant: only the first target's copy streams are waited for. *)
LandedOnFirst(d) == \A c \in dma : c[1] # d \/ c[3] # 0

(* _handle_requests has synchronized every target's copy stream. *)
Landed(d) == \A c \in dma : c[1] # d

(* Mutant: only the sender's flag is listed. *)
SynchronizeForSender(d) ==
  /\ d \in unsynced
  /\ todo = {} /\ flags = {}
  /\ Landed(d)
  /\ unsynced' = unsynced \ {d}
  /\ flags' = {d} \X Layers \X {0}
  /\ UNCHANGED <<upto, hostVars, gpuVars, out, src, inputs, raw, done, net,
                 up, job, todo, scratch, dma>>

(* All copy streams of rank d are synchronized: its flags can be written.  *)
Synchronize(d) ==
  /\ d \in unsynced
  /\ todo = {}
  /\ flags = {}
  /\ Landed(d)
  /\ unsynced' = unsynced \ {d}
  /\ flags' = {d} \X Layers \X TP
  /\ UNCHANGED <<upto, hostVars, gpuVars, out, src, inputs, raw, done, net,
                 up, job, todo, scratch, dma>>

(* One "flag[0] = request.seq": the list names a flag once per layer.      *)
WriteFlag(d, l, t) ==
  /\ <<d, l, t>> \in flags
  /\ \A w \in flags : l < w[2] \/ (l = w[2] /\ t <= w[3])
  /\ flags' = flags \ {<<d, l, t>>}
  /\ done'  = [done EXCEPT ![d][t] = job[d]]
  /\ UNCHANGED <<upto, hostVars, gpuVars, out, src, inputs, raw, net,
                 up, job, todo, scratch, dma, unsynced>>

(* The process ends, at any point of a batch: its pending copies with it.  *)
Stop ==
  /\ "stop" \in Faults
  /\ up
  /\ up' = FALSE
  /\ todo' = {} /\ dma' = {} /\ unsynced' = {} /\ flags' = {}
  /\ UNCHANGED <<upto, hostVars, gpuVars, out, src, inputs, raw, done, net, job, scratch>>

-----------------------------------------------------------------------------

HostStep(d, t) ==
  \/ Launch(d, t)
  \/ LaunchDummy(d, t)
  \/ t = 0 /\ Stage(d)
  \/ t = 0 /\ Send(d)
  \/ Resume(d, t)
  \/ Timeout(d, t)

GpuStep(d, t) ==
  \/ t = 0 /\ ProduceInputs(d)
  \/ BeginForward(d, t)
  \/ ReadLayer(d, t)
  \/ FinishForward(d, t)

WorkerStep ==
  \/ \E B \in SUBSET net : TakeBatch(B)
  \/ \E l \in Layers, d \in DP : Compute(l, d)
  \/ \E d \in DP, l \in Layers, t \in TP : CopyLands(d, l, t)
  \/ \E d \in DP : Synchronize(d)
  \/ \E d \in DP, l \in Layers, t \in TP : WriteFlag(d, l, t)

AllDone == \A d \in DP, t \in TP : fin[d][t] = MaxStep

(* The schedules' bound is reached: not a deadlock. *)
Finished == AllDone /\ UNCHANGED vars

Next ==
  \/ \E d \in DP, t \in TP : HostStep(d, t) \/ GpuStep(d, t)
  \/ WorkerStep
  \/ Stop
  \/ Finished

Spec == Init /\ [][Next]_vars

(***************************************************************************)
(* Model threads, GPU streams and the offload process each keep running.   *)
(***************************************************************************)
Fairness ==
  /\ \A d \in DP, t \in TP : WF_vars(HostStep(d, t)) /\ WF_vars(GpuStep(d, t))
  /\ WF_vars(WorkerStep)

FairSpec == Spec /\ Fairness

-----------------------------------------------------------------------------
(* Properties.                                                             *)

TypeOK ==
  /\ upto \in [DP -> Schedules]
  /\ pc   \in [DP -> [TP -> {"idle", "staging", "sending", "waiting", "failed"}]]
  /\ hpos \in [DP -> [TP -> Steps]]
  /\ seq  \in [DP -> [TP -> Steps]]
  /\ enq  \in [DP -> [TP -> Steps]]
  /\ fin  \in [DP -> [TP -> Steps]]
  /\ st   \in [DP -> [TP -> 0 .. (NumLayers + 1)]]
  /\ got  \in [DP -> [TP -> [Layers -> Values]]]
  /\ out  \in [DP -> [TP -> [Layers -> Values]]]
  /\ src    \in [DP -> Steps]
  /\ inputs \in [DP -> Steps]
  /\ raw    \in [DP -> BOOLEAN]
  /\ done \in [DP -> [TP -> Steps]]
  /\ net  \subseteq [dp : DP, seq : Steps]
  /\ up   \in BOOLEAN
  /\ job  \in [DP -> Steps]
  /\ todo \subseteq Layers \X DP
  /\ scratch \in [DP -> [Layers -> Values]]
  /\ dma   \subseteq DP \X Layers \X TP
  /\ unsynced \subseteq DP
  /\ flags \subseteq DP \X Layers \X TP

(***************************************************************************)
(* A forward only ever sees the embeddings of its own tokens in every      *)
(* layer: zeros in a dummy run, in a real one neither those of another     *)
(* step, nor a half-written or never-written buffer, nor rows looked up    *)
(* for speculative placeholders.                                           *)
(***************************************************************************)
OwnEmbeddings ==
  \A d \in DP, t \in TP, l \in Layers :
    l < st[d][t] => got[d][t][l] = Expected(d, fin[d][t] + 1)

(***************************************************************************)
(* No copy into an output buffer is in flight while an enqueued forward    *)
(* has not read that layer: what wait_reset used to guarantee, now left to *)
(* the order of the handshake and, on TP ranks other than 0, to the        *)
(* collectives.                                                            *)
(***************************************************************************)
CopiesFindBufferFree ==
  \A c \in dma :
    LET d == c[1]  l == c[2]  t == c[3]
    IN  enq[d][t] = fin[d][t] \/ (enq[d][t] = fin[d][t] + 1 /\ l < st[d][t])

(***************************************************************************)
(* The offload process has at most one request per data-parallel rank to   *)
(* serve, in its socket or in its batch, so the branch of _handle_requests *)
(* that drops a duplicate, whose sender would wait for ever, is never      *)
(* taken; and it never answers a number that was not asked for.            *)
(***************************************************************************)
OneRequestPerRank ==
  \A d \in DP :
    /\ \A r, o \in Requests(d) : r = o
    /\ d \in unsynced => Requests(d) = {} /\ job[d] = seq[d][0]
    /\ \A r \in Requests(d) : r.seq = seq[d][0]

(***************************************************************************)
(* From the moment a request is sent until its last copy has landed, the   *)
(* shared input buffers hold that request's batch: staging never           *)
(* overwrites inputs the offload process has yet to read.                  *)
(***************************************************************************)
InputsOfRequest ==
  \A d \in DP :
    Requests(d) # {} \/ d \in unsynced => inputs[d] = hpos[d][0]

(***************************************************************************)
(* A flag that reaches the sequence number of the batch TP rank 0 is       *)
(* waiting for says that all layers are complete on EVERY TP rank, not     *)
(* only on the rank that owns the flag.                                    *)
(***************************************************************************)
FlagMeansAllLanded ==
  \A d \in DP :
    pc[d][0] = "waiting" /\ (\E t \in TP : done[d][t] >= seq[d][0]) =>
      \A t \in TP, l \in Layers : out[d][t][l] = hpos[d][0]

(***************************************************************************)
(* A done flag never moves back, though every flag is written once per     *)
(* layer, and it moves by one: no batch of a rank is skipped.              *)
(***************************************************************************)
FlagsCountUp ==
  [][\A d \in DP, t \in TP : done'[d][t] - done[d][t] \in {0, 1}]_done

(* Offloading changes where embeddings are computed, not what forwards see. *)
ImplementsLocal == LocalSpec

(***************************************************************************)
(* Unless the offload process stops, every scheduled forward of every rank *)
(* finishes: the handshake, the run-ahead and the collectives never wait   *)
(* on each other.                                                          *)
(***************************************************************************)
EveryForwardFinishes == []up => <>AllDone

=============================================================================
