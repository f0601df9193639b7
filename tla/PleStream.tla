------------------------------ MODULE PleStream ------------------------------
(***************************************************************************)
(* The PLE CPU-offload handshake before this repository's patch            *)
(* (patches/orig): the one the patched handshake of PleOffload replaces.   *)
(*                                                                         *)
(* Nobody waits on a host thread here.  Every output buffer has a flag in  *)
(* GPU memory; the model stream waits for 1 before it reads the buffer and *)
(* writes 0 after the forward, and a copy stream of the offload process    *)
(* waits for 0, copies, and writes 1.  Staging is left to a request        *)
(* thread, fed through a queue with room for one batch.                    *)
(*                                                                         *)
(* It is shown to implement PleLocal, like PleOffload: both handshakes     *)
(* promise a forward the same thing.                                       *)
(***************************************************************************)
EXTENDS Integers, Sequences

CONSTANTS
  DP, TpSize, NumLayers, MaxStep,  \* as in PleLocal
  InputKinds,   \* subset of BOOLEAN: may the runner's inputs be on the GPU
  Speculative,  \* a speculative_config: staged ids may hold placeholders
  RunAhead      \* unfinished forwards the runner tolerates when it begins one

ASSUME StreamAssumption ==
  /\ TpSize \in Nat \ {0}
  /\ NumLayers \in Nat \ {0}
  /\ MaxStep \in Nat
  /\ InputKinds \subseteq BOOLEAN
  /\ Speculative \in BOOLEAN
  /\ RunAhead \in Nat

VARIABLES
  cuda,    \* _uses_cuda_inputs
  upto,    \* the schedules, as in PleLocal
  (* model threads and request threads of the GPU workers *)
  hpos,    \* hpos[d][t]: last step the model thread has enqueued
  raised,  \* ranks whose put_nowait found the queue full
  queue,   \* queue[d]: _request_queue of TP rank 0
  staging, \* staging[d]: the batch _process_request works on, 0 if none
  event,   \* event[d]: the step that last recorded _input_ready_event
  (* the model streams *)
  pos,     \* pos[d][t]: next operation of the forward, see below
  fin,     \* fin[d][t]: the last forward that finished
  got,     \* got[d][t][l]: what layer l returned to the current forward
  out,     \* _gpu_output_buffer of every layer
  flag,    \* flag[d][t][l]: the semaphore of that buffer
  (* shared memory of a data-parallel rank *)
  src,     \* the runner's input tensors
  inputs,  \* the shared input buffers
  raw,     \* the staged ids still hold speculative placeholders
  net,     \* net[d]: requests in the PUSH/PULL socket
  (* the offload process *)
  todo,    \* <<l, d>>: layers still to be served in this batch
  held,    \* the <<l, d>> between its wait_reset and its copies, if any
  scratch, \* _pinned_bufs
  copier   \* copier[d][l][t]: operations pending on that copy stream

hostVars   == <<hpos, raised, queue, event>>
gpuVars    == <<pos, fin, got>>
bufVars    == <<src, inputs, raw>>
workerVars == <<todo, held, scratch>>
vars == <<cuda, upto, hostVars, staging, gpuVars, out, flag, bufVars, net,
          workerVars, copier>>

(***************************************************************************)
(* The operations of a forward on its stream, in order: 0 starts it, l in  *)
(* 1 .. NumLayers waits for and reads layer l, NumLayers + 1 is the last   *)
(* collective, NumLayers + 1 + l resets the flag of layer l.  PleLocal     *)
(* knows nothing of the resets: to it a forward ends with the collective.  *)
(***************************************************************************)
Local == INSTANCE PleLocal WITH
  st <- [d \in DP |-> [t \in 0 .. (TpSize - 1) |->
           IF pos[d][t] > NumLayers + 1 THEN 0 ELSE pos[d][t]]]

TP     == Local!TP
Layers == Local!Layers
IsReal(d, p) == Local!IsReal(d, p)

Reset == 0  \* CpuGpuSemaphore.RESET_VALUE
Done  == 1  \* CpuGpuSemaphore.DONE_VALUE

Init ==
  /\ cuda \in InputKinds
  /\ upto \in [DP -> Local!Schedules]
  /\ hpos    = [d \in DP |-> [t \in TP |-> 0]]
  /\ raised  = {}
  /\ queue   = [d \in DP |-> <<>>]
  /\ staging = [d \in DP |-> 0]
  /\ event   = [d \in DP |-> 0]
  /\ pos  = [d \in DP |-> [t \in TP |-> 0]]
  /\ fin  = [d \in DP |-> [t \in TP |-> 0]]
  /\ got  = [d \in DP |-> [t \in TP |-> Local!Unread]]
  /\ out  = [d \in DP |-> [t \in TP |-> [l \in Layers |-> Local!Junk]]]
  /\ flag = [d \in DP |-> [t \in TP |-> [l \in Layers |-> Reset]]]
  /\ src    = [d \in DP |-> 0]
  /\ inputs = [d \in DP |-> 0]
  /\ raw    = [d \in DP |-> FALSE]
  /\ net    = [d \in DP |-> <<>>]
  /\ todo = {} /\ held = {}
  /\ scratch = [d \in DP |-> [l \in Layers |-> Local!Junk]]
  /\ copier  = [d \in DP |-> [l \in Layers |-> [t \in TP |-> <<>>]]]

-----------------------------------------------------------------------------
(* The model thread of GPU worker (d, t): nothing in it blocks.            *)

MayBegin(d, t) ==
  /\ hpos[d][t] < MaxStep
  /\ hpos[d][t] - fin[d][t] <= RunAhead
  /\ d \notin raised

(***************************************************************************)
(* put_nowait into Queue(maxsize=1); the exception of a full queue ends    *)
(* the worker, and with it its data-parallel rank.                         *)
(***************************************************************************)
PutNowait(d, p) ==
  IF queue[d] = <<>>
    THEN queue' = [queue EXCEPT ![d] = <<p>>] /\ UNCHANGED raised
    ELSE raised' = raised \cup {d} /\ UNCHANGED queue

(***************************************************************************)
(* prepare_forward(dummy_run=False) and the enqueuing of the forward.      *)
(* TP rank 0 records the event behind its enqueued work, this step's input *)
(* kernels included; CPU mirrors are written by now.                       *)
(***************************************************************************)
Launch(d, t) ==
  LET p == hpos[d][t] + 1 IN
  /\ MayBegin(d, t)
  /\ IsReal(d, p)
  /\ hpos' = [hpos EXCEPT ![d][t] = p]
  /\ IF t = 0 THEN PutNowait(d, p) ELSE UNCHANGED <<queue, raised>>
  /\ event' = IF t = 0 /\ cuda THEN [event EXCEPT ![d] = p] ELSE event
  /\ src'   = IF t = 0 /\ ~cuda THEN [src EXCEPT ![d] = p] ELSE src
  /\ UNCHANGED <<cuda, upto, staging, gpuVars, out, flag, inputs, raw, net,
                 workerVars, copier>>

(* Mutant: a dummy run goes on to queue a request. *)
LaunchDummyQueued(d, t) ==
  LET p == hpos[d][t] + 1 IN
  /\ MayBegin(d, t)
  /\ ~IsReal(d, p)
  /\ hpos' = [hpos EXCEPT ![d][t] = p]
  /\ IF t = 0 THEN PutNowait(d, p) ELSE UNCHANGED <<queue, raised>>
  /\ UNCHANGED <<cuda, upto, event, staging, gpuVars, out, flag, bufVars, net,
                 workerVars, copier>>

(* prepare_forward(dummy_run=True): the zeroing is enqueued, nothing sent. *)
LaunchDummy(d, t) ==
  LET p == hpos[d][t] + 1 IN
  /\ MayBegin(d, t)
  /\ ~IsReal(d, p)
  /\ hpos' = [hpos EXCEPT ![d][t] = p]
  /\ UNCHANGED <<cuda, upto, raised, queue, event, staging, gpuVars, out, flag,
                 bufVars, net, workerVars, copier>>

-----------------------------------------------------------------------------
(* The request thread of TP rank 0.                                        *)

(* _request_loop takes the next request, which makes room for another.     *)
GetRequest(d) ==
  /\ staging[d] = 0
  /\ queue[d] # <<>>
  /\ staging' = [staging EXCEPT ![d] = Head(queue[d])]
  /\ queue'   = [queue EXCEPT ![d] = Tail(@)]
  /\ UNCHANGED <<cuda, upto, hpos, raised, event, gpuVars, out, flag, bufVars, net,
                 workerVars, copier>>

(* Mutant: the copies do not wait for the event. *)
InputReadyUnawaited(d) == TRUE

(***************************************************************************)
(* What wait_event waits for: everything the model stream was given before *)
(* the event's LAST recording.                                             *)
(***************************************************************************)
InputReady(d) ==
  cuda => fin[d][0] >= event[d] - 1 /\ src[d] = event[d]

(* _process_request: _copy_cuda_inputs or _copy_cpu_inputs, then the send. *)
StageAndSend(d) ==
  /\ staging[d] # 0
  /\ InputReady(d)
  /\ inputs'  = [inputs EXCEPT ![d] = src[d]]
  /\ raw'     = [raw EXCEPT ![d] = Speculative]
  /\ net'     = [net EXCEPT ![d] = Append(@, staging[d])]
  /\ staging' = [staging EXCEPT ![d] = 0]
  /\ UNCHANGED <<cuda, upto, hostVars, gpuVars, out, flag, src, workerVars, copier>>

-----------------------------------------------------------------------------
(* The model stream of worker (d, t), in the order it was filled.          *)

(* The runner's input kernels for the step TP rank 0 has begun.            *)
ProduceInputs(d) ==
  LET p == fin[d][0] + 1 IN
  /\ cuda
  /\ pos[d][0] = 0
  /\ p <= hpos[d][0]
  /\ src[d] # p
  /\ src' = [src EXCEPT ![d] = p]
  /\ UNCHANGED <<cuda, upto, hostVars, staging, gpuVars, out, flag, inputs, raw,
                 net, workerVars, copier>>

(* A forward starts; signal_dummy_outputs precedes a dummy one.            *)
BeginForward(d, t) ==
  LET p == fin[d][t] + 1 IN
  /\ p <= hpos[d][t]
  /\ pos[d][t] = 0
  /\ cuda /\ t = 0 => src[d] = p
  /\ pos' = [pos EXCEPT ![d][t] = 1]
  /\ got' = [got EXCEPT ![d][t] = Local!Unread]
  /\ IF IsReal(d, p) THEN UNCHANGED <<out, flag>>
     ELSE /\ out'  = [out EXCEPT ![d][t] = [l \in Layers |-> Local!Zeros]]
          /\ flag' = [flag EXCEPT ![d][t] = [l \in Layers |-> Done]]
  /\ UNCHANGED <<cuda, upto, hostVars, staging, fin, bufVars, net, workerVars, copier>>

(* PleOffloadLayer.forward: ple_offload_wait, then the buffer.             *)
ReadLayer(d, t) ==
  LET l == pos[d][t] IN
  /\ l \in Layers
  /\ flag[d][t][l] = Done
  /\ got' = [got EXCEPT ![d][t][l] = out[d][t][l]]
  /\ pos' = [pos EXCEPT ![d][t] = l + 1]
  /\ UNCHANGED <<cuda, upto, hostVars, staging, fin, out, flag, bufVars, net,
                 workerVars, copier>>

(* The forward's last collective: the group's ranks leave it together.     *)
FinishForward(d, t) ==
  LET p == fin[d][t] + 1 IN
  /\ pos[d][t] = NumLayers + 1
  /\ \A u \in TP : fin[d][u] >= p \/ (fin[d][u] = p - 1 /\ pos[d][u] = NumLayers + 1)
  /\ fin' = [fin EXCEPT ![d][t] = p]
  /\ pos' = [pos EXCEPT ![d][t] = @ + 1]
  /\ UNCHANGED <<cuda, upto, hostVars, staging, got, out, flag, bufVars, net,
                 workerVars, copier>>

(* Mutant: only the first layer's flag is reset. *)
ReleaseFirst(d, t) ==
  /\ pos[d][t] = NumLayers + 2
  /\ flag' = [flag EXCEPT ![d][t][1] = Reset]
  /\ pos'  = [pos EXCEPT ![d][t] = 0]
  /\ UNCHANGED <<cuda, upto, hostVars, staging, fin, got, out, bufVars, net,
                 workerVars, copier>>

(* release_outputs, enqueued after the whole forward: one flag per layer.  *)
Release(d, t) ==
  LET l == pos[d][t] - (NumLayers + 1) IN
  /\ l \in Layers
  /\ flag' = [flag EXCEPT ![d][t][l] = Reset]
  /\ pos'  = [pos EXCEPT ![d][t] = IF l = NumLayers THEN 0 ELSE @ + 1]
  /\ UNCHANGED <<cuda, upto, hostVars, staging, fin, got, out, bufVars, net,
                 workerVars, copier>>

-----------------------------------------------------------------------------
(* The offload process and its copy streams.                               *)

(***************************************************************************)
(* busy_loop drains n[d] messages of every rank and _handle_requests keeps *)
(* the first of each; the placeholders are clamped before any layer runs.  *)
(* The loop does not wait for the copies of the batch before.              *)
(***************************************************************************)
TakeBatch(n) ==
  LET served == {d \in DP : n[d] > 0} IN
  /\ todo = {} /\ held = {}
  /\ served # {}
  /\ \A d \in DP : n[d] <= Len(net[d])
  /\ net'  = [d \in DP |-> SubSeq(net[d], n[d] + 1, Len(net[d]))]
  /\ todo' = Layers \X served
  /\ raw'  = [d \in DP |-> raw[d] /\ ~(Speculative /\ d \in served)]
  /\ UNCHANGED <<cuda, upto, hostVars, staging, gpuVars, out, flag, src, inputs,
                 held, scratch, copier>>

(***************************************************************************)
(* The next layer of one rank: each target's copy stream is synchronized,  *)
(* then given the wait for its flag to be 0.                               *)
(***************************************************************************)
WaitReset(l, d) ==
  /\ held = {}
  /\ <<l, d>> \in todo
  /\ \A w \in todo : l <= w[1]
  /\ \A t \in TP : copier[d][l][t] = <<>>
  /\ todo' = todo \ {<<l, d>>}
  /\ held' = {<<l, d>>}
  /\ copier' = [copier EXCEPT ![d][l] = [t \in TP |-> <<"wait_reset">>]]
  /\ UNCHANGED <<cuda, upto, hostVars, staging, gpuVars, out, flag, bufVars, net, scratch>>

(* Mutant: the flag is signalled ahead of the copy. *)
SignalFirst(t) == <<"signal", "copy">>

(* Mutant: only the first target is signalled. *)
SignalSender(t) == IF t = 0 THEN <<"copy", "signal">> ELSE <<"copy">>

(* What a target's copy stream is given once the rows are computed.        *)
CopyAndSignal(t) == <<"copy", "signal">>

(* forward_impl into the pinned buffer; the copies wait in their streams.  *)
Compute(l, d) ==
  /\ <<l, d>> \in held
  /\ held' = {}
  /\ scratch' = [scratch EXCEPT ![d][l] = IF raw[d] THEN Local!Junk ELSE inputs[d]]
  /\ copier' = [copier EXCEPT ![d][l] = [t \in TP |-> @[t] \o CopyAndSignal(t)]]
  /\ UNCHANGED <<cuda, upto, hostVars, staging, gpuVars, out, flag, bufVars, net, todo>>

Pop(d, l, t) == copier' = [copier EXCEPT ![d][l][t] = Tail(@)]

NextIs(d, l, t, op) == copier[d][l][t] # <<>> /\ Head(copier[d][l][t]) = op

(* Mutant: the copy stream does not wait. *)
PassUnreset(d, l, t) ==
  /\ NextIs(d, l, t, "wait_reset")
  /\ Pop(d, l, t)
  /\ UNCHANGED <<cuda, upto, hostVars, staging, gpuVars, out, flag, bufVars, net, workerVars>>

(* cuStreamWaitValue32(flag == 0) on the copy stream.                      *)
PassReset(d, l, t) ==
  /\ NextIs(d, l, t, "wait_reset")
  /\ flag[d][t][l] = Reset
  /\ Pop(d, l, t)
  /\ UNCHANGED <<cuda, upto, hostVars, staging, gpuVars, out, flag, bufVars, net, workerVars>>

CopyLands(d, l, t) ==
  /\ NextIs(d, l, t, "copy")
  /\ out' = [out EXCEPT ![d][t][l] = scratch[d][l]]
  /\ Pop(d, l, t)
  /\ UNCHANGED <<cuda, upto, hostVars, staging, gpuVars, flag, bufVars, net, workerVars>>

(* CpuGpuSemaphore.signal on the copy stream.                              *)
Signal(d, l, t) ==
  /\ NextIs(d, l, t, "signal")
  /\ flag' = [flag EXCEPT ![d][t][l] = Done]
  /\ Pop(d, l, t)
  /\ UNCHANGED <<cuda, upto, hostVars, staging, gpuVars, out, bufVars, net, workerVars>>

-----------------------------------------------------------------------------

HostStep(d, t) == Launch(d, t) \/ LaunchDummy(d, t)

RequestStep(d) == GetRequest(d) \/ StageAndSend(d)

GpuStep(d, t) ==
  \/ t = 0 /\ ProduceInputs(d)
  \/ BeginForward(d, t)
  \/ ReadLayer(d, t)
  \/ FinishForward(d, t)
  \/ Release(d, t)

WorkerStep ==
  \/ \E n \in [DP -> 0 .. MaxStep] : TakeBatch(n)
  \/ \E l \in Layers, d \in DP : WaitReset(l, d) \/ Compute(l, d)

CopyStep(d, l, t) == PassReset(d, l, t) \/ CopyLands(d, l, t) \/ Signal(d, l, t)

Next ==
  \/ \E d \in DP, t \in TP : HostStep(d, t) \/ GpuStep(d, t)
  \/ \E d \in DP : RequestStep(d)
  \/ WorkerStep
  \/ \E d \in DP, l \in Layers, t \in TP : CopyStep(d, l, t)

(* Threads, streams and the offload process each keep running.             *)
Fairness ==
  /\ \A d \in DP, t \in TP : WF_vars(HostStep(d, t)) /\ WF_vars(GpuStep(d, t))
  /\ \A d \in DP : WF_vars(RequestStep(d))
  /\ WF_vars(WorkerStep)
  /\ \A d \in DP, l \in Layers, t \in TP : WF_vars(CopyStep(d, l, t))

Spec == Init /\ [][Next]_vars /\ Fairness

-----------------------------------------------------------------------------
(* Properties.                                                             *)

(***************************************************************************)
(* put_nowait never finds the queue full: the request thread has taken the *)
(* batch before by the time its forward is consumed, which is what the     *)
(* comment "one pending request is sufficient" relies on.                  *)
(***************************************************************************)
PutFindsRoom == raised = {}

(***************************************************************************)
(* From its queueing until its last layer is computed, a batch finds its   *)
(* own inputs: neither the runner's tensors nor the shared buffers are     *)
(* overwritten, or read before they are written.                           *)
(***************************************************************************)
InputsOfRequest ==
  \A d \in DP :
    (net[d] # <<>> \/ \E w \in todo \cup held : w[2] = d) => inputs[d] = hpos[d][0]

(***************************************************************************)
(* Once a copy is past its wait the buffer is free on THAT rank: the       *)
(* forward before has finished there and has reset the flag, though the    *)
(* request was sent by another rank.                                       *)
(***************************************************************************)
CopiesFindBufferFree ==
  \A d \in DP, l \in Layers, t \in TP :
    NextIs(d, l, t, "copy") =>
      /\ fin[d][t] = scratch[d][l] - 1
      /\ pos[d][t] \notin (l + 1) .. (NumLayers + 1 + l)

(***************************************************************************)
(* No signal is lost and no wait is satisfied twice: a signal finds the    *)
(* flag reset, a dummy run finds all of them reset, and a reset finds its  *)
(* flag set.                                                               *)
(***************************************************************************)
SignalsAlternate ==
  \A d \in DP, t \in TP, l \in Layers :
    /\ NextIs(d, l, t, "signal") => flag[d][t][l] = Reset
    /\ pos[d][t] = 0 /\ fin[d][t] < hpos[d][t] /\ ~IsReal(d, fin[d][t] + 1) =>
         flag[d][t][l] = Reset
    /\ pos[d][t] = NumLayers + 1 + l => flag[d][t][l] = Done

(* Offloading changes where embeddings are computed, not what forwards see. *)
ImplementsLocal == Local!LocalSpec

(***************************************************************************)
(* Every scheduled forward finishes and leaves its buffers released: the   *)
(* semaphore waits of the model streams and of the copy streams, the queue *)
(* and the collectives never wait on each other.                           *)
(***************************************************************************)
EveryForwardFinishes ==
  <>(\A d \in DP, t \in TP : fin[d][t] = MaxStep /\ flag[d][t] = [l \in Layers |-> Reset])

=============================================================================
