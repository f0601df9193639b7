# TLA+ models of the swanOne recipe

The recipe serves a model with per-layer embeddings (PLE) on one machine by
patching nine files of vLLM (`patches/`) and puts an HTTP shim in front of it
(`shim/`). This directory holds TLA+ modules for the parts of it that have state
and concurrency, TLC configurations that check them on small instances, and
machine-checked proofs about the most important ones. File names below are
relative to `src/`; `TLC` runs are named as in `PROJECT.json`.

## 1. Inventory

### PLE CPU offload — `patches/ple_offload/{connector,worker,ple_offload_layer,protocol}.py`

The embedding tables do not fit on the GPU, so a CPU process computes the
embeddings and copies them into GPU buffers.

| Part | State | Operations |
|---|---|---|
| `PleOffloadConnector` (one per GPU worker) | sequence number, done flag, shared input buffers, page-locked buffers, sockets, events | `__init__` (register, pin), `prepare_forward` (`_launch`, `_process_request`, `_wait_done`, or `signal_dummy_outputs`), `release_outputs`, `close` |
| `PleOffloadLayer` (on the GPU) | `_gpu_output_buffer` | `forward`: return whatever the buffer holds |
| `PleOffloadRunner` (the process) | targets by rank, pinned scratch buffers, copy streams | `accept_registrations`, `busy_loop`, `_handle_requests` |
| `PleOffloadWorker` / `PleOffloadWorkerHandle` | ready pipe, death pipe, process | `make_process`, `wait_for_ready`, `proc_main`, `close` |

They interact through a ZeroMQ PUSH/PULL socket (registrations first, then
requests), shared memory (inputs, done flags), GPU memory shared by IPC handles,
two pipes and signals. Hard: the model threads of all ranks, their GPU streams,
the process and its copy streams run concurrently; the original CUDA stream
waits (`patches/orig/`) were replaced by a flag in shared memory, and the reset of
a buffer after its use became a no-op. Correct means: a forward sees the
embeddings of its own tokens in every layer on every rank; nobody waits for ever
while the process runs; a start that fails is noticed; the process does not
outlive its owner.

### The original handshake — `patches/orig/{connector,worker,ple_offload_layer}.py`

The handshake as it was before this repository's patch, kept beside it. State: a
semaphore of value 0 or 1 in GPU memory for every output buffer, a queue of one
request, a request thread on TP rank 0, one event recorded again for every batch.
Operations: `prepare_forward` (queue, or `signal_dummy_outputs`), `_request_loop`,
`forward` with `ple_offload_wait`, `release_outputs`, `_handle_requests` with
`wait_reset`, copy and `signal` on copy streams. Nothing waits on a host thread but the
request thread; model and copy streams wait for each other. Correct means the same as
for the patched one, although the flags carry no batch numbers.

### PLE tables and their loading — `worker.py:346-564`, `patches/ple_layer_patched.py:744-955`

State: the rows of a table and their block scales, the scale of the table (in the
process and in each GPU worker), the set of loaded parameters, a mapped file.
Operations: `load_weights` once per group of tensors, the check of what is
loaded, `_attach_packed_table`, lookups. Correct means: an id finds the row the
checkpoint has for it, however that was split and cut into calls, and what cannot be
right is refused.

### N-gram hash embedding — `patches/ple_layer_patched.py:459-720`

Hashes the last n tokens of a sequence into disjoint ranges of one table. Pure,
but its inputs arrive in batches, chunks and padded rows with a context of earlier
tokens, and a workspace is kept between batches. Correct means: the ids of a token
depend on its segment only, and every id is in the range of its head.

### PLE short-convolution cache — `patches/ple_layer_patched.py:958-1689`

A causal convolution over a request's gated values, whose last inputs are kept in
a paged state between steps. Operations: decode, prefill, speculative decode (with a
rollback to the accepted prefix), dispatch. Correct means: the output of an accepted
token is the convolution over the accepted history, whatever the steps were.

### QSA sparse attention — `patches/qsa_ops_patched.py`, `patches/qsa_nvidia_patched.py`

State: a ring of raw keys per request, a paged cache of pooled groups. Operations:
pool the groups a step completes, store raw keys, score and select the visible
groups, expand them to tokens, attend in tiles divided over splits. Correct means:
every complete group is pooled from its own accepted tokens although groups span steps
and drafts are rejected, and a query attends once to each selected token of its past.

### MTP drafter — `patches/mtp_patched.py`

State: per draft layer, a buffer of top-k indices and the flag `skip_topk`; the head cut
down to a list of tokens. Operations: the first pass of a round selects for every row of
the batch, `compact_topk_indices` moves the row of each request's last accepted token to
the front, later passes reuse these rows; `_attach_draft_vocab` once, `get_top_tokens` per
pass. Correct means: a later pass attends to accepted tokens of its own request, and a
drafted token is the best of those that may be drafted.

### ModelOpt quantization — `patches/modelopt_patched.py`

Chooses a quantization method per module from the checkpoint's configuration. State: the
configuration of the model being built (exclusions, `quantized_layers`, group size), as
renamed for the target or renumbered for the draft model. Operations: `from_config`,
`apply_vllm_mapper`, `_make_draft_vllm_config`, `get_quant_method` per module. Correct
means: the method of a module is that of the tensors that will be loaded into it, though
configuration, checkpoint and model call them by different names, and what cannot be
built is refused.

### TypeSafe shim — `shim/typesafe_native_shim.py`

A threading HTTP server that turns one decision into one constrained vLLM
completion. State: the served context limit, read once under a lock. Its status
codes are the contract with the benchmark's runner (three consecutive failures end
a run; a 422 is scored as one wrong answer).

### Rest

`rescore/` and `baselines/` are straight-line scripts; assets and documents hold no
behaviour. vLLM itself, ZeroMQ, CUDA and the runner of the benchmark are outside the
repository and appear only as the modules' environment, marked external in the map.

## 2. Modules

| Module | Models | Uses |
|---|---|---|
| `PleLocal` | what PLE lookup promises to a forward: the layer computed in place | |
| `PleOffload` | the handshake: connectors, GPU streams, process, flags, dummy runs, timeouts | extends `PleLocal`, implements it |
| `PleOffloadInv`, `PleOffload_proofs` | its inductive invariant; theorems for all constants | extend `PleOffload` |
| `PleStream` | the original handshake: semaphores, request thread, copy streams | implements `PleLocal` through an instance |
| `PleStreamInv`, `PleStream_proofs` | its inductive invariant; theorems for all constants | extend `PleStream` |
| `PleLifecycle` | spawn, registration, READY, serving, death pipe, close | |
| `PleLifecycleInv`, `PleLifecycle_proofs` | its inductive invariant; theorems for all constants | extend `PleLifecycle` |
| `HashHeads` | sizes, offsets and multipliers of the hash heads | |
| `PleTables` | loading of the tables, packed files, lookups | extends `HashHeads` |
| `PleTablesInv` | its inductive invariant | extends `PleTables` |
| `NGram` | the n-gram of every token of a batch | |
| `NGram_proofs` | theorems for all constants | extends `NGram` |
| `ConvHistory` | what the short convolution promises: a convolution over the accepted history | |
| `ShortConv` | its cached state under prefill, decode and speculative steps | extends `ConvHistory`, implements it |
| `ShortConvInv`, `ShortConv_proofs` | its inductive invariant; theorems for all constants | extend `ShortConv` |
| `QsaSelect` | visible groups, selection, expansion, tiles and splits: what a query attends to | |
| `QsaRequests` | the requests, their accepted tokens and their bounds, for the two modules below | extends `QsaSelect` |
| `Qsa` | ring and pooled groups under chunks, drafts and rejections | extends `QsaRequests` |
| `QsaInv` | its inductive invariant | extends `Qsa` |
| `Drafter` | the rounds of the MTP drafter and its head | extends `QsaRequests` |
| `DrafterInv` | its inductive invariant | extends `Drafter` |
| `Qsa_proofs` | theorems for all constants: the selection, the index, the drafter | extends `QsaInv`, `DrafterInv` |
| `Quant` | the quantization methods of a model's modules | |
| `QuantInv` | what names must satisfy, and the inductive invariant | extends `Quant` |
| `Checkpoint_proofs` | theorems for all constants: the heads, the layout and loading of tables, the methods | extends `PleTablesInv`, `QuantInv` |
| `Shim` | handler threads, the cached limit, the server, the runs | |
| `ShimInv`, `Shim_proofs` | its inductive invariant; theorems for all constants | extend `Shim` |
| `MC...` | values of the constants for TLC | |

### The handshake

A content of a buffer is the number of the schedule step that produced it, so "the
forward sees its own embeddings" is an equation. The schedule (`upto`) decides
which steps are real batches and which are dummy runs; it is chosen at the start,
the same for the TP ranks of a group, as vLLM gives them the same batches.

| Code | Action |
|---|---|
| `prepare_forward`, `_launch` up to the staging | `Launch`, `LaunchDummy` |
| event recorded and waited for on the model stream | guard `InputReady` |
| `_copy_cuda_inputs`, `_copy_cpu_inputs` | `Stage` |
| `socket.send` in `_process_request` | `Send` |
| `_wait_done` returns / raises | `Resume` / `Timeout` |
| `signal_dummy_outputs` | the zeroing in `BeginForward` (it is stream work) |
| `PleOffloadLayer.forward` | `ReadLayer` |
| drain of `busy_loop`, start of `_handle_requests` | `TakeBatch` |
| `layer.forward_impl` and the `copy_` calls | `Compute` |
| a copy stream's DMA | `CopyLands` |
| `copy_stream.synchronize` for a rank | `Synchronize` |
| `flag[0] = request.seq` | `WriteFlag` |
| end of `proc_main` | `Stop` |

The model runner is not in the repository. Two facts about it are assumptions:
`RunAhead`, how many unfinished forwards it tolerates when it begins one, and that
the collectives at the end of a forward let no TP rank leave before all have read
their PLE layers (`AllReadBy`).

### The original handshake

`PleStream` keeps the names of `PleOffload`. What the code enqueues on a CUDA stream is the
value of `pos` (model streams: start, a read per layer, the last collective, a reset per
layer) or of `copier` (copy streams: a sequence of operations still pending).

| Code | Action |
|---|---|
| `prepare_forward`, `_launch`, `put_nowait` | `Launch`, `LaunchDummy` |
| `_request_queue.get` | `GetRequest` |
| `_process_request` behind `wait_event` | `StageAndSend` with `InputReady` |
| `signal_dummy_outputs` | in `BeginForward` (it is stream work) |
| `ple_offload_wait`, `forward` | `ReadLayer` |
| `release_outputs` | `Release`, a reset per layer |
| `busy_loop`, start of `_handle_requests` | `TakeBatch` |
| `copy_stream.synchronize`, `wait_reset` | `WaitReset` |
| `forward_impl`, the copies and `signal` | `Compute`, which fills the copy streams |
| the streams' own progress | `PassReset`, `CopyLands`, `Signal` |

The refinement mapping hides everything but what the forwards see; a forward that still
has flags to reset is over for `PleLocal`. With `PleOffload` this gives the patch its
meaning: both handshakes implement one specification.

### The drafter

A row of the top-k buffer is named by the query it was selected for, `Old` if it is left
from earlier rounds; `QsaSelect!Attended` turns it into the tokens attended to, for every
ranking the top-k may have returned. The proposer, which calls `set_skip_topk` and
`compact_topk_indices` and computes `row_indices`, is vLLM's and external: it gives the row of
the last accepted token. `head` is the list of `_draft_id_to_target_id`, chosen at the start
from files of ids, scales and heads that may be quantized or sharded (`plain`).

### The quantization methods

A name is the sequence of its components. `QuantInit` chooses a checkpoint: how each tensor is
stored, whether it says so for the whole file or tensor by tensor, in which order, with
exclusions by name, as `path*` or as `path.*`, with or without a group size at the top.
`Configure` is `from_config` with the renaming of `apply_vllm_mapper`, `ConfigureDraft` the
configuration of the draft model, `Build` the `get_quant_method` of the next module. A
module's `tensors` are what the weight loader puts into it: they are given with the
modules, not computed by the code under test, and the properties compare the method with
how these tensors are stored. `WellFormed` says what ModelOpt writes: everything it left
unquantized is excluded, and nothing else is. That matters: experts that are neither
listed nor excluded would take the format of a neighbour (`modelopt_patched.py:2382`). A
method is its format and group; emulation instead of a kernel is the same method.

### The life cycle

One constant set `Workers` of GPU workers, one of them the owner of the process.
Ranks and layer sets are chosen freely at the start, so that the checks of
`accept_registrations` have something to reject. A failing constructor, a crash of any
worker, a kill or hang of the process and the timeout of `wait_for_ready` are actions
enabled by `Faults`. The death pipe ends when nobody holds its writing end; `writers`
is who does. `StartMethods` are those `get_mp_context` may choose: a forked process
inherits the writing end of its own death pipe and never sees it end, so
`ServerFollowsOwner` is claimed of processes that do not hold it, and `CloseEndsChild`
of all.

### The tables

A row of a tensor is named by its number in the checkpoint's table, a shape by its
number of rows. `Init` chooses the configuration, the number of parts the checkpoint
was written in, the tensors it lacks and the packed files; `Load` is one call of
`load_weights` with any tensors of a layer that are left, in the process and in a GPU
worker; `Finish` is the rest of `_load_weights`. `Layout` is the order of the rows in
the checkpoint, written from the sizes of the heads alone, and `RowId` is the code's
way to a row. Primality stands for `_is_prime_64`.

### N-grams, convolution, attention index

A token, an input and a key are named by their request and position, and those that
a rejected draft may differ in also by whether they are accepted; a result is the
structure of names it was computed from (an n-gram, the inputs under the taps, the
keys of a group). "Computed from the right data" is then an equation, and arithmetic
plays no part.

* `NGram!Forward` is `forward_impl` for any cut of the requests into a batch, with
  empty rows and stale padding behind it; `offload` selects between the narrow rows of
  the process and the static rows of the GPU.
* `ShortConv!Step` is `_short_conv_dilated_dispatch` for a batch in which every request is
  idle or takes one path; `Admit` and `Release` are the scheduler's, which gives out
  slots uncleared. The property `ImplementsHistory` is the specification of `ConvHistory`.
* `Qsa!Step` is `_run_qsa` for one request of a batch: `Compressed`, then `RingStored`, then
  what the queries of the step may see. Rows of a batch use disjoint rings and pages, so
  a batch is a series of steps. The order of the calls is the indexer's, which is not
  in the repository. Selection is any choice the top-k may make.

### The shim

A request is an action for each point at which its handler thread can be overtaken:
`Post`, `TakeLock`, `ReadLimit`, `Check`, `Chat`, then the run's `Receive` with the stop
rule. The server may change between any two of them (`ServerChanges`). An exchange
with it ends in a status, in an error `urllib` raises or in an `http.client` exception
such as `IncompleteRead`, which no `except` clause of `call_vllm` names: the answer is
then the 500 of `do_POST` and not the 502 of a failed exchange. `trouble` is the history
variable that says whether the server was not healthy while a request was served.

## 3. Runs

| Run | Shows |
|---|---|
| `ple_cuda` | CUDA inputs, 2 TP ranks, 2 layers, 3 steps, one forward ahead, a process that may stop: own embeddings, free buffers, stable inputs, late flags, the inductive invariant, `PleLocal` is implemented, and every forward finishes unless the process stops |
| `ple_dp` | 2 data-parallel ranks, CPU inputs, no run-ahead, timeouts and a stopping process: one request per rank, flags count up |
| `stream` | the original handshake, 2 TP ranks, 2 layers, 3 steps, CPU or CUDA inputs: signals and resets alternate, the queue has room, inputs and buffers are the batch's own, `PleLocal` is implemented, and every forward finishes |
| `life` | 2 data-parallel ranks from start to end, with every kind of failure: READY, message phases, pins, a failed start, an orphaned server, answers, `close` |
| `tables` | checkpoints split rightly and wrongly, cut into calls in every way, one tensor missing, packed files: lookups find their rows, and failures have a reason |
| `tables_missing` | violation: a checkpoint without one part (see Findings) |
| `ngram` | all cuts of two requests with any end-of-sequence tokens: every token's n-gram is its own |
| `conv` | two requests of several speculative steps, in one batch or after one another in two slots: the window, and `ConvHistory` is implemented |
| `qsa` | two requests that take over each other's ring and pages, drafts and rejections: ring, groups, visible groups, tokens attended once |
| `drafter` | rounds of two requests in one batch, each with a chunk or with drafts of which some are rejected: later passes attend to the accepted past of their own request, the cut-down head drafts the best listed token |
| `quant` | every checkpoint of a small model stored in one format but for two tensors: names keep modules apart, methods fit, disagreeing shards are refused, nothing else is |
| `shim` | two runs, a server that fails, stops and starts with the same limit: no undeserved 422, no run stopped by its items, every request answered |

### Bounds

* Handshake: two ranks of either kind are the least with an "other" rank, two layers
  the least for a flag written twice and a copy that lands between two; three
  steps hold a forward being read, one enqueued and one being staged, the most a
  run-ahead of one allows. Only neighbouring steps are compared, and the proofs remove the
  bounds for the safety properties.
* Original handshake: as above, with one data-parallel rank. Two of them with one TP rank
  and two steps hold as well (280 000 states); it is not a run, because nothing in the
  process relates the ranks but the order of its loop. `RunAhead = 0` is what the comment
  at `orig/connector.py:96-97` assumes; with 1, `PutFindsRoom` fails in three steps, as a
  second `put_nowait` may come before the request thread has taken the first batch.
* Drafter: two requests in both orders, up to three rows more than requests, three drafts
  (two later passes, one behind the other), two selected groups of two tokens, so that a
  selection may leave tokens out. `NumMtp = 1`, the default of the model: with two draft layers the
  second one's buffer is never written in a round that skips the selection
  (`mtp_patched.py:368`), and `DraftsAttendToAcceptedPast` fails.
* Quantization: layers 1 and 10, so that one number begins like the other; both shards
  of a packed layer, two experts, a PLE table, a vision layer, the head under its short name
  and the draft layer under its two numbers. Two unusual tensors are the least for a
  disagreement within a module and for one between neighbours.
* Life cycle: two workers and two buffers are the least for a registration that is
  missing and a constructor that fails between two pins.
* Tables: two heads have an offset to be wrong; tables of 5 and 15 rows have parts that
  are short (3 + 2, 8 + 7) or empty (2 + 2 + 1 + 0), and padding behind the heads; two layers
  have one that fails while the other loads.
  `MaxMissing = 1`: one missing tensor leads to every outcome of the check.
* N-grams: n-grams of 3 reach over two tokens of context; requests of 3 tokens in
  batches of 4 give chunks, empty rows, and a padded row.
* Convolution: kernel 2 and dilation 2 give a window of two columns with a gap. `MaxLen = 8`
  leaves room for several speculative steps after a prompt of two: one that accepts both
  drafts (2 to 5 tokens) and a shorter or an equally long one after it, which rolls back by
  two. What makes the states many is how often slots change hands, each owner leaving its
  inputs behind, so `MCShortConv` counts tokens: `MaxTokens = 9` over all requests and
  restarts is enough for a request that inherits a slot with rejected drafts and then runs
  two speculative steps itself, and for two requests that speculate in one batch. Requests
  are symmetric. The mutant `RollbackClamped` shows that rollbacks of two are reached: it
  differs from the code in no other. The proofs remove the bounds.
* Attention: groups of 2, requests of 6 tokens and chunks of 3 complete several groups and
  begin inside one; two drafts wrap the ring. `RingSize = Ratio + NumSpec - 1` is the
  least that is right: with `RingSize = Ratio`, which the check of the shape at
  `qsa_ops_patched.py:1093` accepts, a second draft overwrites a committed key and
  `GroupsAreHistory` fails. Two selected groups in tiles of 2 leave a tile that is not full.
* Shim: two runs contend for the lock; three items reach the stop rule; two changes stop
  the server and start it again; limits on both sides of `MIN_CONTEXT`, items on both
  sides of the limit.

Symmetry is used in `qsa` and `drafter` only: requests and pages are interchangeable there
and no property is temporal.

Deadlock is checked where the system cannot stop. `CHECK_DEADLOCK FALSE` stands in
the runs in which a worker waits for one that failed, which is what the code does, and
in `stream`, `quant` and `tables`, where the schedule, the building of the model and the
loading end.

### Fairness

`PleOffload!Fairness`: every model thread, GPU stream and the process keep executing
(weak fairness of each one's next step); `Stop` and `Timeout` have none.
`PleStream!Fairness`: the same, with each request thread and each copy stream on its own;
a stream whose wait is satisfied goes on, and no wait is satisfied for a moment only.
`PleLifecycle!Fairness`: connectors, the process, the monitor thread and the owner run;
nobody has to fail, ask a request or start a close. A deadline of `join` is the
owner's own step. `Shim!Fairness`: a handler's thread runs, and every exchange has a
timeout. Strong fairness is not needed: the lock of the shim is handed on by steps whose
number is bounded by the items.

Each property of a passing run has a mutant: a definition that models code,
changed the way a slip in that code would change it, which makes the property fail
under the same configuration.

## 4. Proofs

### The handshake

`PleOffload_proofs` proves, for every number of ranks, layers and steps and every
choice of faults, that `IInv` is inductive (`Inductive`) and from it the safety
properties of the runs, the monotonicity of flags, and that `PleOffload` implements
`PleLocal` (`Implementation`).

None of the safety properties is inductive alone. The argument turns on
`q = inputs[d]`, the step staged last:

1. The host and the process agree on numbers: `seq` is `upto` of the host's step, and
   a request or a batch in service carries it (`HostInv`, `ServiceInv`).
2. While `q` is in service no flag has reached its number (`Asked`), so no rank has
   enqueued the forward of `q` (`EnqueuedIsPublished`).
3. TP rank 0 stages `q` only after its forward of `q - 1`, and the collectives keep
   ranks within one step (`InStep`), so every rank has read whatever it reads of
   earlier steps (`Consumed`): copies of `q` land in buffers nobody reads.
4. When a flag reaches the number, all copies on all ranks have landed
   (`WorkerInv`, `FlagInv`, `PublishInv`), and the buffers keep them until the
   forward of `q` finished everywhere.
5. Dummy runs overwrite a buffer only between those (`DummyInv`); `GotInv` is the
   conclusion for the layers already read.

Assumptions: `SizesAssumption` and `OffloadAssumption` (types of the constants) and
`HandshakeAssumption`, `CudaInputs \/ RunAhead = 0`: either the request waits on the
stream for the previous forward or the runner itself did. Without the last one TLC finds
`CopiesFindBufferFree` violated. TLC checks `IInv` in `ple_cuda`.

### The original handshake

`PleStream_proofs` proves, for every number of ranks, layers and steps and either kind of
inputs, that `IInv` is inductive (`Inductive`), the safety properties of the run `stream`
(`QueueHasRoom`, `InputsAreStable`, `CopiesAreSafe`, `SignalsAreKept`), and that `PleStream`
implements `PleLocal` (`Implementation`). With the theorem of the same name about
`PleOffload`, neither handshake changes what a forward sees.

Here the flags carry no numbers, so the invariant has to say what a flag of 1 means. With
`q = inputs[d]`, the batch staged last:

1. From the read of a layer to the reset of its flag the buffer is used up, and the flag
   is 1. At all other times the buffer is `Free`, and the flag is 1 exactly when the buffer
   is `Filled` with the rows of the rank's next forward (`FlagInv`).
2. A batch is `Outstanding` for a buffer until its signal. While it is, TP rank 0 has
   finished `q - 1` and nothing later (`ServiceInv`), and the collectives keep the ranks
   within one step (`InStep`, `ConsumedInv`): a rank that has not finished `q - 1` has at
   least read all of it.
3. A copy that has passed its wait has seen the flag at 0, so the buffer is free, not
   filled, and the rank's next forward is `q` (`ResetMeansFree`, kept by `CopierInv`).
4. A signal follows its copy in the same stream, so it makes the buffer filled with the
   rows of `q`, which is what the next forward expects. A dummy run finds nothing
   outstanding, because `q` is a real batch and the dummy run is the next forward.

Assumptions: `StreamAssumption` (types) and `ConsumedAssumption`, `RunAhead = 0`, which is the
comment at `orig/connector.py:96-97`, "each forward consumes its output before the next launch,
so one pending request is sufficient". Without it `PutFindsRoom` fails.

### The short convolution

`ShortConv_proofs` proves, for every kernel, dilation, number of slots and drafts, that
`IInv` is inductive, that the slot of every request holds the last inputs of its
accepted history (`WindowsAreHistories`) and that `ShortConv` implements `ConvHistory`
(`Implementation`). The invariant is the window itself, `WindowIsHistory`, with
`SlotsOwned`: no two running requests share a slot, and one with a history has one. A
step shifts the window by the accepted tokens; the column it finds at the end is the
next input because a rejected draft lies behind the window after the rollback.

Assumptions: `ConvAssumption`, `ShortConvAssumption` (types), and `RollbackAssumption`,
`~PlainAfterSpec`: a request that has run with drafts is not put on the decode path
right after a step that accepted more than one token. The decode path
(`ple_layer_patched.py:1188-1191`) takes the first columns of a slot and does not look at
`num_accepted_tokens`; vLLM's metadata builder decides which path a request takes and
is not in the repository. Without the assumption `ImplementsHistory` fails. TLC finds `IInv` true
in the states of the run `conv`.

### The attention index

`Qsa_proofs` proves, for every group size, ring, page size and number of pages, chunks and
drafts, that `IInv` is inductive, and from it the ring (`RingsAreHistories`), the pooled groups
(`GroupsAreHistories`) and the groups a query sees (`PastIsSeen`). `GroupsAreHistory` is not
inductive alone: the keys of a group that was begun in an earlier step come from the ring, so
`RingIsHistory` is needed, and `OwnedInv`, by which running requests share neither rings nor
pages. `RingIsHistory` is kept for this reason: the rows of a step lie within
`NumSpec` positions behind the last accepted one, the open group within `Ratio - 1` before it,
and positions closer than the ring is wide have columns of their own (`Columns`).

Assumptions: `SelectAssumption`, `RequestsAssumption`, `QsaAssumption` (types), and `RingAssumption`,
`RingSize >= Ratio + NumSpec - 1`: the comment at `qsa_ops_patched.py:1091-1092` relies on
it, the check in the line after it asks for `Ratio` columns only.

What a query reads after the selection needs none of this: `AttendsOnce` is a fact about
`QsaSelect` for every ranking, tile width and split profile, and `AttendOnceTheorem` says it of
the queries of every step (with `SeenInv`: they are the rows of that step). Its argument:

1. Every column lies in one tile, and every tile in one split, as the bounds
   `split * NumTiles \div NumSplits` of neighbouring splits meet and end at the last tile
   (`OneSplit`, `OneRead`). No column is read twice or left out.
2. A column below `Selected * Ratio` is a token of the selected group in its place and lies
   before the open group (`ChosenColumn`); one above is a token of the open group or none
   (`OpenColumn`). So different columns hold different tokens (`ColumnsDiffer`), and every
   token that should be attended to has a column.
3. A ranking of all visible groups that repeats none is a permutation of them, hence the
   whole past when it fits.

### The drafter

The second part of `Qsa_proofs` proves for any requests, chunks, drafts, rejections and orders
of a batch that `DrafterIInv` is inductive (`DrafterInductive`) and that
later passes attend to the accepted past of their own request (`DraftsTheorem`); for any
vocabulary, file and scale, that a cut-down head drafts the best listed token
(`BestListedTheorem`). `DraftsAttendToAcceptedPast` speaks of what was read already. The
invariant says where it came from:

1. Requests lie one behind the other in a batch (`RowsInOrder`), so the row of a request's last
   accepted token lies among its own rows and no other request's (`LastRowFacts`), and the first
   pass leaves there the selection of that token (`SelectedLast`, `FirstInv`).
2. Compaction brings the rows to the front in the order of the batch (`FrontInv`). It gathers
   from the buffer as it was, so that it does not matter which rows it overwrites.
3. The later passes select nothing, because `skip` is set exactly while they run
   (`RoundInv`): the front stays as it is until the round ends.
4. So what is read is the selection of a query at the last accepted position, made among
   the tokens of the batch (`UsedInv`), and `AttendsOnce` says what such a query attends to.

The head is the list of the `usable` tokens (`SortedRange`: every element has its place by the
number of smaller ones), and a positive scale keeps their order (`ScaledOrder`).

Assumptions: `SelectAssumption`, `RequestsAssumption`, `DrafterAssumption` (types; `Old` is no
selection), and `LayersAssumption`, `NumMtp = 1`, which is the default at `mtp_patched.py:228`:
with more layers `DraftsAttendToAcceptedPast` fails (see Bounds). TLC finds the parts of `DrafterIInv` true in
the states of the run `drafter`. The theorems about `Qsa` use none of this.

### The life cycle

`PleLifecycle_proofs` proves, for every set of workers, ranks, buffers, start method and
faults, that `IInv` is inductive, that READY is said only by a process that can route
every request (`ReadyIsRoutable`), that registrations and requests never meet the wrong
receiver (`PhasesAreKept`), that page-locked memory is that of the process
(`PinsStayShared`) and that `close` leaves no process behind (`ClosedIsDead`). The argument
is a count: each worker sends one registration, which is either in the socket or received
(`RegsInv`), so when as many are received as there are workers nobody is left to send
another, and requests come only from an engine that saw READY (`PhaseInv`).

Assumption: `CrewAssumption`, the spawner's count of the workers is right. The theorems hold
for every subset of `FaultKinds`.

### The hash heads and the tables

`Checkpoint_proofs` proves of the heads that no product of a token with a multiplier exceeds the
largest 64-bit integer (`ProductsFit`), so hashes are never negative although the code does not
check for overflow, that the parts of a table cover its rows (`PartsCoverTable`), and that the
heads follow one another without gap or overlap, so that `RowId` is the place of an entry in
`Layout` (`LayoutFits`). Of the loading it proves, for every set of configurations, number of
parts, missing tensors and packed files, that `IInv` is inductive (`Inductive`), that a failure
has a reason (`FailuresTheorem`) and that a process that is ready finds the row of every id
(`LookupsTheorem`).

`LookupsFindTheirRow` is not inductive: it says nothing before the process is ready, and then
the tensors have long been used. The invariant says of each tensor what it brought once it was
handed out, whatever the call was: a part its rows (`PartsInv`), a scale the scale in both
processes (`OuterInv`), and both their parameters (`NamesInv`), which is why the check at
the end finds nothing missing. A part overwrites no row of another one because `g \div
PartSize` is the part of row `g`. The process is ready only when nothing is left to hand out,
so all parts are in place.

Assumptions: `HeadsAssumption`, `TablesAssumption` (types), and `PrimesAssumption`: the search
for a head's prime finds one. That is Bertrand's postulate, which is not proved here; TLC
evaluates it for the heads of the small model. TLC finds `IInv` true in the states of the run
`tables`.

### The quantization methods

`Checkpoint_proofs` proves, for any modules, formats, number of tensors stored otherwise, order
of the file, group size and form of the exclusions, that a module's method fits its tensors
(`MethodsFit`), that a packed layer whose shards disagree is not built (`Disagreement`), and that
nothing is refused without a reason (`Refusals`).

The state is the lesser part of it. `QuantIInv` says that the file is well formed (`FileInv`),
that target and draft model have their own configurations (`ConfigInv`), and that the methods
are what these give (`MethodsInv`), so that a module's method does not depend on what was built
before it (`QuantInvariant`). The argument is about one module and its configuration:

1. The listing of a configuration has an entry for each quantized tensor, under its renamed
   name for the target and its own for the draft model, in the order of the file
   (`ListingFacts`, `ConfigListing`); so the first entry found is that of some tensor, whatever
   the order (`FirstAtFacts`).
2. Of the five searches of `_resolve_quant_algo`, those before the one that finds a module's own
   tensors find nothing. A module that is not packed finds one of its own tensors at or below
   its name, before it would ask its neighbours (`ResolvePlain`). A packed one finds what its
   shards agree on, below exactly one of the parents it tries (`ResolvePacked`).
3. ModelOpt's list of exclusions is cut in two: the trees, none of whose tensors is quantized,
   and the names of the other unquantized tensors (`ListOfExcluded`). A pattern hits a module
   only if it stands for an unquantized tensor of that module or a tree around it (`HitByOwn`),
   and every unquantized tensor leaves such a pattern (`OwnHits`), or a shard's name
   (`ShardSkipped`). So `is_layer_excluded` says yes, no, or raises as all, none or some of a
   module's shards are unquantized (`ExcludedFacts`).
4. A mixed configuration lists an NVFP4 tensor if a module needs the group size, and all such
   entries have the checkpoint's (`GroupFacts`).

Assumption: `QuantAssumption` (types and formats; `FP8_PER_CHANNEL_PER_TOKEN` is none of them).
The three theorems have a hypothesis, `NamesKeepModulesApart`, which says what the code takes for
granted about the names of a model and its checkpoint. It restricts no format, order, group
size or exclusion; it says of each module that

* its kind can be told from its name, and only linear layers are packed (`KindsFit`);
* its candidates are prefixes of its own tensors' keys and of no others, and if it is packed,
  its shards lie below one of the parents and nobody else's tensor is called like a shard
  (`KeysFit`);
* a tensor's name, used as a pattern, excludes the tensor's own module and no other, and the
  shards of a packed layer have different names (`NamesFit`);
* a tree that is excluded by a wildcard has all tensors of a module or none, and the pattern
  survives the renaming (`TreesFit`).

So the theorems divide the work: for a given model it is enough to check its names, once,
instead of all the files in which its checkpoint could come. TLC makes that check for the names
of the run `quant`, as the invariant `BuiltModulesApart`: the names go through the code's own
`Candidates`, `Mapped`, `Split` and `Renumbered`, and it fails when one of them is wrong. TLC
finds `QuantIInv` true in the states of that run, too, and both for a model with attention layers
of three shards in the target and in the draft model. `KeysFit` is false of a draft model with
two MTP layers: `_quantized_layer_prefix_candidates` looks every MTP layer up at index 0 too
(`modelopt_patched.py:2436-2441`, "MTP has exactly one local layer").

### The n-grams

`NGram_proofs` proves, for every number of requests, size of n-grams, cut into batches, padding
and content of the workspace, that a batch hashes for each of its tokens the n-gram of the
token's place in its own request (`GramOfToken`), and that this holds after every sequence of
forwards (`OwnNGramsTheorem`). The state matters little, `IInv` adds only the types of the
counters; the argument is about one forward:

1. `query_start_loc` increases (`StartMonotone`), so the number of starts up to a position is the
   request whose tokens lie there, requests without tokens skipped (`RequestFound`), and the
   last one behind them all (`PaddingFound`).
2. The rows are wide enough for every request, in the process as on the GPU (`WideEnough`), so
   the clamp of the columns never moves a token (`TokenPlace`).
3. Exactly one position is scattered to the place of a token (`ScatteredOnce`): padding stays
   out of the narrow rows of the process, and in the static rows of the GPU it comes behind
   the last request's tokens.
4. With the context before it a row is a stretch of the request's tokens (`RowIsStretch`), and
   the segment position says how far back it is free of an EOS (`SegmentIsOpen`).

Assumption: `NGramAssumption` (types).

### The shim

`Shim_proofs` proves, for any runs, items, limits and faults of the server, that at most one
handler reads the limit and a lock that is held is held by a handler at work on it
(`LockTheorem`). If a server that is started again has the limit it had (`~NewLimits`), no item
is scored as wrong because the server was set up wrong (`RefusalsTheorem`), and whatever
counts toward the stop rule had an unhealthy server behind it (`InputsTheorem`). Needed for
them are that the limit read once is still the server's and that a handler that got past the
comparison has one that is large enough (`LimitInv`), that a request knows of every trouble
since it was posted (`TroubleInv`), and that a stopped run asks nothing more (`StreakInv`).
Without `~NewLimits` both are false, see Findings.

### Recursion

`HeadOffset`, `query_start_loc`, `1 << i` and `RowsBefore` are recursive functions over
`0 .. n`, and so is the library's `FlattenSeq`, by which `AllTensors` and `quantized_layers` are
built. That such a function exists is proved by its least counterexample: `LeastNat`, from the
well-foundedness of `<`, gives the least `n` without one, and the function for `n - 1` is extended
by one value. Sums and monotonicity are proved in the same way.

### Only model-checked

* Liveness: `EveryForwardFinishes`, the leads-to properties of `PleLifecycle` and `Shim`, which
  TLAPS cannot prove under fairness.
* `BuiltModulesApart`, that is `NamesKeepModulesApart` of the modules built: a finite check of
  given names. For those of a real checkpoint it is left to the reader.
* That primes are found (`PrimesAssumption`).

## 5. Findings

* `tables_missing`: `worker.py:478` promises an error when not all parameters are
  loaded, but `load_weights` reports a parameter as loaded with its first part: a
  checkpoint that lacks a part passes, and its rows stay what `torch.empty` left.

Disagreements that the modules show when a constant or an assumption is changed, and that
are no runs:

* `PleOffload` with CPU inputs and run-ahead: `connector.py:448-451` says the next request
  is only sent after the previous forward completed on the model stream.
  `_copy_cuda_inputs` makes that so; `_copy_cpu_inputs` (line 299) does not, and leaves it
  to the runner: `CopiesFindBufferFree` fails.
* `Qsa` with `RingSize = Ratio` and drafts: the comment at `qsa_ops_patched.py:1091-1092` says
  that the ring is wider than one group so that drafts cannot alias onto committed keys, but
  the check accepts a ring of one group: `GroupsAreHistory` fails.
* `PleLifecycle` with an owner that crashes early: `worker.py:259` logs "Parent exited,
  shutting down.", but `accept_registrations` blocks in `recv` (line 575) and never reads
  the event; the process stays, with its tables.
* `Shim` with servers of different limits: the answer for a limit that is too small says to
  restart vLLM with a larger one (`typesafe_native_shim.py:322-323`), but the limit is read
  once (line 97), so the shim must be restarted too: `InputsNeverStopARun` fails.
* `Quant` without `Served`: a linear layer that a mixed checkpoint lists as `FP8_PB_WO` gets
  `UnquantizedLinearMethod` under the comment "Layer not in quantized_layers"
  (`modelopt_patched.py:2475`), while the comment at lines 2490-2492 says that
  `ModelOptFp8PbWoLinearMethod` handles it. `MethodsFitTheCheckpoint` fails.
* `Quant` with a PLE table excluded shard by shard: the `ModelOptNvFp4Config` branch of
  `_get_ple_embedding_quant_method` does not look for shard names, as the `Fp8Config` branch
  does (`ple_layer_patched.py:439`), and selects NVFP4.

## 6. Not modelled

Floating-point and Triton arithmetic; what a log line says; the dead request thread
(`ple_offload/connector.py:255-287`), which nothing starts; the semaphores of the patched
`ple_offload_layer.py:86-129`, which are no-ops; tensor set-up that runs once
(`_setup_layers`, `_init_offload_distributed`, the argument checks of
`_validate_input_sources`); start, registration and loading of the original process;
discovery of the PLE layers and dummy weights; packed files of the right size with other
contents; the rows that graph padding routes to the null slot of the convolution; the
layout of the shim's prompt and how it reads a distribution from the letters; the renaming
of the draft model's weights and the shards of a pipeline; the methods' kernels, KV-cache
quantization, `FP8_PER_CHANNEL_PER_TOKEN`, and experts whose tensors disagree, which take
the format of the first listed.

## 7. Plan

1. `Shim`: the readout of an answer from the letters' probabilities.
2. `Quant`: the tensors of a draft module computed by `_remap_mtp_weight_name`.
