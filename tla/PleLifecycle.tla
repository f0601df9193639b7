---------------------------- MODULE PleLifecycle ----------------------------
(***************************************************************************)
(* Start, service and end of the PLE offload process (worker.py) and of    *)
(* the connectors of the GPU workers it serves (connector.py).             *)
(*                                                                         *)
(* One GPU worker, the owner, spawns the process and keeps its handle: a   *)
(* ready pipe to read from and a death pipe whose only message is that it  *)
(* was closed.  Every worker's connector registers its buffers through a   *)
(* PUSH socket; when all have, the process says READY and serves requests  *)
(* from the same socket.  Workers, the owner and the process may fail or   *)
(* be killed at any point.  What a request does is PleOffload's subject.   *)
(*                                                                         *)
(* The order in which a worker uses these classes (connector, then         *)
(* wait_for_ready, then requests; handle.close at the end) is the          *)
(* runner's, which is not part of the repository.                          *)
(***************************************************************************)
EXTENDS Integers, FiniteSets, Sequences, Functions

CONSTANTS
  Workers,   \* GPU workers that construct a connector
  Owner,     \* the worker that spawned the process
  DpSize, TpSize, NumWorkers,  \* what the configuration and the spawner say
  Bufs,      \* shared input buffers of a connector
  StartMethods,  \* how the process may be started: "spawn", "fork"
  Faults     \* subset of FaultKinds

FaultKinds == {"weights", "init", "crash", "killed", "stuck", "timeout"}

ASSUME LifecycleAssumption ==
  /\ Owner \in Workers /\ IsFiniteSet(Workers)
  /\ DpSize \in Nat \ {0} /\ TpSize \in Nat \ {0} /\ NumWorkers \in Nat
  /\ StartMethods \subseteq {"spawn", "fork"} /\ Faults \subseteq FaultKinds

DpRanks == 0 .. (DpSize - 1)
TpRanks == 0 .. (TpSize - 1)

VARIABLES
  (* the connector of each GPU worker *)
  rank,    \* <<dp_rank, tp_rank>>
  fits,    \* its layers are the CPU model's layers
  conn,    \* "new", "connected", "registered", "open", "closed", "failed", "crashed"
  moved,   \* its buffers' storage has been replaced by the pickler
  pins,    \* page-locked <<buffer, storage>>: storage is moved's value
  asking,  \* it waits for an answer
  net,     \* messages sent to the PULL socket: <<kind, worker>>
  (* the offload process *)
  child,   \* "none", "loading", "registering", "serving", "stuck", "dead"
  regs,    \* registrations received, in order
  event,   \* shutdown_event
  (* the handle *)
  ready,   \* what the ready pipe holds: "nothing", "READY" or "FAILURE"
  owner,   \* state of the owner
  reader,  \* the owner's end of the ready pipe is open
  writers  \* who holds a writing end of the death pipe

connVars  == <<rank, fits, conn, moved, pins, asking, net>>
childVars == <<child, regs, event>>
ownerVars == <<owner, reader, writers>>
vars == <<connVars, childVars, ready, ownerVars>>

Init ==
  /\ rank \in [Workers -> DpRanks \X TpRanks]
  /\ fits \in [Workers -> BOOLEAN]
  /\ conn = [w \in Workers |-> "new"]
  /\ moved = [w \in Workers |-> FALSE]
  /\ pins = [w \in Workers |-> {}]
  /\ asking = {} /\ net = {}
  /\ child = "none" /\ regs = <<>> /\ event = FALSE
  /\ ready = "nothing"
  /\ owner = "new" /\ reader = FALSE /\ writers = {}

IsSource(w) == rank[w][2] = 0

-----------------------------------------------------------------------------
(* The connector.                                                          *)

(* __init__ up to the connected registration socket. *)
Connect(w) ==
  /\ conn[w] = "new"
  /\ w = Owner => owner = "spawned"
  /\ conn' = [conn EXCEPT ![w] = "connected"]
  /\ UNCHANGED <<rank, fits, moved, pins, asking, net, childVars, ready, ownerVars>>

(* _register_with_offload_worker: pickling may replace the CPU storage.    *)
Register(w) ==
  /\ conn[w] = "connected"
  /\ conn'  = [conn EXCEPT ![w] = "registered"]
  /\ moved' = [moved EXCEPT ![w] = TRUE]
  /\ net'   = net \cup {<<"registration", w>>}
  /\ UNCHANGED <<rank, fits, pins, asking, childVars, ready, ownerVars>>

Pinned(w) == {p[1] : p \in pins[w]}

(* Mutant: the buffers are registered with CUDA before they are sent. *)
PinEarly(w) ==
  /\ conn[w] \in {"connected", "registered"} /\ IsSource(w)
  /\ \E b \in Bufs \ Pinned(w) :
       pins' = [pins EXCEPT ![w] = @ \cup {<<b, moved[w]>>}]
  /\ UNCHANGED <<rank, fits, conn, moved, asking, net, childVars, ready, ownerVars>>

(* One turn of _pin_input_buffers' loop. *)
Pin(w) ==
  /\ conn[w] = "registered" /\ IsSource(w)
  /\ \E b \in Bufs \ Pinned(w) :
       pins' = [pins EXCEPT ![w] = @ \cup {<<b, moved[w]>>}]
  /\ UNCHANGED <<rank, fits, conn, moved, asking, net, childVars, ready, ownerVars>>

(* The end of __init__: TP rank 0 has its request socket.                  *)
Open(w) ==
  /\ conn[w] = "registered"
  /\ IsSource(w) => Pinned(w) = Bufs
  /\ conn' = [conn EXCEPT ![w] = "open"]
  /\ UNCHANGED <<rank, fits, moved, pins, asking, net, childVars, ready, ownerVars>>

(* The process has bound its socket: messages may have left the sender.    *)
Bound == child \in {"registering", "serving", "stuck"}

(* Closing a socket with linger=0 drops what it has not transmitted.       *)
DropUnsent(w) ==
  \E lost \in SUBSET {m \in net : m[2] = w} :
    /\ ~Bound => lost = {m \in net : m[2] = w}
    /\ net' = net \ lost

(* A failure in the try block of __init__: close and re-raise.             *)
InitFails(w) ==
  /\ "init" \in Faults
  /\ conn[w] \in {"connected", "registered"}
  /\ conn' = [conn EXCEPT ![w] = "failed"]
  /\ pins' = [pins EXCEPT ![w] = {}]
  /\ DropUnsent(w)
  /\ UNCHANGED <<rank, fits, moved, asking, childVars, ready, ownerVars>>

(* close() of an open connector, called by its own model thread.           *)
Close(w) ==
  /\ conn[w] = "open" /\ w \notin asking
  /\ w = Owner => owner \in {"ready", "raised", "closed"}
  /\ conn' = [conn EXCEPT ![w] = "closed"]
  /\ pins' = [pins EXCEPT ![w] = {}]
  /\ DropUnsent(w)
  /\ UNCHANGED <<rank, fits, moved, asking, childVars, ready, ownerVars>>

(* The engine runs once every worker is set up and the owner saw READY.    *)
EngineRuns == owner = "ready" /\ \A w \in Workers : conn[w] = "open"

(* A request of a data-parallel rank, and the wait for its answer.         *)
Ask(w) ==
  /\ EngineRuns /\ IsSource(w) /\ w \notin asking
  /\ asking' = asking \cup {w}
  /\ net' = net \cup {<<"request", w>>}
  /\ UNCHANGED <<rank, fits, conn, moved, pins, childVars, ready, ownerVars>>

(* A worker is killed: the system takes its sockets, pins and pipes.       *)
Crash(w) ==
  /\ "crash" \in Faults
  /\ conn[w] # "crashed"
  /\ w = Owner => owner # "new"
  /\ conn' = [conn EXCEPT ![w] = "crashed"]
  /\ pins' = [pins EXCEPT ![w] = {}]
  /\ asking' = asking \ {w}
  /\ DropUnsent(w)
  /\ IF w = Owner THEN owner' = "crashed" /\ reader' = FALSE /\ writers' = writers \ {"owner"}
     ELSE UNCHANGED ownerVars
  /\ UNCHANGED <<rank, fits, moved, childVars, ready>>

ConnectorStep(w) == Connect(w) \/ Register(w) \/ Pin(w) \/ Open(w)

-----------------------------------------------------------------------------
(* The offload process.                                                    *)

Alive == child \notin {"none", "dead"}

(* proc_main's except and finally: a failure is reported until READY was.  *)
Die ==
  /\ child' = "dead"
  /\ ready' = IF child \in {"loading", "registering"} /\ reader THEN "FAILURE" ELSE ready

(* Mutant: READY is sent before the registrations are accepted. *)
FinishLoadingReady ==
  /\ child = "loading"
  /\ child' = "registering"
  /\ ready' = "READY"
  /\ UNCHANGED <<connVars, regs, event, ownerVars>>

(* PleOffloadRunner.__init__ returns and the socket is bound.              *)
FinishLoading ==
  /\ child = "loading"
  /\ child' = "registering"
  /\ UNCHANGED <<connVars, regs, event, ready, ownerVars>>

LoadingFails ==
  /\ "weights" \in Faults
  /\ child = "loading"
  /\ Die
  /\ UNCHANGED <<connVars, regs, event, ownerVars>>

(* A turn of accept_registrations' loop: any message is unpickled, and     *)
(* anything but a registration is an error.  shutdown_event is not read.   *)
Accept(m) ==
  /\ child = "registering" /\ Len(regs) < NumWorkers
  /\ m \in net
  /\ net' = net \ {m}
  /\ IF m[1] = "registration"
     THEN regs' = Append(regs, m[2]) /\ UNCHANGED <<child, ready>>
     ELSE Die /\ UNCHANGED regs
  /\ UNCHANGED <<rank, fits, conn, moved, pins, asking, event, ownerVars>>

Registered == Range(regs)

(* Mutant: the registrations are only counted. *)
RegistrationsCounted ==
  /\ NumWorkers = DpSize * TpSize
  /\ \A w \in Registered : fits[w]

(* The checks of accept_registrations. *)
RegistrationsValid ==
  /\ NumWorkers = DpSize * TpSize
  /\ {rank[w][1] : w \in Registered} = DpRanks
  /\ \A d \in DpRanks : {rank[w][2] : w \in {v \in Registered : rank[v][1] = d}} = TpRanks
  /\ \A w \in Registered : fits[w]

(* The last registration is in: check them all, tell the parent, serve.    *)
(* Sending READY into a pipe nobody reads any more fails.                  *)
FinishRegistering ==
  /\ child = "registering" /\ Len(regs) = NumWorkers
  /\ IF RegistrationsValid /\ reader
     THEN child' = "serving" /\ ready' = "READY"
     ELSE Die
  /\ UNCHANGED <<connVars, regs, event, ownerVars>>

(* Mutant: what else was drained with a request is forgotten. *)
ServeFirst ==
  /\ child = "serving" /\ ~event /\ net # {}
  /\ net' = {}
  /\ \E m \in net : asking' = asking \ {m[2]}
  /\ UNCHANGED <<rank, fits, conn, moved, pins, childVars, ready, ownerVars>>

(* A turn of busy_loop: drain the socket, decode, serve.  A registration   *)
(* does not decode.                                                        *)
Serve ==
  /\ child = "serving" /\ ~event /\ net # {}
  /\ net' = {}
  /\ IF \A m \in net : m[1] = "request"
     THEN asking' = asking \ {m[2] : m \in net} /\ UNCHANGED <<child, ready>>
     ELSE Die /\ UNCHANGED asking
  /\ UNCHANGED <<rank, fits, conn, moved, pins, regs, event, ownerVars>>

(* Mutant: busy_loop does not read shutdown_event. *)
LeaveNever ==
  FALSE /\ UNCHANGED vars

(* busy_loop sees shutdown_event between two batches. *)
Leave ==
  /\ child = "serving" /\ event
  /\ Die
  /\ UNCHANGED <<connVars, regs, event, ownerVars>>

(* monitor_parent: the read of the death pipe ends when no process holds   *)
(* its writing end.                                                        *)
ParentGone ==
  /\ Alive /\ ~event
  /\ writers = {}
  /\ event' = TRUE
  /\ UNCHANGED <<connVars, child, regs, ready, ownerVars>>

(* The system kills it, without a word. *)
Killed ==
  /\ "killed" \in Faults
  /\ Alive
  /\ child' = "dead"
  /\ UNCHANGED <<connVars, regs, event, ready, ownerVars>>

(* It hangs in a call that returns to no Python code. *)
Hang ==
  /\ "stuck" \in Faults
  /\ child \in {"loading", "registering", "serving"}
  /\ child' = "stuck"
  /\ UNCHANGED <<connVars, regs, event, ready, ownerVars>>

ChildStep ==
  \/ FinishLoading
  \/ FinishRegistering
  \/ \E m \in net : Accept(m)
  \/ Serve
  \/ Leave

-----------------------------------------------------------------------------
(* The owner and its handle.                                               *)

(* make_process: a forked process inherits the death pipe's writing end.   *)
Spawn ==
  /\ owner = "new"
  /\ owner' = "spawned" /\ reader' = TRUE
  /\ \E method \in StartMethods :
       writers' = {"owner"} \cup (IF method = "fork" THEN {"child"} ELSE {})
  /\ child' = "loading"
  /\ UNCHANGED <<connVars, regs, event, ready>>

(* The owner's own connector is up, or its constructor raised. *)
StartWaiting ==
  /\ owner = "spawned" /\ conn[Owner] \in {"open", "failed"}
  /\ owner' = IF conn[Owner] = "open" THEN "waiting" ELSE "raised"
  /\ UNCHANGED <<connVars, childVars, ready, reader, writers>>

(* Mutant: make_process keeps its writing end, so the pipe never ends. *)
ReadReadyHeld ==
  /\ owner = "waiting"
  /\ ready # "nothing"
  /\ owner' = IF ready = "READY" THEN "ready" ELSE "raised"
  /\ reader' = FALSE
  /\ UNCHANGED <<connVars, childVars, ready, writers>>

(* wait_for_ready reads a message, or the end of the pipe: READY's sender  *)
(* closes it, and so does the end of the process.                          *)
ReadReady ==
  /\ owner = "waiting"
  /\ ready # "nothing" \/ ~Alive
  /\ owner' = IF ready = "READY" THEN "ready" ELSE "raised"
  /\ reader' = FALSE
  /\ UNCHANGED <<connVars, childVars, ready, writers>>

(* poll runs into VLLM_PLE_OFFLOAD_READY_TIMEOUT; the reader stays open.   *)
ReadyTimesOut ==
  /\ "timeout" \in Faults
  /\ owner = "waiting"
  /\ owner' = "raised"
  /\ UNCHANGED <<connVars, childVars, ready, reader, writers>>

(* handle.close: close both pipe ends, then join the process ...           *)
StartClose ==
  /\ owner \in {"ready", "raised"}
  /\ owner' = "joining" /\ reader' = FALSE /\ writers' = writers \ {"owner"}
  /\ UNCHANGED <<connVars, childVars, ready>>

(* ... which returns once it is dead ... *)
Joined ==
  /\ owner \in {"joining", "terminating", "killing"} /\ ~Alive
  /\ owner' = "closed"
  /\ UNCHANGED <<connVars, childVars, ready, reader, writers>>

(* ... or after 5 s: SIGTERM, whose handler sets shutdown_event ... *)
Terminate ==
  /\ owner = "joining" /\ Alive
  /\ owner' = "terminating"
  /\ event' = (event \/ child # "stuck")
  /\ UNCHANGED <<connVars, child, regs, ready, reader, writers>>

(* Mutant: close has no final fallback. *)
NeverKill ==
  /\ owner = "terminating" /\ Alive
  /\ owner' = "killing"
  /\ UNCHANGED <<connVars, childVars, ready, reader, writers>>

(* ... and after 5 s more SIGKILL.                                         *)
Kill ==
  /\ owner = "terminating" /\ Alive
  /\ owner' = "killing" /\ child' = "dead"
  /\ UNCHANGED <<connVars, regs, event, ready, reader, writers>>

OwnerStep == Spawn \/ StartWaiting \/ ReadReady \/ Joined \/ Terminate \/ Kill

-----------------------------------------------------------------------------

(* Nothing is left to do once the owner has closed or lost its handle. *)
Ended ==
  /\ owner \in {"closed", "crashed"} /\ child = "dead"
  /\ UNCHANGED vars

Next ==
  \/ \E w \in Workers : ConnectorStep(w) \/ InitFails(w) \/ Close(w) \/ Ask(w) \/ Crash(w)
  \/ ChildStep \/ LoadingFails \/ ParentGone \/ Killed \/ Hang
  \/ OwnerStep \/ ReadyTimesOut \/ StartClose
  \/ Ended

Spec == Init /\ [][Next]_vars

(***************************************************************************)
(* Running processes run; nobody has to fail, ask, or end the engine.  A   *)
(* death-pipe read and the joins' deadlines do not depend on anyone.       *)
(***************************************************************************)
Fairness ==
  /\ \A w \in Workers : WF_vars(ConnectorStep(w))
  /\ WF_vars(ChildStep) /\ WF_vars(ParentGone)
  /\ WF_vars(OwnerStep)

FairSpec == Spec /\ Fairness

-----------------------------------------------------------------------------
(* Properties.                                                             *)

(***************************************************************************)
(* READY means that the process can serve every rank: each (dp, tp) pair   *)
(* has exactly one registered target, with the model's layers, whatever    *)
(* ranks and layers the workers came with.                                 *)
(***************************************************************************)
ReadyMeansRoutable ==
  ready = "READY" =>
    /\ \A d \in DpRanks, t \in TpRanks :
         Cardinality({i \in DOMAIN regs : rank[regs[i]] = <<d, t>>}) = 1
    /\ \A w \in Registered : fits[w]

(***************************************************************************)
(* Registrations and requests share a socket but are decoded by the phase  *)
(* the process is in: neither kind is ever in flight in the other's phase, *)
(* so no message ends the process.                                         *)
(***************************************************************************)
MessagesMatchPhase ==
  /\ child = "registering" => \A m \in net : m[1] = "registration"
  /\ child = "serving" => \A m \in net : m[1] = "request"

(***************************************************************************)
(* CUDA page-locks the storage the offload process maps, never the one     *)
(* the pickler replaced, and a connector that was closed, or whose         *)
(* constructor failed half-way, leaves nothing page-locked.                *)
(***************************************************************************)
PinsAreShared ==
  \A w \in Workers :
    /\ \A p \in pins[w] : p[2] = moved[w]
    /\ conn[w] \in {"closed", "failed", "crashed"} => pins[w] = {}

(***************************************************************************)
(* A process that fails before it is ready is noticed: wait_for_ready      *)
(* raises, by the message or by the end of the pipe, without running into  *)
(* its timeout.                                                            *)
(***************************************************************************)
FailedStartIsNoticed ==
  owner = "waiting" /\ child = "dead" ~> owner # "waiting"

(***************************************************************************)
(* handle.close returns, and then the process is gone, whether it was      *)
(* loading, waiting for registrations, serving or stuck.                   *)
(***************************************************************************)
CloseEndsChild ==
  /\ owner = "joining" ~> owner \in {"closed", "crashed"}
  /\ [](owner = "closed" => ~Alive)

(***************************************************************************)
(* A process that serves does not outlive its owner: killed or closed, the *)
(* owner takes it along, unless it hangs or holds the death pipe itself.   *)
(***************************************************************************)
ServerFollowsOwner ==
  child = "serving" /\ owner \in {"crashed", "closed"} /\ "child" \notin writers
    ~> child \in {"dead", "stuck"}

(***************************************************************************)
(* A request is answered unless the process ended or hangs in a call.      *)
(***************************************************************************)
RequestsAnswered ==
  \A w \in Workers : w \in asking ~> w \notin asking \/ child \in {"dead", "stuck"}

=============================================================================
