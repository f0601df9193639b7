--------------------------- MODULE PleLifecycleInv ---------------------------
(***************************************************************************)
(* The inductive invariant of PleLifecycle: why READY is never said of a   *)
(* process that could not serve a rank, and why no message arrives in a    *)
(* phase that cannot decode it.                                            *)
(*                                                                         *)
(* Each worker registers once, and what was received is no longer in the   *)
(* socket (RegsInv).  When as many registrations as workers are in, nobody *)
(* is left to send another; and requests come from an engine that runs     *)
(* only after READY (PhaseInv).                                            *)
(***************************************************************************)
EXTENDS PleLifecycle

(* The spawner counts the workers right. *)
ASSUME CrewAssumption == Cardinality(Workers) = NumWorkers

(* Types. *)
TypeOK ==
  /\ rank \in [Workers -> DpRanks \X TpRanks]
  /\ fits \in [Workers -> BOOLEAN]
  /\ conn \in [Workers -> {"new", "connected", "registered", "open", "closed", "failed", "crashed"}]
  /\ moved \in [Workers -> BOOLEAN]
  /\ pins \in [Workers -> SUBSET (Bufs \X BOOLEAN)]
  /\ asking \subseteq Workers
  /\ net \subseteq {"registration", "request"} \X Workers
  /\ child \in {"none", "loading", "registering", "serving", "stuck", "dead"}
  /\ regs \in Seq(Workers)
  /\ event \in BOOLEAN
  /\ ready \in {"nothing", "READY", "FAILURE"}
  /\ owner \in {"new", "spawned", "waiting", "ready", "raised", "joining", "terminating",
                "killing", "closed", "crashed"}
  /\ reader \in BOOLEAN /\ writers \subseteq {"owner", "child"}

(* Pages are locked in the storage the process maps, by a connector that is alive. *)
PinsInv ==
  \A w \in Workers :
    /\ \A p \in pins[w] : p[2] = moved[w]
    /\ conn[w] \notin {"registered", "open"} => pins[w] = {}

HasSent(w) == conn[w] \notin {"new", "connected"}

(* A registration is sent once: it is in the socket, or in the list, or lost. *)
RegsInv ==
  /\ \A i, j \in DOMAIN regs : regs[i] = regs[j] => i = j
  /\ \A i \in DOMAIN regs : HasSent(regs[i]) /\ <<"registration", regs[i]>> \notin net
  /\ \A w \in Workers : <<"registration", w>> \in net => HasSent(w)

(* What the owner, the pipe and the socket know of the phase of the process. *)
PhaseInv ==
  /\ owner = "new" => child = "none"
  /\ child \in {"none", "loading", "registering"} => ready # "READY"
  /\ child = "serving" => ready = "READY"
  /\ ready = "READY" => RegistrationsValid /\ Len(regs) = NumWorkers
  /\ owner = "ready" => ready = "READY"
  /\ (\E w \in Workers : <<"request", w>> \in net) => ready = "READY"
  /\ owner = "closed" => child = "dead"
  /\ owner \in {"joining", "terminating", "killing"} => child # "none"
  /\ owner \in {"ready", "raised", "waiting", "spawned"} => child # "none"

IInv == TypeOK /\ PinsInv /\ RegsInv /\ PhaseInv

=============================================================================
