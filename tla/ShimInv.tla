------------------------------- MODULE ShimInv -------------------------------
(***************************************************************************)
(* The inductive invariant of Shim: why an answer never says more than the *)
(* server's state justifies, although the handler that gives it has looked *)
(* at the server at up to three different moments.                         *)
(*                                                                         *)
(* The lock is held by the one handler that reads the limit, and only      *)
(* while there is none (LockInv); what a handler has checked remains so    *)
(* until it has its answer, as the limit is read once and a server that is *)
(* started again has the same (LimitInv); and a request remembers a server *)
(* that was not healthy (TroubleInv).                                      *)
(***************************************************************************)
EXTENDS Shim

(* Types. *)
TypeOK ==
  /\ server \in Servers /\ changes \in 0 .. MaxChanges
  /\ context \in Limits \cup {None} /\ lock \in Runs \cup {None}
  /\ pc \in [Runs -> {"idle", "locking", "reading", "checking", "asking", "sending"}]
  /\ item \in [Runs -> Items \cup {NoItem}]
  /\ reply \in [Runs -> {0, 200, 400, 401, 422, 500, 502, 503}]
  /\ trouble \in [Runs -> BOOLEAN]
  /\ left \in [Runs -> 0 .. MaxItems] /\ streak \in [Runs -> 0 .. 3]

(* The handler that holds the lock is the one that reads, for want of a limit. *)
LockInv ==
  \A r \in Runs :
    /\ pc[r] = "reading" <=> lock = r
    /\ pc[r] = "reading" => context = None

(* A run that is stopped asks nothing more. *)
StreakInv == \A r \in Runs : streak[r] = 3 => pc[r] = "idle"

(* A handler past the lock has a limit, and past the comparison a fit one. *)
LimitInv ==
  /\ context \in {None, server.limit}
  /\ \A r \in Runs :
       /\ pc[r] \in {"checking", "asking"} => context # None
       /\ pc[r] = "asking" => context >= MinContext

(* A request that is being served knows of a server that is not healthy. *)
TroubleInv == \A r \in Runs : pc[r] # "idle" /\ ~Healthy(server) => trouble[r]

IInv ==
  /\ TypeOK /\ LockInv /\ StreakInv /\ LimitInv /\ TroubleInv
  /\ RefusalsAreDeserved /\ InputsNeverStopARun

=============================================================================
