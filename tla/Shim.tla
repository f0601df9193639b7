-------------------------------- MODULE Shim --------------------------------
(***************************************************************************)
(* The readout shim (typesafe_native_shim.py): a threaded HTTP server      *)
(* between the runs of a benchmark and a vLLM server.                      *)
(*                                                                         *)
(* The status code of an answer is the contract with a run: 422 scores the *)
(* item as wrong and goes on, 401, 403 and 429 stop the run at once, three *)
(* other failures in a row stop it.  Handlers share the context limit that *)
(* was read from the server, under a lock that is held while reading it.   *)
(*                                                                         *)
(* Lengths and limits are small numbers that stand for tokens.  A run has  *)
(* one request at a time, so a handler is named by its run.  How the       *)
(* answer's distribution is read from the letters is left out.             *)
(***************************************************************************)
EXTENDS Integers

CONSTANTS
  Runs,
  MaxItems,      \* bound on the items of a run
  Lengths,       \* of prompts
  Limits,        \* values of --max-model-len
  MinContext,    \* SHIM_MIN_CONTEXT
  NewLimits,     \* a restarted server may have another limit
  MaxChanges,    \* bound on the changes of the server
  None           \* no limit read, no holder of the lock

ASSUME ShimAssumption ==
  /\ MaxItems \in Nat /\ MaxChanges \in Nat /\ MinContext \in Nat
  /\ Lengths \subseteq Nat /\ Limits \subseteq Nat
  /\ NewLimits \in BOOLEAN
  /\ None \notin Limits /\ None \notin Runs

Items == [length : Lengths, form : {"good", "options", "body"}]

VARIABLES
  server,   \* [status, limit]: the vLLM server
  changes,  \* how often it changed
  context,  \* _server_context
  lock,     \* holder of _context_lock
  pc,       \* of the handler of a run: "idle", "locking", "reading", "checking", "asking", "sending"
  item,     \* the item of its request
  reply,    \* the status code of its answer, 0 before there is one
  trouble,  \* the server has not been healthy all through its request
  left,     \* items a run has yet to ask
  streak    \* its failures in a row; 3 when it is stopped

serverVars == <<server, changes>>
runVars    == <<left, streak>>
vars == <<serverVars, context, lock, pc, item, reply, trouble, runVars>>

(* "up" answers requests for its model; the others do not list it, report  *)
(* no limit for it, answer with errors, or do not answer.                  *)
Servers == [status : {"up", "unlisted", "unlimited", "failing", "down"}, limit : Limits]

Healthy(s) == s.status = "up" /\ s.limit >= MinContext

NoItem == [length |-> 0, form |-> "none"]

Init ==
  /\ server \in Servers /\ changes = 0
  /\ context = None /\ lock = None
  /\ pc = [r \in Runs |-> "idle"]
  /\ item = [r \in Runs |-> NoItem]
  /\ reply = [r \in Runs |-> 0] /\ trouble = [r \in Runs |-> FALSE]
  /\ left = [r \in Runs |-> MaxItems] /\ streak = [r \in Runs |-> 0]

-----------------------------------------------------------------------------
(* What an exchange with the server may come to: an answer, an HTTP error, *)
(* no readable answer at all, or one whose body ends early.                *)

Failures ==
  CASE server.status = "failing" -> {"denied", "error", "unreachable"}
    [] server.status = "down"    -> {"unreachable", "cut"}
    [] OTHER                     -> {}

(* A model the server does not list is an error; a prompt that does not    *)
(* fit is refused by a 400 or a 413.                                       *)
ChatExchanges(r) ==
  CASE Failures # {}                        -> Failures \cup {"no letters"}
    [] server.status = "unlisted"           -> {"error"}
    [] item[r].length > server.limit        -> {"too long", "too large"}
    [] OTHER                                -> {"answer"}

(* The status code of an exchange that failed.  A body that ends early     *)
(* raises an http.client exception that neither handler names.             *)
Failure(exchange) ==
  CASE exchange = "denied" -> 401
    [] exchange = "cut"    -> 500
    [] OTHER               -> 502

(* Mutant: a refused prompt is an error like any other. *)
ChatStatusAlike(exchange) ==
  IF exchange = "answer" THEN 200 ELSE Failure(exchange)

(* call_vllm, answer_for *)
ChatStatus(exchange) ==
  CASE exchange = "answer" -> 200
    [] exchange \in {"too long", "too large"} -> 422
    [] OTHER -> Failure(exchange)

-----------------------------------------------------------------------------
(* do_POST                                                                 *)

Send(r, code) ==
  /\ pc'    = [pc EXCEPT ![r] = "sending"]
  /\ reply' = [reply EXCEPT ![r] = code]

(* The body is parsed. *)
Post(r) ==
  /\ pc[r] = "idle" /\ streak[r] < 3 /\ left[r] > 0
  /\ left' = [left EXCEPT ![r] = @ - 1]
  /\ trouble' = [trouble EXCEPT ![r] = ~Healthy(server)]
  /\ \E i \in Items :
       /\ item' = [item EXCEPT ![r] = i]
       /\ IF i.form = "body"
          THEN Send(r, 400)
          ELSE pc' = [pc EXCEPT ![r] = "locking"] /\ UNCHANGED reply
  /\ UNCHANGED <<serverVars, context, lock, streak>>

(* server_context takes the lock; it is held over a read of the limit.     *)
TakeLock(r) ==
  /\ pc[r] = "locking" /\ lock = None
  /\ IF context = None
     THEN lock' = r /\ pc' = [pc EXCEPT ![r] = "reading"]
     ELSE pc' = [pc EXCEPT ![r] = "checking"] /\ UNCHANGED lock
  /\ UNCHANGED <<serverVars, context, item, reply, trouble, runVars>>

(* Mutant: the limit is read again until there is one. *)
ReadLimitRetried(r) ==
  /\ pc[r] = "reading"
  /\ IF server.status = "up"
     THEN context' = server.limit /\ lock' = None /\ pc' = [pc EXCEPT ![r] = "checking"]
     ELSE UNCHANGED <<context, lock, pc>>
  /\ UNCHANGED <<serverVars, item, reply, trouble, runVars>>

(* It reads the limit from /v1/models; a failure is not remembered.        *)
ReadLimit(r) ==
  /\ pc[r] = "reading" /\ lock' = None
  /\ IF server.status = "up"
     THEN context' = server.limit /\ pc' = [pc EXCEPT ![r] = "checking"] /\ UNCHANGED reply
     ELSE /\ IF Failures = {} THEN Send(r, 503) ELSE \E f \in Failures : Send(r, Failure(f))
          /\ UNCHANGED context
  /\ UNCHANGED <<serverVars, item, trouble, runVars>>

(* Mutant: the limit is read and not compared. *)
CheckNothing(r) ==
  /\ pc[r] = "checking"
  /\ IF item[r].form = "options"
     THEN Send(r, 422)
     ELSE pc' = [pc EXCEPT ![r] = "asking"] /\ UNCHANGED reply
  /\ UNCHANGED <<serverVars, context, lock, item, trouble, runVars>>

(* The limit is compared and the options are laid out.                     *)
Check(r) ==
  /\ pc[r] = "checking"
  /\ IF context < MinContext THEN Send(r, 503)
     ELSE IF item[r].form = "options" THEN Send(r, 422)
     ELSE pc' = [pc EXCEPT ![r] = "asking"] /\ UNCHANGED reply
  /\ UNCHANGED <<serverVars, context, lock, item, trouble, runVars>>

(* The chat request. *)
Chat(r) ==
  /\ pc[r] = "asking"
  /\ \E exchange \in ChatExchanges(r) : Send(r, ChatStatus(exchange))
  /\ UNCHANGED <<serverVars, context, lock, item, trouble, runVars>>

(* The run takes the answer. *)
Receive(r) ==
  /\ pc[r] = "sending"
  /\ pc' = [pc EXCEPT ![r] = "idle"]
  /\ item' = [item EXCEPT ![r] = NoItem] /\ reply' = [reply EXCEPT ![r] = 0]
  /\ streak' = [streak EXCEPT ![r] =
       CASE reply[r] \in {200, 422} -> 0
         [] reply[r] = 401 -> 3
         [] OTHER -> @ + 1]
  /\ UNCHANGED <<serverVars, context, lock, trouble, left>>

(* The server stops, starts, or is started in another way.                 *)
ServerChanges ==
  /\ changes < MaxChanges /\ changes' = changes + 1
  /\ \E s \in Servers :
       /\ s # server /\ (NewLimits \/ s.limit = server.limit)
       /\ server' = s
       /\ trouble' = [r \in Runs |-> trouble[r] \/ ~Healthy(s)]
  /\ UNCHANGED <<context, lock, pc, item, reply, runVars>>

Handle(r) == TakeLock(r) \/ ReadLimit(r) \/ Check(r) \/ Chat(r) \/ Receive(r)

(* Every run has ended. *)
Ended ==
  /\ \A r \in Runs : pc[r] = "idle" /\ (streak[r] = 3 \/ left[r] = 0)
  /\ UNCHANGED vars

Next == (\E r \in Runs : Post(r) \/ Handle(r)) \/ ServerChanges \/ Ended

Spec == Init /\ [][Next]_vars

(* A handler's thread runs, and its exchanges have timeouts.               *)
Fairness == \A r \in Runs : WF_vars(Handle(r))

FairSpec == Spec /\ Fairness

-----------------------------------------------------------------------------
(* Properties.                                                             *)

(***************************************************************************)
(* No item is scored as wrong because the server was set up wrong: it is   *)
(* refused only for its own form, or because it is longer than the         *)
(* smallest limit the readout accepts.                                     *)
(***************************************************************************)
RefusalsAreDeserved ==
  \A r \in Runs :
    pc[r] = "sending" /\ reply[r] = 422 => item[r].form = "options" \/ item[r].length > MinContext

(***************************************************************************)
(* A run is stopped only by its server, never by the items it asks nor by  *)
(* what a server that has recovered did before: every answer that counts   *)
(* toward the stop rule had a server behind it that was not healthy while  *)
(* the request was served.  (A body that is no request is the run's.)      *)
(***************************************************************************)
InputsNeverStopARun ==
  \A r \in Runs :
    pc[r] = "sending" /\ reply[r] \notin {200, 400, 422} => trouble[r]

(***************************************************************************)
(* Every request is answered: the lock is never left behind, whatever the  *)
(* read under it came to, and its waiters get their turn.                  *)
(***************************************************************************)
EveryRequestAnswered == \A r \in Runs : pc[r] = "locking" ~> pc[r] = "idle"

=============================================================================
