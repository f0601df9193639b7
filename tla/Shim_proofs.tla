----------------------------- MODULE Shim_proofs -----------------------------
(* Theorems about Shim, for every value of its constants. *)
EXTENDS ShimInv, TLAPS

(* The invariant without what one limit for all time gives. *)
BaseInv == TypeOK /\ LockInv /\ StreakInv /\ TroubleInv

-----------------------------------------------------------------------------
(* Types, the lock and the trouble, whatever limits the server has.        *)

(* A status code says what became of the exchange. *)
LEMMA StatusOfFailure == \A e : Failure(e) \in {401, 500, 502}
BY DEF Failure

LEMMA StatusOfRefusal ==
  ASSUME NEW e, ChatStatus(e) = 422
  PROVE  e \in {"too long", "too large"}
<1>1. ChatStatus(e) # 200 /\ ChatStatus(e) # Failure(e)
  BY StatusOfFailure
<1>2. ASSUME e = "answer" PROVE FALSE
  <2>1. ChatStatus(e) = 200
    BY <1>2 DEF ChatStatus
  <2> QED
    BY <1>1, <2>1
<1>3. ASSUME e \notin {"answer", "too long", "too large"} PROVE FALSE
  <2>1. ChatStatus(e) = Failure(e)
    BY <1>3 DEF ChatStatus
  <2> QED
    BY <1>1, <2>1
<1> QED
  BY <1>2, <1>3

LEMMA StatusOfSuccess ==
  ASSUME NEW e
  PROVE  /\ e = "answer" => ChatStatus(e) = 200
         /\ e \in {"too long", "too large"} => ChatStatus(e) = 422
<1>1. ASSUME e = "answer" PROVE ChatStatus(e) = 200
  BY <1>1 DEF ChatStatus
<1>2. ASSUME e \in {"too long", "too large"} PROVE ChatStatus(e) = 422
  BY <1>2 DEF ChatStatus
<1> QED
  BY <1>1, <1>2

LEMMA StatusOfError ==
  ASSUME NEW e, ChatStatus(e) \notin {200, 400, 422}
  PROVE  e \notin {"answer", "too long", "too large"}
<1>1. e # "answer"
  BY StatusOfSuccess
<1>2. e # "too long" /\ e # "too large"
  BY StatusOfSuccess
<1> QED
  BY <1>1, <1>2

LEMMA StatusTypes == \A e : ChatStatus(e) \in {200, 401, 422, 500, 502}
BY DEF ChatStatus, Failure

LEMMA BaseInit == Init => BaseInv
BY ShimAssumption DEF Init, BaseInv, TypeOK, LockInv, StreakInv, TroubleInv, Items, NoItem, Servers

LEMMA PostBase ==
  ASSUME BaseInv, NEW r \in Runs, Post(r)
  PROVE  BaseInv'
<1>a. PICK p \in {"sending", "locking"} : pc' = [pc EXCEPT ![r] = p]
  BY DEF Post, Send
<1>0. left[r] \in 0 .. MaxItems /\ left[r] > 0 => left[r] - 1 \in 0 .. MaxItems
  BY ShimAssumption
<1>1. TypeOK'
  <2>1. left' \in [Runs -> 0 .. MaxItems]
    BY <1>0 DEF BaseInv, TypeOK, Post
  <2>2. item' \in [Runs -> Items \cup {NoItem}] /\ trouble' \in [Runs -> BOOLEAN]
    BY DEF BaseInv, TypeOK, Post, Healthy
  <2> QED
    BY <2>1, <2>2 DEF BaseInv, TypeOK, Post, Send, serverVars
<1>2. LockInv'
  BY <1>a DEF BaseInv, TypeOK, LockInv, Post, serverVars
<1>3. TroubleInv'
  <2>1. ~Healthy(server) => trouble'[r]
    <3>1. trouble' = [trouble EXCEPT ![r] = ~Healthy(server)] /\ r \in DOMAIN trouble
      BY DEF BaseInv, TypeOK, Post
    <3> QED
      BY <3>1, Zenon
  <2>2. \A q \in Runs \ {r} : trouble'[q] = trouble[q] /\ pc'[q] = pc[q]
    BY <1>a DEF BaseInv, TypeOK, Post
  <2>3. Healthy(server)' = Healthy(server)
    BY DEF Healthy, Post, serverVars
  <2> QED
    BY <2>1, <2>2, <2>3 DEF BaseInv, TroubleInv
<1>4. StreakInv'
  BY <1>a DEF BaseInv, TypeOK, StreakInv, Post
<1> QED
  BY <1>1, <1>2, <1>3, <1>4 DEF BaseInv

LEMMA TakeLockBase ==
  ASSUME BaseInv, NEW r \in Runs, TakeLock(r)
  PROVE  BaseInv'
<1>1. TypeOK'
  BY DEF BaseInv, TypeOK, TakeLock, serverVars, runVars
<1>2. LockInv'
  BY ShimAssumption DEF BaseInv, TypeOK, LockInv, TakeLock
<1>3. TroubleInv'
  BY DEF BaseInv, TypeOK, TroubleInv, Healthy, TakeLock, serverVars
<1>4. StreakInv'
  BY DEF BaseInv, TypeOK, StreakInv, TakeLock, serverVars, runVars
<1> QED
  BY <1>1, <1>2, <1>3, <1>4 DEF BaseInv

LEMMA ReadLimitBase ==
  ASSUME BaseInv, NEW r \in Runs, ReadLimit(r)
  PROVE  BaseInv'
<1>1. TypeOK'
  BY DEF BaseInv, TypeOK, ReadLimit, Send, Failure, Servers, serverVars, runVars
<1>2. LockInv'
  BY ShimAssumption DEF BaseInv, TypeOK, LockInv, ReadLimit, Send
<1>3. TroubleInv'
  BY DEF BaseInv, TypeOK, TroubleInv, Healthy, ReadLimit, Send, serverVars
<1>4. StreakInv'
  BY DEF BaseInv, TypeOK, StreakInv, ReadLimit, Send, runVars
<1> QED
  BY <1>1, <1>2, <1>3, <1>4 DEF BaseInv

LEMMA CheckBase ==
  ASSUME BaseInv, NEW r \in Runs, Check(r)
  PROVE  BaseInv'
<1>1. TypeOK'
  BY DEF BaseInv, TypeOK, Check, Send, serverVars, runVars
<1>2. LockInv'
  BY DEF BaseInv, TypeOK, LockInv, Check, Send
<1>3. TroubleInv'
  BY DEF BaseInv, TypeOK, TroubleInv, Healthy, Check, Send, serverVars
<1>4. StreakInv'
  BY DEF BaseInv, TypeOK, StreakInv, Check, Send, runVars
<1> QED
  BY <1>1, <1>2, <1>3, <1>4 DEF BaseInv

LEMMA ChatBase ==
  ASSUME BaseInv, NEW r \in Runs, Chat(r)
  PROVE  BaseInv'
<1>1. TypeOK'
  BY StatusTypes DEF BaseInv, TypeOK, Chat, Send, serverVars, runVars
<1>2. LockInv'
  BY DEF BaseInv, TypeOK, LockInv, Chat, Send
<1>3. TroubleInv'
  BY DEF BaseInv, TypeOK, TroubleInv, Healthy, Chat, Send, serverVars
<1>4. StreakInv'
  BY DEF BaseInv, TypeOK, StreakInv, Chat, Send, runVars
<1> QED
  BY <1>1, <1>2, <1>3, <1>4 DEF BaseInv

LEMMA ReceiveBase ==
  ASSUME BaseInv, NEW r \in Runs, Receive(r)
  PROVE  BaseInv'
<1>1. TypeOK'
  <2> DEFINE next == CASE reply[r] \in {200, 422} -> 0
                       [] reply[r] = 401 -> 3
                       [] OTHER -> streak[r] + 1
  <2>1. streak[r] \in 0 .. 2
    BY DEF BaseInv, StreakInv, TypeOK, Receive
  <2>2. next \in 0 .. 3
    BY <2>1
  <2>3. streak' = [streak EXCEPT ![r] = next]
    BY DEF Receive
  <2> HIDE DEF next
  <2>4. streak' \in [Runs -> 0 .. 3]
    BY <2>2, <2>3 DEF BaseInv, TypeOK
  <2> QED
    BY <2>4 DEF BaseInv, TypeOK, Receive, serverVars
<1>2. LockInv'
  BY DEF BaseInv, TypeOK, LockInv, Receive
<1>3. TroubleInv'
  BY DEF BaseInv, TypeOK, TroubleInv, Healthy, Receive, serverVars
<1>4. StreakInv'
  BY DEF BaseInv, TypeOK, StreakInv, Receive, serverVars
<1> QED
  BY <1>1, <1>2, <1>3, <1>4 DEF BaseInv

LEMMA ServerChangesBase ==
  ASSUME BaseInv, ServerChanges
  PROVE  BaseInv'
<1>1. TypeOK'
  <2>1. changes' \in 0 .. MaxChanges
    BY ShimAssumption DEF BaseInv, TypeOK, ServerChanges
  <2>2. trouble' \in [Runs -> BOOLEAN]
    BY DEF BaseInv, TypeOK, ServerChanges, Healthy
  <2> QED
    BY <2>1, <2>2 DEF BaseInv, TypeOK, ServerChanges, runVars
<1>2. LockInv'
  BY DEF BaseInv, LockInv, ServerChanges
<1>3. TroubleInv'
  <2>1. PICK s \in Servers : server' = s /\ trouble' = [q \in Runs |-> trouble[q] \/ ~Healthy(s)]
    BY DEF ServerChanges
  <2>2. \A q \in Runs : ~Healthy(s) => trouble'[q]
    BY <2>1, Zenon
  <2>3. Healthy(server)' = Healthy(s)
    BY <2>1 DEF Healthy
  <2>4. \A q \in Runs : ~Healthy(server)' => trouble'[q]
    BY <2>2, <2>3, Zenon
  <2> QED
    BY <2>4 DEF TroubleInv
<1>4. StreakInv'
  BY DEF BaseInv, TypeOK, StreakInv, ServerChanges, runVars
<1> QED
  BY <1>1, <1>2, <1>3, <1>4 DEF BaseInv

LEMMA BaseStutter ==
  ASSUME BaseInv, UNCHANGED vars
  PROVE  BaseInv'
BY DEF BaseInv, TypeOK, LockInv, StreakInv, TroubleInv, Healthy, vars, serverVars, runVars

LEMMA BaseNext == BaseInv /\ [Next]_vars => BaseInv'
BY PostBase, TakeLockBase, ReadLimitBase, CheckBase, ChatBase, ReceiveBase,
   ServerChangesBase, BaseStutter
   DEF Next, Handle, Ended

(***************************************************************************)
(* Whatever limits the server has and however it fails: at most one        *)
(* handler reads the limit, it alone holds the lock and it does so only    *)
(* while the limit is not known; a lock that is held has a holder that is  *)
(* at work on it (server_context of typesafe_native_shim.py).              *)
(***************************************************************************)
THEOREM LockTheorem == Spec => [](TypeOK /\ LockInv)
<1>1. BaseInv => TypeOK /\ LockInv
  BY DEF BaseInv
<1> QED
  BY <1>1, BaseInit, BaseNext, PTL DEF Spec

-----------------------------------------------------------------------------
(* What holds when a server is always started with the same limit.         *)

(* The limit that was read stays the server's. *)
LEMMA LimitNext ==
  ASSUME ~NewLimits, BaseInv, LimitInv, [Next]_vars
  PROVE  LimitInv'
<1>0. context \in {None, server.limit}
  BY DEF LimitInv
<1>1. ASSUME NEW r \in Runs, Post(r) PROVE LimitInv'
  BY <1>1 DEF BaseInv, TypeOK, LimitInv, Post, Send, serverVars
<1>2. ASSUME NEW r \in Runs, TakeLock(r) PROVE LimitInv'
  BY <1>2 DEF BaseInv, TypeOK, LimitInv, TakeLock, serverVars
<1>3. ASSUME NEW r \in Runs, ReadLimit(r) PROVE LimitInv'
  <2>1. \/ /\ context' = server.limit
           /\ pc' = [pc EXCEPT ![r] = "checking"]
        \/ /\ context' = context
           /\ pc' = [pc EXCEPT ![r] = "sending"]
    BY <1>3 DEF ReadLimit, Send
  <2>a. server' = server
    BY <1>3 DEF ReadLimit, serverVars
  <2>2. \A q \in Runs \ {r} : pc[q] \in {"checking", "asking"} => FALSE
    BY <1>3 DEF BaseInv, LockInv, LimitInv, ReadLimit
  <2>3. server.limit # None
    BY ShimAssumption DEF BaseInv, TypeOK, Servers
  <2> QED
    BY <2>1, <2>a, <2>2, <2>3, <1>0 DEF BaseInv, TypeOK, LimitInv
<1>4. ASSUME NEW r \in Runs, Check(r) PROVE LimitInv'
  <2>1. context \in Nat
    BY <1>4, ShimAssumption DEF BaseInv, TypeOK, LimitInv, Check
  <2> QED
    BY <1>4, <2>1, ShimAssumption DEF BaseInv, TypeOK, LimitInv, Check, Send, serverVars
<1>5. ASSUME NEW r \in Runs, Chat(r) PROVE LimitInv'
  BY <1>5 DEF BaseInv, TypeOK, LimitInv, Chat, Send, serverVars
<1>6. ASSUME NEW r \in Runs, Receive(r) PROVE LimitInv'
  BY <1>6 DEF BaseInv, TypeOK, LimitInv, Receive, serverVars
<1>7. ASSUME ServerChanges PROVE LimitInv'
  BY <1>7 DEF LimitInv, ServerChanges
<1>8. ASSUME UNCHANGED vars PROVE LimitInv'
  BY <1>8 DEF LimitInv, vars, serverVars
<1> QED
  BY <1>1, <1>2, <1>3, <1>4, <1>5, <1>6, <1>7, <1>8 DEF Next, Handle, Ended

(* An item is refused by the comparison of the server, which knows the     *)
(* limit that was found fit, or for its options.                           *)
LEMMA RefusalsNext ==
  ASSUME ~NewLimits, BaseInv, LimitInv, RefusalsAreDeserved, [Next]_vars
  PROVE  RefusalsAreDeserved'
<1>1. ASSUME NEW r \in Runs, Post(r) PROVE RefusalsAreDeserved'
  BY <1>1 DEF BaseInv, TypeOK, RefusalsAreDeserved, Post, Send
<1>2. ASSUME NEW r \in Runs, TakeLock(r) PROVE RefusalsAreDeserved'
  BY <1>2 DEF BaseInv, TypeOK, RefusalsAreDeserved, TakeLock
<1>3. ASSUME NEW r \in Runs, ReadLimit(r) PROVE RefusalsAreDeserved'
  BY <1>3 DEF BaseInv, TypeOK, RefusalsAreDeserved, ReadLimit, Send, Failure
<1>4. ASSUME NEW r \in Runs, Check(r) PROVE RefusalsAreDeserved'
  BY <1>4 DEF BaseInv, TypeOK, RefusalsAreDeserved, Check, Send
<1>5. ASSUME NEW r \in Runs, Chat(r) PROVE RefusalsAreDeserved'
  <2>1. PICK exchange \in ChatExchanges(r) : Send(r, ChatStatus(exchange))
    BY <1>5 DEF Chat
  <2>2. ASSUME ChatStatus(exchange) = 422 PROVE item[r].length > MinContext
    <3>1. exchange \in {"too long", "too large"}
      BY <2>2, StatusOfRefusal
    <3>2. item[r].length > server.limit
      BY <2>1, <3>1 DEF ChatExchanges, Failures
    <3>3. server.limit >= MinContext
      BY <1>5, ShimAssumption DEF LimitInv, Chat
    <3>4. item[r].length \in Nat
      <4>1. item[r] \in Items \cup {NoItem}
        BY DEF BaseInv, TypeOK
      <4>2. CASE item[r] \in Items
        BY <4>2, ShimAssumption DEF Items
      <4>3. CASE item[r] = NoItem
        BY <4>3 DEF NoItem
      <4> QED
        BY <4>1, <4>2, <4>3
    <3>5. server.limit \in Nat
      BY ShimAssumption DEF BaseInv, TypeOK, Servers
    <3> QED
      BY <3>2, <3>3, <3>4, <3>5, ShimAssumption
  <2> QED
    BY <1>5, <2>1, <2>2 DEF BaseInv, TypeOK, RefusalsAreDeserved, Chat, Send
<1>6. ASSUME NEW r \in Runs, Receive(r) PROVE RefusalsAreDeserved'
  BY <1>6 DEF BaseInv, TypeOK, RefusalsAreDeserved, Receive
<1>7. ASSUME ServerChanges PROVE RefusalsAreDeserved'
  BY <1>7 DEF RefusalsAreDeserved, ServerChanges, runVars
<1>8. ASSUME UNCHANGED vars PROVE RefusalsAreDeserved'
  BY <1>8 DEF RefusalsAreDeserved, vars
<1> QED
  BY <1>1, <1>2, <1>3, <1>4, <1>5, <1>6, <1>7, <1>8 DEF Next, Handle, Ended

(* An error is answered by a handler that saw a server that is not healthy, *)
(* and one that compared a limit knows that it is still the server's.       *)
LEMMA InputsNext ==
  ASSUME ~NewLimits, BaseInv, LimitInv, InputsNeverStopARun, [Next]_vars
  PROVE  InputsNeverStopARun'
<1>1. ASSUME NEW r \in Runs, Post(r) PROVE InputsNeverStopARun'
  BY <1>1 DEF BaseInv, TypeOK, InputsNeverStopARun, Post, Send
<1>2. ASSUME NEW r \in Runs, TakeLock(r) PROVE InputsNeverStopARun'
  BY <1>2 DEF BaseInv, TypeOK, InputsNeverStopARun, TakeLock
<1>3. ASSUME NEW r \in Runs, ReadLimit(r) PROVE InputsNeverStopARun'
  <2>1. server.status # "up" => trouble[r]
    BY <1>3 DEF BaseInv, TroubleInv, Healthy, ReadLimit
  <2> QED
    BY <1>3, <2>1 DEF BaseInv, TypeOK, InputsNeverStopARun, ReadLimit, Send
<1>4. ASSUME NEW r \in Runs, Check(r) PROVE InputsNeverStopARun'
  <2>1. context < MinContext => ~(server.limit >= MinContext)
    BY <1>4, ShimAssumption DEF BaseInv, TypeOK, LimitInv, Check, Servers
  <2>2. context < MinContext => trouble[r]
    BY <1>4, <2>1 DEF BaseInv, TroubleInv, Healthy, Check
  <2> QED
    BY <1>4, <2>2 DEF BaseInv, TypeOK, InputsNeverStopARun, Check, Send
<1>5. ASSUME NEW r \in Runs, Chat(r) PROVE InputsNeverStopARun'
  <2>1. PICK exchange \in ChatExchanges(r) : Send(r, ChatStatus(exchange))
    BY <1>5 DEF Chat
  <2>2. ASSUME ChatStatus(exchange) \notin {200, 400, 422} PROVE trouble[r]
    <3>1. exchange \notin {"answer", "too long", "too large"}
      BY <2>2, StatusOfError
    <3>2. server.status # "up"
      BY <2>1, <3>1 DEF ChatExchanges, Failures
    <3> QED
      BY <1>5, <3>2 DEF BaseInv, TroubleInv, Healthy, Chat
  <2> QED
    BY <1>5, <2>1, <2>2 DEF BaseInv, TypeOK, InputsNeverStopARun, Chat, Send
<1>6. ASSUME NEW r \in Runs, Receive(r) PROVE InputsNeverStopARun'
  BY <1>6 DEF BaseInv, TypeOK, InputsNeverStopARun, Receive
<1>7. ASSUME ServerChanges PROVE InputsNeverStopARun'
  BY <1>7 DEF BaseInv, TypeOK, InputsNeverStopARun, ServerChanges, runVars
<1>8. ASSUME UNCHANGED vars PROVE InputsNeverStopARun'
  BY <1>8 DEF InputsNeverStopARun, vars
<1> QED
  BY <1>1, <1>2, <1>3, <1>4, <1>5, <1>6, <1>7, <1>8 DEF Next, Handle, Ended

(* The invariant is inductive. *)
LEMMA Inductive ==
  ASSUME ~NewLimits
  PROVE  /\ Init => IInv
         /\ IInv /\ [Next]_vars => IInv'
<1>1. Init => LimitInv /\ RefusalsAreDeserved /\ InputsNeverStopARun
  BY DEF Init, LimitInv, RefusalsAreDeserved, InputsNeverStopARun
<1> QED
  BY <1>1, BaseInit, BaseNext, LimitNext, RefusalsNext, InputsNext DEF IInv, BaseInv

(***************************************************************************)
(* As long as a server that is started again has the limit it had: no item *)
(* is scored as wrong because the server was set up wrong, whichever runs  *)
(* share the shim, however their requests interleave and whatever the      *)
(* server does meanwhile.                                                  *)
(***************************************************************************)
THEOREM RefusalsTheorem ==
  ASSUME ~NewLimits
  PROVE  Spec => []RefusalsAreDeserved
<1>1. IInv => RefusalsAreDeserved
  BY DEF IInv
<1> QED
  BY <1>1, Inductive, PTL DEF Spec

(***************************************************************************)
(* Under the same hypothesis: every answer that counts toward the stop     *)
(* rule had a server behind it that was not healthy while it was served.   *)
(***************************************************************************)
THEOREM InputsTheorem ==
  ASSUME ~NewLimits
  PROVE  Spec => []InputsNeverStopARun
<1>1. IInv => InputsNeverStopARun
  BY DEF IInv
<1> QED
  BY <1>1, Inductive, PTL DEF Spec

=============================================================================
