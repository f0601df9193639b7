------------------------- MODULE PleLifecycle_proofs -------------------------
(* Theorems about PleLifecycle, for every value of its constants. *)
EXTENDS PleLifecycleInv, FiniteSetTheorems, TLAPS

-----------------------------------------------------------------------------
(* What keeps the parts of the invariant. *)

(* READY is judged by the registrations, and they only change before it. *)
LEMMA ValidFrame ==
  ASSUME UNCHANGED <<rank, fits, regs>>
  PROVE  RegistrationsValid' = RegistrationsValid
BY DEF RegistrationsValid, Registered

(* Phases are kept by steps of connectors that send no request. *)
LEMMA PhaseFrame ==
  ASSUME PhaseInv, UNCHANGED <<rank, fits, childVars, ready, ownerVars>>,
         \A w \in Workers : <<"request", w>> \in net' => <<"request", w>> \in net
  PROVE  PhaseInv'
BY ValidFrame DEF PhaseInv, childVars, ownerVars

(* A connector that goes on: what it has sent stays sent. *)
LEMMA RegsFrame ==
  ASSUME RegsInv, TypeOK, UNCHANGED regs,
         \A w \in Workers : HasSent(w) => HasSent(w)',
         \A w \in Workers : <<"registration", w>> \in net' => <<"registration", w>> \in net
  PROVE  RegsInv'
<1>1. \A i \in DOMAIN regs : regs[i] \in Workers
  BY DEF TypeOK
<1> QED
  BY <1>1 DEF RegsInv

(* A message of another kind or worker is another message. *)
LEMMA Messages ==
  ASSUME TypeOK, NEW w \in Workers
  PROVE  DropUnsent(w) => net' \subseteq net
BY DEF DropUnsent

-----------------------------------------------------------------------------
(* The connector preserves the invariant. *)

LEMMA ConnectInv ==
  ASSUME IInv, NEW w \in Workers, Connect(w)
  PROVE  IInv'
<1>0. TypeOK /\ PinsInv /\ RegsInv /\ PhaseInv
  BY DEF IInv
<1>1. TypeOK'
  BY <1>0 DEF Connect, TypeOK, childVars, ownerVars
<1>2. PinsInv'
  BY <1>0 DEF Connect, TypeOK, PinsInv
<1>3. RegsInv'
  BY <1>0, RegsFrame DEF Connect, TypeOK, HasSent, childVars
<1>4. PhaseInv'
  BY <1>0, PhaseFrame DEF Connect
<1> QED
  BY <1>1, <1>2, <1>3, <1>4 DEF IInv

LEMMA RegisterInv ==
  ASSUME IInv, NEW w \in Workers, Register(w)
  PROVE  IInv'
<1>0. TypeOK /\ PinsInv /\ RegsInv /\ PhaseInv
  BY DEF IInv
<1>1. TypeOK'
  BY <1>0 DEF Register, TypeOK, childVars, ownerVars
<1>2. PinsInv'
  BY <1>0 DEF Register, TypeOK, PinsInv
<1>3. RegsInv'
  <2>1. \A i \in DOMAIN regs : regs[i] \in Workers /\ regs[i] # w
    <3>1. \A i \in DOMAIN regs : regs[i] \in Workers
      BY <1>0 DEF TypeOK
    <3>2. ~HasSent(w)
      BY DEF Register, HasSent
    <3> QED
      BY <1>0, <3>1, <3>2 DEF RegsInv
  <2>2. \A v \in Workers : HasSent(v)' <=> HasSent(v) \/ v = w
    BY <1>0 DEF Register, TypeOK, HasSent
  <2>3. UNCHANGED regs /\ net' = net \cup {<<"registration", w>>}
    BY DEF Register, childVars
  <2> QED
    BY <1>0, <2>1, <2>2, <2>3 DEF RegsInv
<1>4. PhaseInv'
  BY <1>0, PhaseFrame DEF Register
<1> QED
  BY <1>1, <1>2, <1>3, <1>4 DEF IInv

LEMMA PinInv ==
  ASSUME IInv, NEW w \in Workers, Pin(w)
  PROVE  IInv'
<1>0. TypeOK /\ PinsInv /\ RegsInv /\ PhaseInv
  BY DEF IInv
<1>1. PICK b \in Bufs : pins' = [pins EXCEPT ![w] = @ \cup {<<b, moved[w]>>}]
  BY DEF Pin
<1>2. TypeOK'
  BY <1>0, <1>1 DEF Pin, TypeOK, childVars, ownerVars
<1>3. PinsInv'
  BY <1>0, <1>1 DEF Pin, TypeOK, PinsInv
<1>4. RegsInv'
  BY <1>0, RegsFrame DEF Pin, HasSent, childVars
<1>5. PhaseInv'
  BY <1>0, PhaseFrame DEF Pin
<1> QED
  BY <1>2, <1>3, <1>4, <1>5 DEF IInv

LEMMA OpenInv ==
  ASSUME IInv, NEW w \in Workers, Open(w)
  PROVE  IInv'
<1>0. TypeOK /\ PinsInv /\ RegsInv /\ PhaseInv
  BY DEF IInv
<1>1. TypeOK'
  BY <1>0 DEF Open, TypeOK, childVars, ownerVars
<1>2. PinsInv'
  BY <1>0 DEF Open, TypeOK, PinsInv
<1>3. RegsInv'
  BY <1>0, RegsFrame DEF Open, TypeOK, HasSent, childVars
<1>4. PhaseInv'
  BY <1>0, PhaseFrame DEF Open
<1> QED
  BY <1>1, <1>2, <1>3, <1>4 DEF IInv

(* close(), by the thread or because the constructor failed. *)
LEMMA LeaveInv ==
  ASSUME IInv, NEW w \in Workers, InitFails(w) \/ Close(w)
  PROVE  IInv'
<1>0. TypeOK /\ PinsInv /\ RegsInv /\ PhaseInv
  BY DEF IInv
<1>1. PICK s \in {"failed", "closed"} : conn' = [conn EXCEPT ![w] = s]
  BY DEF InitFails, Close
<1>2. /\ pins' = [pins EXCEPT ![w] = {}]
      /\ UNCHANGED <<rank, fits, moved, asking, childVars, ready, ownerVars>>
      /\ DropUnsent(w)
  BY DEF InitFails, Close
<1>3. net' \subseteq net
  BY <1>0, <1>2, Messages
<1>4. TypeOK'
  BY <1>0, <1>1, <1>2, <1>3 DEF TypeOK, childVars, ownerVars
<1>5. PinsInv'
  BY <1>0, <1>1, <1>2 DEF TypeOK, PinsInv
<1>6. RegsInv'
  BY <1>0, <1>1, <1>2, <1>3, RegsFrame DEF TypeOK, HasSent, childVars
<1>7. PhaseInv'
  BY <1>0, <1>2, <1>3, PhaseFrame
<1> QED
  BY <1>4, <1>5, <1>6, <1>7 DEF IInv

LEMMA AskInv ==
  ASSUME IInv, NEW w \in Workers, Ask(w)
  PROVE  IInv'
<1>0. TypeOK /\ PinsInv /\ RegsInv /\ PhaseInv
  BY DEF IInv
<1>1. TypeOK'
  BY <1>0 DEF Ask, TypeOK, childVars, ownerVars
<1>2. PinsInv'
  BY <1>0 DEF Ask, PinsInv
<1>3. RegsInv'
  BY <1>0, RegsFrame DEF Ask, HasSent, childVars
<1>4. PhaseInv'
  <2>1. ready = "READY"
    BY <1>0 DEF Ask, EngineRuns, PhaseInv
  <2>2. RegistrationsValid' = RegistrationsValid
    BY ValidFrame DEF Ask, childVars
  <2> QED
    BY <1>0, <2>1, <2>2 DEF Ask, PhaseInv, childVars, ownerVars
<1> QED
  BY <1>1, <1>2, <1>3, <1>4 DEF IInv

LEMMA CrashInv ==
  ASSUME IInv, NEW w \in Workers, Crash(w)
  PROVE  IInv'
<1>0. TypeOK /\ PinsInv /\ RegsInv /\ PhaseInv
  BY DEF IInv
<1>1. net' \subseteq net
  BY <1>0, Messages DEF Crash
<1>2. /\ owner' \in {owner, "crashed"} /\ reader' \in {reader, FALSE}
      /\ writers' \subseteq writers
  BY DEF Crash, ownerVars
<1>3. TypeOK'
  BY <1>0, <1>1, <1>2 DEF Crash, TypeOK, childVars
<1>4. PinsInv'
  BY <1>0 DEF Crash, TypeOK, PinsInv
<1>5. RegsInv'
  BY <1>0, <1>1, RegsFrame DEF Crash, TypeOK, HasSent, childVars
<1>6. PhaseInv'
  <2>1. RegistrationsValid' = RegistrationsValid
    BY ValidFrame DEF Crash, childVars
  <2> QED
    BY <1>0, <1>1, <1>2, <2>1 DEF Crash, PhaseInv, childVars
<1> QED
  BY <1>3, <1>4, <1>5, <1>6 DEF IInv

-----------------------------------------------------------------------------
(* The offload process preserves the invariant. *)

(* Steps that leave the connectors and the registrations alone. *)
LEMMA ConnFrame ==
  ASSUME PinsInv, RegsInv, UNCHANGED <<connVars, regs>>
  PROVE  PinsInv' /\ RegsInv'
BY DEF PinsInv, RegsInv, HasSent, connVars

(* The end of the process: FAILURE only before READY.                      *)
LEMMA DieInv ==
  ASSUME IInv, Alive, Die, UNCHANGED <<connVars, regs, event, ownerVars>>
  PROVE  IInv'
<1>0. TypeOK /\ PinsInv /\ RegsInv /\ PhaseInv
  BY DEF IInv
<1>1. /\ child' = "dead" /\ ready' \in {"nothing", "READY", "FAILURE"}
      /\ ready' = "READY" <=> ready = "READY"
  BY <1>0 DEF Die, TypeOK, PhaseInv
<1>2. TypeOK'
  BY <1>0, <1>1 DEF TypeOK, connVars, ownerVars
<1>3. PhaseInv'
  <2>1. RegistrationsValid' = RegistrationsValid
    BY ValidFrame DEF connVars
  <2>2. owner # "new"
    BY <1>0 DEF PhaseInv, Alive
  <2> QED
    BY <1>0, <1>1, <2>1, <2>2 DEF PhaseInv, connVars, ownerVars
<1> QED
  BY <1>0, <1>2, <1>3, ConnFrame DEF IInv

(* Loading ends, or a kill or a hang comes in. *)
LEMMA ChildMovesInv ==
  ASSUME IInv, FinishLoading \/ Killed \/ Hang
  PROVE  IInv'
<1>0. TypeOK /\ PinsInv /\ RegsInv /\ PhaseInv
  BY DEF IInv
<1>1. /\ UNCHANGED <<connVars, regs, event, ready, ownerVars>>
      /\ child' \in {"registering", "stuck", "dead"} /\ Alive
      /\ child' = "registering" => child = "loading"
  BY DEF FinishLoading, Killed, Hang, Alive
<1>2. child' # "registering" => owner # "closed" \/ child' = "dead"
  BY <1>0, <1>1 DEF PhaseInv, Alive
<1>3. TypeOK'
  BY <1>0, <1>1 DEF TypeOK, connVars, ownerVars
<1>4. PhaseInv'
  <2>1. RegistrationsValid' = RegistrationsValid
    BY <1>1, ValidFrame DEF connVars
  <2> QED
    BY <1>0, <1>1, <1>2, <2>1 DEF PhaseInv, connVars, ownerVars, Alive
<1> QED
  BY <1>0, <1>1, <1>3, <1>4, ConnFrame DEF IInv

LEMMA AcceptInv ==
  ASSUME IInv, NEW m \in net, Accept(m)
  PROVE  IInv'
<1>0. TypeOK /\ PinsInv /\ RegsInv /\ PhaseInv
  BY DEF IInv
<1>1. /\ child = "registering" /\ net' = net \ {m}
      /\ UNCHANGED <<rank, fits, conn, moved, pins, asking, event, ownerVars>>
      /\ ready # "READY"
  BY <1>0 DEF Accept, PhaseInv
<1>2. PICK w \in Workers : m = <<"registration", w>>
  <2>1. m[1] \in {"registration", "request"} /\ m[2] \in Workers /\ m = <<m[1], m[2]>>
    BY <1>0 DEF TypeOK
  <2>2. m[1] # "request"
    BY <1>0, <1>1, <2>1 DEF PhaseInv
  <2> QED
    BY <2>1, <2>2
<1>3. regs' = Append(regs, w) /\ UNCHANGED <<child, ready>>
  BY <1>2 DEF Accept
<1>4. TypeOK'
  BY <1>0, <1>1, <1>3 DEF TypeOK, ownerVars
<1>5. PinsInv'
  BY <1>0, <1>1 DEF PinsInv
<1>6. RegsInv'
  <2>1. /\ regs \in Seq(Workers)
        /\ DOMAIN regs' = 1 .. (Len(regs) + 1) /\ DOMAIN regs = 1 .. Len(regs)
        /\ \A i \in DOMAIN regs : regs'[i] = regs[i]
        /\ regs'[Len(regs) + 1] = w
    BY <1>0, <1>3 DEF TypeOK
  <2>2. \A i \in DOMAIN regs : regs[i] # w
    BY <1>0, <1>2 DEF RegsInv
  <2>3. \A i \in DOMAIN regs' : i \in DOMAIN regs \/ i = Len(regs) + 1
    BY <2>1
  <2>4. \A i, j \in DOMAIN regs' : regs'[i] = regs'[j] => i = j
    BY <1>0, <2>1, <2>2, <2>3 DEF RegsInv
  <2>5. HasSent(w)
    BY <1>0, <1>2 DEF RegsInv
  <2>6. \A i \in DOMAIN regs' : HasSent(regs'[i])
    BY <1>0, <2>1, <2>3, <2>5 DEF RegsInv
  <2>7. \A i \in DOMAIN regs' : <<"registration", regs'[i]>> \notin net'
    <3>1. \A i \in DOMAIN regs : <<"registration", regs[i]>> \notin net
      BY <1>0 DEF RegsInv
    <3> QED
      BY <1>1, <1>2, <2>1, <2>3, <3>1
  <2>8. \A v \in Workers : <<"registration", v>> \in net' => HasSent(v)
    BY <1>0, <1>1 DEF RegsInv
  <2> QED
    BY <1>1, <2>4, <2>6, <2>7, <2>8 DEF RegsInv, HasSent
<1>7. PhaseInv'
  BY <1>0, <1>1, <1>3 DEF PhaseInv, ownerVars
<1> QED
  BY <1>4, <1>5, <1>6, <1>7 DEF IInv

LEMMA FinishRegisteringInv ==
  ASSUME IInv, FinishRegistering
  PROVE  IInv'
<1>0. TypeOK /\ PinsInv /\ RegsInv /\ PhaseInv
  BY DEF IInv
<1>1. /\ child = "registering" /\ Len(regs) = NumWorkers
      /\ UNCHANGED <<connVars, regs, event, ownerVars>>
  BY DEF FinishRegistering
<1>2. CASE RegistrationsValid /\ reader
  <2>1. child' = "serving" /\ ready' = "READY"
    BY <1>2 DEF FinishRegistering
  <2>2. TypeOK'
    BY <1>0, <1>1, <2>1 DEF TypeOK, connVars, ownerVars
  <2>3. RegistrationsValid'
    BY <1>1, <1>2, ValidFrame DEF connVars
  <2>4. PhaseInv'
    BY <1>0, <1>1, <2>1, <2>3 DEF PhaseInv, connVars, ownerVars
  <2> QED
    BY <1>0, <1>1, <2>2, <2>4, ConnFrame DEF IInv
<1>3. CASE ~(RegistrationsValid /\ reader)
  BY <1>1, <1>3, DieInv DEF FinishRegistering, Alive
<1> QED
  BY <1>2, <1>3

(* Once every worker is registered, only requests are in the socket.       *)
LEMMA OnlyRequests ==
  ASSUME IInv, child = "serving"
  PROVE  \A m \in net : m[1] = "request"
<1>1. ready = "READY" /\ Len(regs) = NumWorkers
  BY DEF IInv, PhaseInv
<1>2. /\ regs \in Seq(Workers) /\ DOMAIN regs = 1 .. NumWorkers
      /\ \A i \in 1 .. NumWorkers : regs[i] \in Workers
  BY <1>1 DEF IInv, TypeOK
<1>3. regs \in Injection(1 .. NumWorkers, Workers)
  BY <1>2 DEF IInv, RegsInv, Injection, IsInjective
<1>4. IsFiniteSet(1 .. NumWorkers) /\ Cardinality(1 .. NumWorkers) = NumWorkers
  BY FS_Interval, LifecycleAssumption
<1>5. regs \in Surjection(1 .. NumWorkers, Workers)
  BY <1>3, <1>4, FS_Injection, LifecycleAssumption, CrewAssumption
<1>6. \A w \in Workers : \E i \in DOMAIN regs : regs[i] = w
  BY <1>2, <1>5 DEF Surjection
<1>7. \A m \in net : m[1] \in {"registration", "request"} /\ m[2] \in Workers /\ m = <<m[1], m[2]>>
  BY DEF IInv, TypeOK
<1> QED
  BY <1>6, <1>7 DEF IInv, RegsInv

LEMMA ServeInv ==
  ASSUME IInv, Serve
  PROVE  IInv'
<1>0. TypeOK /\ PinsInv /\ RegsInv /\ PhaseInv
  BY DEF IInv
<1>1. /\ net' = {} /\ asking' \subseteq asking
      /\ UNCHANGED <<rank, fits, conn, moved, pins, regs, event, ownerVars, child, ready>>
  BY OnlyRequests DEF Serve
<1>2. TypeOK'
  BY <1>0, <1>1 DEF TypeOK, ownerVars
<1>3. PinsInv'
  BY <1>0, <1>1 DEF PinsInv
<1>4. RegsInv'
  BY <1>0, <1>1, RegsFrame DEF HasSent
<1>5. PhaseInv'
  BY <1>0, <1>1, PhaseFrame DEF childVars
<1> QED
  BY <1>2, <1>3, <1>4, <1>5 DEF IInv

-----------------------------------------------------------------------------
(* The owner and its handle preserve the invariant. *)

LEMMA SpawnInv ==
  ASSUME IInv, Spawn
  PROVE  IInv'
<1>0. TypeOK /\ PinsInv /\ RegsInv /\ PhaseInv
  BY DEF IInv
<1>1. /\ owner = "new" /\ owner' = "spawned" /\ reader' = TRUE /\ child' = "loading"
      /\ writers' \subseteq {"owner", "child"}
      /\ UNCHANGED <<connVars, regs, event, ready>>
  BY DEF Spawn
<1>2. child = "none" /\ ready # "READY"
  BY <1>0, <1>1 DEF PhaseInv
<1>3. TypeOK'
  BY <1>0, <1>1 DEF TypeOK, connVars
<1>4. PhaseInv'
  BY <1>0, <1>1, <1>2 DEF PhaseInv, connVars
<1> QED
  BY <1>0, <1>1, <1>3, <1>4, ConnFrame DEF IInv

(* Every other step of the owner. *)
LEMMA HandleInv ==
  ASSUME IInv,
         \/ StartWaiting \/ ReadReady \/ ReadyTimesOut \/ StartClose \/ Joined \/ Terminate \/ Kill
         \/ ParentGone
  PROVE  IInv'
<1>0. TypeOK /\ PinsInv /\ RegsInv /\ PhaseInv
  BY DEF IInv
<1>1. UNCHANGED <<connVars, regs, ready>>
  BY DEF StartWaiting, ReadReady, ReadyTimesOut, StartClose, Joined, Terminate, Kill, ParentGone,
         childVars
<1>2. TypeOK'
  BY <1>0, <1>1
  DEF StartWaiting, ReadReady, ReadyTimesOut, StartClose, Joined, Terminate, Kill, ParentGone,
      childVars, ownerVars, connVars, TypeOK
<1>3. PhaseInv'
  <2>1. RegistrationsValid' = RegistrationsValid
    BY <1>1, ValidFrame DEF connVars
  <2>2. CASE StartWaiting \/ ReadyTimesOut \/ StartClose \/ ParentGone
    BY <1>0, <1>1, <2>1, <2>2
    DEF StartWaiting, ReadyTimesOut, StartClose, ParentGone, childVars, ownerVars, connVars, PhaseInv
  <2>3. CASE ReadReady
    BY <1>0, <1>1, <2>1, <2>3 DEF ReadReady, childVars, connVars, PhaseInv
  <2>4. CASE Joined \/ Terminate
    BY <1>0, <1>1, <2>1, <2>4 DEF Joined, Terminate, Alive, childVars, connVars, PhaseInv, TypeOK
  <2>5. CASE Kill
    BY <1>0, <1>1, <2>1, <2>5 DEF Kill, connVars, PhaseInv
  <2> QED
    BY <2>2, <2>3, <2>4, <2>5
<1>4. PinsInv' /\ RegsInv'
  BY <1>0, <1>1, ConnFrame
<1> QED
  BY <1>2, <1>3, <1>4 DEF IInv

-----------------------------------------------------------------------------
(* The invariant. *)

LEMMA InitInv == Init => IInv
<1> SUFFICES ASSUME Init PROVE IInv
  OBVIOUS
<1>1. TypeOK
  <2>1. pins \in [Workers -> SUBSET (Bufs \X BOOLEAN)]
    BY DEF Init
  <2>2. regs \in Seq(Workers) /\ net \subseteq {"registration", "request"} \X Workers
    BY DEF Init
  <2> QED
    BY <2>1, <2>2 DEF Init, TypeOK
<1>2. PinsInv
  BY DEF Init, PinsInv
<1>3. RegsInv
  BY DEF Init, RegsInv
<1>4. PhaseInv
  BY DEF Init, PhaseInv
<1> QED
  BY <1>1, <1>2, <1>3, <1>4 DEF IInv

LEMMA StutterInv == IInv /\ UNCHANGED vars => IInv'
<1> SUFFICES ASSUME IInv, UNCHANGED vars PROVE IInv'
  OBVIOUS
<1>0. TypeOK /\ PinsInv /\ RegsInv /\ PhaseInv
  BY DEF IInv
<1>1. UNCHANGED <<connVars, childVars, ready, ownerVars>>
  BY DEF vars
<1>2. TypeOK'
  BY <1>0, <1>1 DEF TypeOK, connVars, childVars, ownerVars
<1>3. PhaseInv'
  BY <1>0, <1>1, PhaseFrame DEF connVars
<1> QED
  BY <1>0, <1>1, <1>2, <1>3, ConnFrame DEF IInv, childVars

LEMMA NextInv == IInv /\ [Next]_vars => IInv'
<1> SUFFICES ASSUME IInv, [Next]_vars PROVE IInv'
  OBVIOUS
<1>1. ASSUME NEW w \in Workers, ConnectorStep(w) \/ InitFails(w) \/ Close(w) \/ Ask(w) \/ Crash(w)
      PROVE  IInv'
  BY <1>1, ConnectInv, RegisterInv, PinInv, OpenInv, LeaveInv, AskInv, CrashInv DEF ConnectorStep
<1>2. CASE ChildStep
  <2>1. Leave => IInv'
    BY DieInv DEF Leave, Alive
  <2> QED
    BY <1>2, <2>1, ChildMovesInv, FinishRegisteringInv, AcceptInv, ServeInv DEF ChildStep
<1>3. CASE LoadingFails
  BY <1>3, DieInv DEF LoadingFails, Alive
<1>4. CASE Killed \/ Hang
  BY <1>4, ChildMovesInv
<1>5. CASE OwnerStep \/ ReadyTimesOut \/ StartClose \/ ParentGone
  BY <1>5, SpawnInv, HandleInv DEF OwnerStep
<1>6. CASE UNCHANGED vars
  BY <1>6, StutterInv
<1> QED
  BY <1>1, <1>2, <1>3, <1>4, <1>5, <1>6 DEF Next, Ended

(***************************************************************************)
(* The inductive invariant holds in every reachable state of the start,    *)
(* the service and the end of the offload process, with any faults.        *)
(***************************************************************************)
THEOREM Inductive == Spec => []IInv
<1> QED
  BY InitInv, NextInv, PTL DEF Spec

(***************************************************************************)
(* READY is sent only by a process that can serve every rank: the checks   *)
(* of accept_registrations suffice, whatever the workers registered.       *)
(***************************************************************************)
THEOREM ReadyIsRoutable == Spec => []ReadyMeansRoutable
<1>1. IInv => ReadyMeansRoutable
  <2> SUFFICES ASSUME IInv, ready = "READY"
               PROVE  /\ \A d \in DpRanks, t \in TpRanks :
                           Cardinality({i \in DOMAIN regs : rank[regs[i]] = <<d, t>>}) = 1
                      /\ \A w \in Registered : fits[w]
    BY DEF ReadyMeansRoutable
  <2>1. RegistrationsValid /\ Len(regs) = NumWorkers
    BY DEF IInv, PhaseInv
  <2>2. /\ DOMAIN regs = 1 .. NumWorkers
        /\ \A i \in 1 .. NumWorkers : regs[i] \in Workers /\ rank[regs[i]] \in DpRanks \X TpRanks
    BY <2>1 DEF IInv, TypeOK
  <2> DEFINE target == [i \in 1 .. NumWorkers |-> rank[regs[i]]]
  <2>3. target \in [1 .. NumWorkers -> DpRanks \X TpRanks]
    BY <2>2
  <2>4. ASSUME NEW d \in DpRanks, NEW t \in TpRanks
        PROVE  \E i \in 1 .. NumWorkers : target[i] = <<d, t>>
    <3>1. t \in {rank[w][2] : w \in {v \in Registered : rank[v][1] = d}}
      BY <2>1, <2>4 DEF RegistrationsValid
    <3>2. PICK w \in Registered : rank[w][1] = d /\ rank[w][2] = t
      BY <3>1
    <3>3. PICK i \in 1 .. NumWorkers : regs[i] = w
      BY <2>2, <3>2 DEF Registered, Range
    <3>4. rank[w] = <<d, t>>
      BY <2>2, <3>2, <3>3
    <3> QED
      BY <3>3, <3>4
  <2>5. target \in Surjection(1 .. NumWorkers, DpRanks \X TpRanks)
    BY <2>3, <2>4 DEF Surjection
  <2>6. IsFiniteSet(1 .. NumWorkers) /\ Cardinality(1 .. NumWorkers) = NumWorkers
    BY FS_Interval, LifecycleAssumption
  <2>7. Cardinality(DpRanks \X TpRanks) = NumWorkers
    <3>1. IsFiniteSet(DpRanks) /\ Cardinality(DpRanks) = DpSize
      BY FS_Interval, LifecycleAssumption DEF DpRanks
    <3>2. IsFiniteSet(TpRanks) /\ Cardinality(TpRanks) = TpSize
      BY FS_Interval, LifecycleAssumption DEF TpRanks
    <3>3. NumWorkers = DpSize * TpSize
      BY <2>1 DEF RegistrationsValid
    <3> QED
      BY <3>1, <3>2, <3>3, FS_Product
  <2>8. target \in Injection(1 .. NumWorkers, DpRanks \X TpRanks)
    BY <2>5, <2>6, <2>7, FS_SurjSameCardinalityImpliesInj
  <2>9. ASSUME NEW d \in DpRanks, NEW t \in TpRanks
        PROVE  Cardinality({i \in DOMAIN regs : rank[regs[i]] = <<d, t>>}) = 1
    <3>1. PICK i \in 1 .. NumWorkers : target[i] = <<d, t>>
      BY <2>4, <2>9
    <3>2. \A j \in 1 .. NumWorkers : target[j] = target[i] => j = i
      BY <2>8 DEF Injection, IsInjective
    <3>3. {j \in DOMAIN regs : rank[regs[j]] = <<d, t>>} = {i}
      BY <2>2, <3>1, <3>2
    <3> QED
      BY <3>3, FS_Singleton
  <2>10. \A w \in Registered : fits[w]
    BY <2>1 DEF RegistrationsValid
  <2> QED
    BY <2>9, <2>10
<1> QED
  BY <1>1, Inductive, PTL

(***************************************************************************)
(* accept_registrations finds only registrations in the shared socket, and *)
(* busy_loop only requests.                                                *)
(***************************************************************************)
THEOREM PhasesAreKept == Spec => []MessagesMatchPhase
<1>1. IInv => MessagesMatchPhase
  <2> SUFFICES ASSUME IInv PROVE MessagesMatchPhase
    OBVIOUS
  <2>1. \A m \in net : m[1] \in {"registration", "request"} /\ m[2] \in Workers /\ m = <<m[1], m[2]>>
    BY DEF IInv, TypeOK
  <2>2. child = "registering" => \A m \in net : m[1] # "request"
    BY <2>1 DEF IInv, PhaseInv
  <2> QED
    BY <2>1, <2>2, OnlyRequests DEF MessagesMatchPhase
<1> QED
  BY <1>1, Inductive, PTL

(***************************************************************************)
(* What a connector locks is what the process maps, and it locks nothing   *)
(* once it has been closed or its constructor has failed.                  *)
(***************************************************************************)
THEOREM PinsStayShared == Spec => []PinsAreShared
<1>1. IInv => PinsAreShared
  BY DEF IInv, PinsInv, PinsAreShared
<1> QED
  BY <1>1, Inductive, PTL

(***************************************************************************)
(* When handle.close has returned, the process is gone.                    *)
(***************************************************************************)
THEOREM ClosedIsDead == Spec => [](owner = "closed" => ~Alive)
<1>1. IInv => (owner = "closed" => ~Alive)
  BY DEF IInv, PhaseInv, Alive
<1> QED
  BY <1>1, Inductive, PTL

=============================================================================
