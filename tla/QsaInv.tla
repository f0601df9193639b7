-------------------------------- MODULE QsaInv --------------------------------
(***************************************************************************)
(* The inductive invariant of Qsa: why every pooled group is that of the   *)
(* accepted tokens, although groups span steps and drafts are rejected.    *)
(*                                                                         *)
(* The keys of an open group that are not among the rows of the step come  *)
(* from the ring, so the ring has to hold them (RingIsHistory).  It does,  *)
(* because the rows of a step that are rejected lie at most NumSpec behind *)
(* the accepted ones, and come around to a column of the open group only   *)
(* in a ring of less than Ratio + NumSpec - 1 columns.                     *)
(***************************************************************************)
EXTENDS Qsa

(* "The ring is wider than one group", by as much as drafts can reach.     *)
ASSUME RingAssumption == RingSize >= Ratio + NumSpec - 1

Keys    == Reqs \X (0 .. (MaxLen - 1)) \X BOOLEAN
Entries == Pages \X (0 .. (PageSize - 1))
Indices == 0 .. (TableWidth - 1)

(* Types. *)
TypeOK ==
  /\ n \in [Reqs -> 0 .. MaxLen]
  /\ ringOf \in [Reqs -> Rings \cup {None}]
  /\ table \in [Reqs -> [Indices -> Pages] \cup {None}]
  /\ ring \in [Rings -> [0 .. (RingSize - 1) -> Keys \cup {None}]]
  /\ cache \in [Entries -> [0 .. (Ratio - 1) -> Keys \cup {None}] \cup {None}]

(* A request runs with a ring and pages of its own, and has no tokens else. *)
OwnedInv ==
  /\ \A r \in Reqs : ringOf[r] = None => n[r] = 0
  /\ \A r \in Reqs : ringOf[r] # None =>
       /\ table[r] \in [Indices -> Pages]
       /\ \A i, j \in Indices : table[r][i] = table[r][j] => i = j
  /\ \A r, s \in Reqs : r # s /\ ringOf[r] # None /\ ringOf[s] # None =>
       /\ ringOf[r] # ringOf[s]
       /\ \A i, j \in Indices : table[r][i] # table[s][j]

(* The queries that were answered last are the rows of the latest step. *)
SeenInv ==
  /\ step.from \in Nat /\ step.len \in Nat
  /\ DOMAIN step.seen = step.from .. (step.from + step.len - 1)

IInv == TypeOK /\ OwnedInv /\ RingIsHistory /\ GroupsAreHistory /\ QueriesSeeTheirPast

=============================================================================
