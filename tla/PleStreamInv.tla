---------------------------- MODULE PleStreamInv ----------------------------
(***************************************************************************)
(* The inductive invariant of PleStream: why semaphores of two values, and *)
(* no batch numbers, are enough.                                           *)
(*                                                                         *)
(* The argument turns on q == inputs[d], the batch staged last.  A buffer  *)
(* is out of q's reach from the moment its layer has been read until its   *)
(* flag has been reset; its flag is 1 all that time (FlagInv).  Else it is *)
(* free, and then the flag is 1 exactly when the rows of the NEXT forward  *)
(* of that rank are in it.  A copy that has passed its wait has seen the   *)
(* flag at 0, so it found the buffer free (CopierInv).  As TP rank 0 asks  *)
(* for q only when its forward of q - 1 has finished, and the collectives  *)
(* keep ranks within one step, "the next forward" is q on every rank that  *)
(* has finished as much (ConsumedInv).                                     *)
(***************************************************************************)
EXTENDS PleStream

(***************************************************************************)
(* "each forward consumes its output before the next launch, so one        *)
(* pending request is sufficient" (orig/connector.py:96-97).               *)
(***************************************************************************)
ASSUME ConsumedAssumption == RunAhead = 0

Steps == 0 .. MaxStep

(* What a queue with room for one may hold. *)
AtMostOne == {<<>>} \cup {<<p>> : p \in Steps}

(* What may be pending on a copy stream. *)
Ops == {<<>>, <<"wait_reset">>, <<"wait_reset", "copy", "signal">>,
        <<"copy", "signal">>, <<"signal">>}

(* Types. *)
TypeOK ==
  /\ cuda \in BOOLEAN
  /\ upto \in [DP -> [Steps -> Steps]]
  /\ hpos \in [DP -> [TP -> Steps]]
  /\ raised = {}
  /\ queue \in [DP -> AtMostOne]
  /\ staging \in [DP -> Steps]
  /\ event \in [DP -> Steps]
  /\ pos \in [DP -> [TP -> 0 .. (2 * NumLayers + 1)]]
  /\ fin \in [DP -> [TP -> Steps]]
  /\ got \in [DP -> [TP -> [Layers -> Local!Values]]]
  /\ out \in [DP -> [TP -> [Layers -> Local!Values]]]
  /\ flag \in [DP -> [TP -> [Layers -> {Reset, Done}]]]
  /\ src \in [DP -> Steps] /\ inputs \in [DP -> Steps]
  /\ raw \in [DP -> BOOLEAN]
  /\ net \in [DP -> AtMostOne]
  /\ todo \subseteq Layers \X DP /\ held \subseteq Layers \X DP
  /\ scratch \in [DP -> [Layers -> Local!Values]]
  /\ copier \in [DP -> [Layers -> [TP -> Ops]]]

(* The batch staged last has not been signalled for this buffer yet. *)
Outstanding(d, l, t) ==
  net[d] # <<>> \/ <<l, d>> \in todo \cup held \/ copier[d][l][t] # <<>>

(* The buffer waits for rows, or holds rows its forward has yet to read. *)
Free(d, l, t) == pos[d][t] \notin (l + 1) .. (NumLayers + 1 + l)

(* A free buffer holds the rows of the rank's next forward. *)
Filled(d, l, t) ==
  \/ inputs[d] = fin[d][t] + 1 /\ ~Outstanding(d, l, t)
  \/ pos[d][t] \in 1 .. l /\ ~IsReal(d, fin[d][t] + 1)

(* The copy for this buffer has passed its wait. *)
Passed(d, l, t) ==
  \/ <<l, d>> \in held /\ copier[d][l][t] = <<>>
  \/ copier[d][l][t] \in {<<"copy", "signal">>, <<"signal">>}

HostInv(d, t) ==
  /\ fin[d][t] <= hpos[d][t] /\ hpos[d][t] <= fin[d][t] + 1
  /\ pos[d][t] \in 1 .. (NumLayers + 1) => fin[d][t] < hpos[d][t]

(* The collectives: no rank is ahead of another one that still reads. *)
InStep(d, t, u) ==
  fin[d][t] <= fin[d][u] \/ (fin[d][t] = fin[d][u] + 1 /\ pos[d][u] = NumLayers + 1)

(* A batch that is queued or being staged is the one TP rank 0 has begun. *)
StageInv(d) ==
  /\ inputs[d] <= hpos[d][0]
  /\ inputs[d] # 0 => IsReal(d, inputs[d])
  /\ queue[d] # <<>> => queue[d] = <<hpos[d][0]>> /\ staging[d] = 0
  /\ staging[d] # 0 => staging[d] = hpos[d][0]
  /\ queue[d] # <<>> \/ staging[d] # 0 =>
       /\ IsReal(d, hpos[d][0]) /\ hpos[d][0] # 0
       /\ inputs[d] < hpos[d][0] /\ fin[d][0] = hpos[d][0] - 1
       /\ IF cuda THEN event[d] = hpos[d][0] ELSE src[d] = hpos[d][0]

(* A batch in service is the last one staged, and TP rank 0 waits for it. *)
ServiceInv(d) ==
  /\ net[d] # <<>> =>
       \A l \in Layers : <<l, d>> \notin todo \cup held /\ \A t \in TP : copier[d][l][t] = <<>>
  /\ raw[d] => Speculative /\ \A l \in Layers : <<l, d>> \notin todo \cup held
  /\ \A l \in Layers, t \in TP :
       Outstanding(d, l, t) =>
         inputs[d] # 0 /\ hpos[d][0] = inputs[d] /\ fin[d][0] = inputs[d] - 1

OneHeld == \A a, b \in held : a = b

(* Every rank has read what it will read of the batches before the last. *)
ConsumedInv(d, t) ==
  \/ fin[d][t] >= inputs[d] - 1
  \/ /\ fin[d][t] = inputs[d] - 2 /\ pos[d][t] = NumLayers + 1
     /\ \A l \in Layers : Outstanding(d, l, t)

(* Rows that are outstanding have not been read, and those of a buffer     *)
(* that has not been reset are outstanding.                                *)
OutstandingInv(d, l, t) ==
  /\ Outstanding(d, l, t) =>
       /\ fin[d][t] < inputs[d]
       /\ fin[d][t] = inputs[d] - 1 => pos[d][t] \notin (l + 1) .. (NumLayers + 1)
  /\ inputs[d] = fin[d][t] + 1 /\ pos[d][t] \in (NumLayers + 2) .. (NumLayers + 1 + l) =>
       Outstanding(d, l, t)

CopierInv(d, l, t) ==
  /\ <<l, d>> \in todo => <<l, d>> \notin held /\ copier[d][l][t] = <<>>
  /\ <<l, d>> \in held => copier[d][l][t] \in {<<>>, <<"wait_reset">>}
  /\ copier[d][l][t] = <<"wait_reset">> => <<l, d>> \in held
  /\ copier[d][l][t] \notin {<<>>, <<"wait_reset">>} => scratch[d][l] = inputs[d]
  /\ copier[d][l][t] = <<"signal">> => out[d][t][l] = inputs[d]
  /\ Passed(d, l, t) => flag[d][t][l] = Reset /\ fin[d][t] = inputs[d] - 1

FlagInv(d, l, t) ==
  /\ flag[d][t][l] = IF Free(d, l, t) /\ ~Filled(d, l, t) THEN Reset ELSE Done
  /\ Free(d, l, t) /\ Filled(d, l, t) => out[d][t][l] = Local!Expected(d, fin[d][t] + 1)

GotInv(d, t) ==
  pos[d][t] \in 1 .. (NumLayers + 1) =>
    \A l \in Layers : l < pos[d][t] =>
      /\ got[d][t][l] = Local!Expected(d, fin[d][t] + 1)
      /\ IsReal(d, fin[d][t] + 1) => fin[d][t] < inputs[d]

(* What PleLocal sees of the streams: the st of its instance. *)
St ==
  [d \in DP |-> [t \in 0 .. (TpSize - 1) |->
     IF pos[d][t] > NumLayers + 1 THEN 0 ELSE pos[d][t]]]

IInv ==
  /\ TypeOK /\ OneHeld
  /\ \A d \in DP :
       /\ StageInv(d) /\ ServiceInv(d)
       /\ \A t \in TP :
            /\ HostInv(d, t) /\ ConsumedInv(d, t) /\ GotInv(d, t)
            /\ \A u \in TP : InStep(d, t, u)
            /\ \A l \in Layers :
                 OutstandingInv(d, l, t) /\ CopierInv(d, l, t) /\ FlagInv(d, l, t)

=============================================================================
