----------------------------- MODULE PleTablesInv -----------------------------
(***************************************************************************)
(* The inductive invariant of PleTables: why a process that is ready finds *)
(* every row, whatever the order of the tensors and the cuts into calls.   *)
(*                                                                         *)
(* What a tensor brings does not depend on the call it comes in: when it   *)
(* has been handed out, its rows are where the part's start puts them      *)
(* (PartsInv), the table's scale is kept in both processes (OuterInv), and *)
(* its parameters are among the loaded ones (NamesInv).                    *)
(***************************************************************************)
EXTENDS PleTables

(* The search for primes finds them: there is one between n and 2n. *)
ASSUME PrimesAssumption ==
  \A m \in Models : \A l \in m.layers : \A h \in 0 .. (Heads - 1) : HeadSize(l, h) \in Nat \ {0}

(* Tensors that have been handed out, and those that never will be. *)
Gone == checkpoint \ pending

(* Types. *)
TypeOK ==
  /\ model \in Models /\ format \in Formats /\ written \in Writings
  /\ file \in [Layers -> Files]
  /\ checkpoint \subseteq Tables(Layers, format, written)
  /\ pending \subseteq {t \in checkpoint : t.kind = "outer" \/ file[t.layer] = "none"}
  /\ DOMAIN weight = Layers /\ DOMAIN scale = Layers
  /\ \A l \in Layers : weight[l] \in [Rows(l) -> Int] /\ scale[l] \in [Rows(l) -> Int]
  /\ outer \subseteq Layers /\ gpuOuter \subseteq Layers
  /\ loaded \subseteq Layers \X {"weight", "weight_scale", "weight_scale_2"}
  /\ phase \in {"loading", "ready", "failed"} /\ cut \in BOOLEAN

(* Where the row lies that a part of this index holds for row g. *)
RowOf(l, s, g) == s * PartSize(l, written) + (g - s * PartSize(l, model.parts))

(* The rows of a part that was taken are in its place. *)
PartsInv ==
  \A l \in Layers : \A s \in 0 .. (written - 1) :
    file[l] = "none" /\ Tensor(l, "codes", s) \in Gone =>
      /\ s < model.parts /\ ShapeFits(l, s)
      /\ \A g \in Rows(l) :
           g \div PartSize(l, model.parts) = s =>
             /\ weight[l][g] = RowOf(l, s, g)
             /\ format = "nvfp4" => scale[l][g] = RowOf(l, s, g)

OuterInv ==
  \A l \in Layers : Tensor(l, "outer", 0) \in Gone => l \in outer \cap gpuOuter

NamesInv ==
  \A l \in Layers :
    /\ file[l] = "none" =>
         \A s \in 0 .. (written - 1) :
           Tensor(l, "codes", s) \in Gone =>
             {l} \X (IF format = "nvfp4" THEN {"weight", "weight_scale"} ELSE {"weight"}) \subseteq loaded
    /\ Tensor(l, "outer", 0) \in Gone =>
         {l} \X (IF format = "nvfp4" THEN {"weight_scale_2"} ELSE {"weight_scale"}) \subseteq loaded

IInv ==
  /\ TypeOK
  /\ phase # "failed" => PartsInv /\ OuterInv /\ NamesInv
  /\ phase = "ready" => pending = {} /\ \A l \in Layers : file[l] # "short"
  /\ FailuresAreDeserved

=============================================================================
