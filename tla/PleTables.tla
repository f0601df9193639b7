------------------------------- MODULE PleTables -------------------------------
(***************************************************************************)
(* Loading the embedding tables in the offload process, and looking rows   *)
(* up in them: PleOffloadRunner._load_weights and _attach_packed_table in  *)
(* worker.py, load_weights and the lookup of forward_impl in ple_layer.    *)
(*                                                                         *)
(* A checkpoint holds the rows of every layer's table split into parts,    *)
(* and a scale of the whole table.  With NVFP4 a part is two tensors, the  *)
(* codes and the block scales; with FP8 it is one.  vLLM's loader hands a  *)
(* layer its tensors in one or more calls, cut anywhere.  A layer's rows   *)
(* may instead be mapped from a packed file, and its parts are skipped.    *)
(*                                                                         *)
(* A row of a tensor is named by its number in the checkpoint's table.     *)
(* Shapes are numbers of rows, and the process is alone in its group, so   *)
(* it holds all rows.  Dummy weights, tensors that are no part of a table  *)
(* and packed files of a wrong width or type are left out.                 *)
(***************************************************************************)
EXTENDS HashHeads, Sequences, SequencesExt

CONSTANTS
  Models,      \* [layers, parts]: dense layer ids and split_ngram_parts
  Formats,     \* of {"nvfp4", "fp8"}
  Writings,    \* how many parts the checkpoint may have been split into
  Files,       \* of {"none", "whole", "short"}: the packed file of a layer
  MaxMissing   \* bound on the tensors missing in the checkpoint

ASSUME TablesAssumption ==
  /\ Models \subseteq [layers : (SUBSET Nat) \ {{}}, parts : Nat \ {0}]
  /\ Formats \subseteq {"nvfp4", "fp8"}
  /\ Writings \subseteq Nat \ {0}
  /\ Files \subseteq {"none", "whole", "short"}
  /\ MaxMissing \in Nat

VARIABLES
  model, format, file,
  written,     \* parts the checkpoint is split into
  checkpoint,  \* its tensors
  pending,     \* those the loader has yet to hand out
  weight,      \* weight[l]: rows of codes, the parameter ngram_embedding.weight
  scale,       \* scale[l]: rows of block scales, ngram_embedding.weight_scale
  outer,       \* layers whose table scale is loaded
  gpuOuter,    \* layers whose table scale a GPU worker has retained
  loaded,      \* names of parameters that load_weights has returned
  phase,       \* "loading", "ready" or "failed"
  cut          \* history: a part's tensors came in different calls, or one only

source == <<model, format, file, written, checkpoint>>
vars   == <<source, pending, weight, scale, outer, gpuOuter, loaded, phase, cut>>

Layers == model.layers
Rows(l) == 0 .. (TableRows(l) - 1)
None == -1

-----------------------------------------------------------------------------
(* The checkpoint.                                                         *)

Tensor(l, k, s) == [layer |-> l, kind |-> k, part |-> s]

Tables(ls, f, parts) ==
  LET kinds == IF f = "nvfp4" THEN {"codes", "scales"} ELSE {"codes"}
  IN  {Tensor(l, k, s) : l \in ls, k \in kinds, s \in 0 .. (parts - 1)}
        \cup {Tensor(l, "outer", 0) : l \in ls}

PartSize(l, parts) == CeilDiv(TableRows(l), parts)

PartRows(l, parts, s) ==
  {g \in Rows(l) : s * PartSize(l, parts) <= g /\ g < (s + 1) * PartSize(l, parts)}

Init ==
  /\ model \in Models /\ format \in Formats /\ written \in Writings
  /\ file \in [Layers -> Files]
  /\ \E missing \in SUBSET Tables(Layers, format, written) :
       /\ Cardinality(missing) <= MaxMissing
       /\ checkpoint = Tables(Layers, format, written) \ missing
  /\ pending = {t \in checkpoint : t.kind = "outer" \/ file[t.layer] = "none"}
  /\ weight = [l \in Layers |-> [g \in Rows(l) |-> None]]
  /\ scale = weight
  /\ outer = {} /\ gpuOuter = {} /\ loaded = {}
  /\ phase = "loading" /\ cut = FALSE

-----------------------------------------------------------------------------
(* load_weights of a layer, with the tensors ts of one call.               *)

PartsOf(ts, kind) == {t.part : t \in {u \in ts : u.kind = kind}}

CheckpointStart(l, s) == s * PartSize(l, model.parts)

ExpectedRows(l, s) ==
  Max({0, Min({PartSize(l, model.parts), TableRows(l) - CheckpointStart(l, s)})})

(* Mutant: parts of any number of rows are taken. *)
ShapeUnchecked(l, s) == TRUE

ShapeFits(l, s) == Cardinality(PartRows(l, written, s)) = ExpectedRows(l, s)

Accepted(l, ts) ==
  LET codes == PartsOf(ts, "codes") scales == PartsOf(ts, "scales")
  IN  /\ \A s \in codes \cup scales : s < model.parts
      /\ format = "nvfp4" => codes \subseteq scales
      /\ \A s \in codes : ShapeFits(l, s)

(* copy_ple_embedding_shard_: the rows of the parts, from the part's start. *)
Copied(table, l, parts) ==
  [g \in Rows(l) |->
     LET from == {s \in parts : CheckpointStart(l, s) <= g
                                  /\ g < CheckpointStart(l, s) + ExpectedRows(l, s)}
     IN  IF from = {} THEN table[g]
         ELSE LET s == Max(from)
              IN  s * PartSize(l, written) + (g - CheckpointStart(l, s))]

(* The parameters of ngram_embedding. *)
Parameters ==
  {"weight", "weight_scale"} \cup (IF format = "nvfp4" THEN {"weight_scale_2"} ELSE {})

LoadedBy(l, ts) ==
  LET ofParts == IF format = "nvfp4" THEN {"weight", "weight_scale"} ELSE {"weight"}
      ofOuter == IF format = "nvfp4" THEN {"weight_scale_2"} ELSE {"weight_scale"}
  IN  {l} \X ((IF PartsOf(ts, "codes") # {} THEN ofParts ELSE {})
                 \cup (IF PartsOf(ts, "outer") # {} THEN ofOuter ELSE {}))

(* Mutant: a call without the table's scale forgets it. *)
RetainedLast(l, ts) ==
  IF PartsOf(ts, "outer") # {} THEN gpuOuter \cup {l} ELSE gpuOuter \ {l}

(* load_weights in a GPU worker: it keeps the scale of the table only. *)
Retained(l, ts) == IF PartsOf(ts, "outer") # {} THEN gpuOuter \cup {l} ELSE gpuOuter

Load(l, ts) ==
  /\ phase = "loading"
  /\ pending' = pending \ ts
  /\ cut' = (cut \/ (format = "nvfp4" /\ PartsOf(ts, "codes") # PartsOf(ts, "scales")))
  /\ gpuOuter' = Retained(l, ts)
  /\ \/ /\ Accepted(l, ts)
        /\ weight' = [weight EXCEPT ![l] = Copied(@, l, PartsOf(ts, "codes"))]
        /\ scale' = IF format = "nvfp4"
                    THEN [scale EXCEPT ![l] = Copied(@, l, PartsOf(ts, "codes"))]
                    ELSE scale
        /\ outer' = IF PartsOf(ts, "outer") # {} THEN outer \cup {l} ELSE outer
        /\ loaded' = loaded \cup LoadedBy(l, ts)
        /\ UNCHANGED phase
     \/ /\ ~Accepted(l, ts)
        /\ phase' = "failed"
        /\ UNCHANGED <<weight, scale, outer, loaded>>
  /\ UNCHANGED source

-----------------------------------------------------------------------------
(* _load_weights after the checkpoint: every parameter must be loaded but  *)
(* those a packed file replaces, and every packed file must fit.           *)

(* Mutant: the block scales are expected of packed tables too. *)
ExpectedWithScales(l) == Parameters \ (IF file[l] = "none" THEN {} ELSE {"weight"})

Expected(l) ==
  Parameters \ (IF file[l] = "none" THEN {}
                ELSE IF format = "nvfp4" THEN {"weight", "weight_scale"}
                ELSE {"weight"})

Finish ==
  /\ phase = "loading" /\ pending = {}
  /\ LET verified == checkpoint # {} /\ \A l \in Layers : {l} \X Expected(l) \subseteq loaded
         attached == \A l \in Layers : file[l] # "short"
     IN  phase' = IF verified /\ attached THEN "ready" ELSE "failed"
  /\ UNCHANGED <<source, pending, weight, scale, outer, gpuOuter, loaded, cut>>

Next ==
  \/ \E l \in Layers : \E ts \in SUBSET {t \in pending : t.layer = l} :
       ts # {} /\ Load(l, ts)
  \/ Finish

Spec == Init /\ [][Next]_vars

-----------------------------------------------------------------------------
(* forward_impl: the row of an id, of codes and block scales.              *)
Lookup(l, id) ==
  IF file[l] = "whole" THEN <<id, id>>
  ELSE IF format = "nvfp4" THEN <<weight[l][id], scale[l][id]>>
  ELSE <<weight[l][id], weight[l][id]>>

(* torch.remainder of a hash, in the rows of its head. *)
RowId(l, head, hash) == (hash % HeadSize(l, head)) + HeadOffset(l, head)

-----------------------------------------------------------------------------
(* Properties.                                                             *)

(* The rows of a table as the checkpoint has them: each head's, in order.  *)
Layout(l) ==
  FlattenSeq([i \in 1 .. Heads |->
    [x \in 1 .. HeadSize(l, i - 1) |-> <<i - 1, x - 1>>]])

(* No tensor is missing. *)
Complete == checkpoint = Tables(Layers, format, written)

(***************************************************************************)
(* When a process with a complete checkpoint is ready, every hash of every *)
(* head finds the row the checkpoint has for that head and that remainder, *)
(* with its block scales, and the GPU has the scale of the table to decode *)
(* it - however the checkpoint was split and cut into calls.               *)
(***************************************************************************)
LookupsFindTheirRow ==
  phase = "ready" /\ Complete =>
    \A l \in Layers :
      /\ l \in outer \cap gpuOuter
      /\ \A g \in 1 .. Len(Layout(l)) :
           LET head == Layout(l)[g][1] hash == Layout(l)[g][2]
           IN  Lookup(l, RowId(l, head, hash)) = <<g - 1, g - 1>>

(***************************************************************************)
(* Loading fails only for a reason: a tensor is missing, the checkpoint is *)
(* split in another way, a call brings codes without their scales, or a    *)
(* packed file does not fit the table.                                     *)
(***************************************************************************)
FailuresAreDeserved ==
  phase = "failed" =>
    \/ ~Complete
    \/ written # model.parts
    \/ cut
    \/ \E l \in Layers : file[l] = "short"

(***************************************************************************)
(* "PLE offload checkpoint did not load all materialized parameters"       *)
(* (worker.py:478): a process that is ready has loaded all rows.           *)
(***************************************************************************)
MissingRowsAreNoticed ==
  phase = "ready" =>
    \A l \in Layers : file[l] = "none" => \A g \in Rows(l) : weight[l][g] # None

=============================================================================
