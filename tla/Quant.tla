-------------------------------- MODULE Quant --------------------------------
(***************************************************************************)
(* How the modules of a model get their quantization methods from a        *)
(* ModelOpt checkpoint (modelopt_patched.py).                              *)
(*                                                                         *)
(* The checkpoint says how its tensors are stored: in one format but for   *)
(* the excluded ones, or, as MIXED_PRECISION, tensor by tensor.  It says   *)
(* so under the checkpoint's names.  The modules of vLLM have names of     *)
(* their own, several tensors each, and layers numbered otherwise; every   *)
(* module looks itself up when it is built, first those of the target,     *)
(* then those of the MTP draft model, with a configuration of its own.     *)
(*                                                                         *)
(* A name is the sequence of its dot-separated components.  The code       *)
(* compares names as text; where a component may end in the middle of      *)
(* another, Longer says so.                                                *)
(***************************************************************************)
EXTENDS Integers, FiniteSets, FiniteSetsExt, SequencesExt

CONSTANTS
  Modules,    \* in the order they are built: [name, kind, tensors, draft]
  Trees,      \* the checkpoint's paths that a wildcard may be put behind
  Longer,     \* <<a, b>>: the component b is a with more text behind it
  Renames,    \* <<from, to>>: the prefixes hf_to_vllm_mapper replaces
  LayerIndex, \* the index of an MTP layer in the checkpoint |-> in the model
  Usual, Unusual,  \* formats of most tensors, and of the others
  MaxUnusual, Groups

VARIABLES
  quantFile, \* hf_quant_config.json, and ple_embedding_dtype
  config,    \* the quantization configuration of the model being built
  methods,   \* the methods of the modules built so far
  status     \* "file", "target", "draft" or "refused"

quantVars == <<quantFile, config, methods, status>>

Kinds     == {"linear", "experts", "ple"}
NvFp4     == {"NVFP4", "W4A16_NVFP4"}
Uniform   == {"FP8", "NVFP4", "W4A16_NVFP4", "MXFP8"}
Method(format, group) == [format |-> format, group |-> IF format \in NvFp4 THEN group ELSE 0]
Unquantized == Method("none", 0)
Refused     == Method("refused", 0)

ASSUME QuantAssumption ==
  /\ Modules \in Seq(Range(Modules))
  /\ \A i \in DOMAIN Modules :
       /\ Modules[i].kind \in Kinds /\ Modules[i].draft \in BOOLEAN
       /\ Modules[i].name \in Seq(Range(Modules[i].name)) \ {<<>>}
       /\ Modules[i].tensors \in Seq(Range(Modules[i].tensors)) \ {<<>>}
  /\ MaxUnusual \in Nat /\ Groups \subseteq Nat
  /\ "none" \in Unusual
  /\ Usual \cup Unusual \subseteq Uniform \cup {"none", "FP8_PB_WO"}

-----------------------------------------------------------------------------
(* Names and the patterns of exclude_modules.                              *)

(* path is the beginning of name, as text. *)
Begins(path, name) ==
  /\ Len(path) <= Len(name)
  /\ IsPrefix(Front(path), name)
  /\ \/ name[Len(path)] = Last(path)
     \/ <<Last(path), name[Len(path)]>> \in Longer

(* path occurs in name, as text. *)
Within(path, name) ==
  \E i \in 1 .. Len(name) : Begins(path, SubSeq(name, i, Len(name)))

Matches(name, pattern) ==
  CASE pattern.wild = "none" -> name = pattern.path
    [] pattern.wild = "*"    -> Begins(pattern.path, name)
    [] pattern.wild = ".*"   -> IsStrictPrefix(pattern.path, name)

Parent(name) == Front(name)

(* The shards that vLLM packs into one linear layer.                       *)
Shards(name) ==
  CASE Last(name) = "gate_up_proj" -> {"gate_proj", "up_proj"}
    [] Last(name) = "qkv_proj"     -> {"q_proj", "k_proj", "v_proj"}
    [] OTHER -> {}

-----------------------------------------------------------------------------
(* Checkpoints.                                                            *)

AllTensors == FlattenSeq([i \in DOMAIN Modules |-> Modules[i].tensors])
Tensors    == Range(AllTensors)

Storages ==
  UNION {LET Odd == UNION {kSubset(k, Tensors) : k \in 0 .. MaxUnusual}
         IN  {[t \in Tensors |-> IF t \in DOMAIN odd THEN odd[t] ELSE usual] :
                odd \in UNION {[S -> Unusual] : S \in Odd}} : usual \in Usual}

(* ModelOpt lists as excluded what it left unquantized, either by name or  *)
(* by the trees all of whose tensors it left.                              *)
Excludes(storage, wild) ==
  LET trees  == {[path |-> t, wild |-> wild] : t \in IF wild = "none" THEN {} ELSE Trees}
      usable == {p \in trees : \A t \in Tensors : Matches(t, p) => storage[t] = "none"}
  IN  usable \cup
      {[path |-> t, wild |-> "none"] :
         t \in {t \in Tensors : storage[t] = "none" /\ \A p \in usable : ~Matches(t, p)}}

PleTensors == UNION {Range(Modules[i].tensors) : i \in {j \in DOMAIN Modules : Modules[j].kind = "ple"}}

(* Tensors are stored as the file says; FP8 and MXFP8 checkpoints quantize *)
(* no embeddings, and a group size that is not the default is written down. *)
(* Only a mixed configuration finds shards without packed_modules_mapping. *)
WellFormed(f) ==
  LET quantized == Range(f.storage) \ {"none"}
  IN  /\ f.algo # "MIXED_PRECISION" =>
           /\ quantized \subseteq {f.algo}
           /\ f.algo \notin NvFp4 => \A t \in PleTensors : f.storage[t] = "none"
           /\ f.top \/ f.group = 16
           /\ f.packed
      /\ f.ple # "none" => \A t \in PleTensors : f.storage[t] \in {"none", f.ple}

QuantFiles ==
  UNION {
    {f \in [storage : {s}, algo : {"MIXED_PRECISION"} \cup (Uniform \cap Range(s)),
            excludes : {Excludes(s, w) : w \in {"none", "*", ".*"}},
            backwards : BOOLEAN, top : BOOLEAN, group : Groups,
            ple : {"none", "FP8", "NVFP4"}, packed : BOOLEAN] : WellFormed(f)}
    : s \in Storages}

(* quantized_layers, in the order of the file.                             *)
QuantizedLayers(f) ==
  LET order  == IF f.backwards THEN Reverse(AllTensors) ELSE AllTensors
      entry(t) == [key |-> t, algo |-> f.storage[t],
                   group |-> CASE f.storage[t] \in NvFp4 -> f.group
                               [] f.storage[t] = "MXFP8" -> 32
                               [] OTHER -> 128]
  IN  FlattenSeq([i \in DOMAIN order |->
                    IF f.storage[order[i]] = "none" THEN <<>> ELSE <<entry(order[i])>>])

-----------------------------------------------------------------------------
(* The configuration of a model.                                           *)

(* Mutant: the group size of any entry. *)
GroupedAny(entry) == TRUE

Grouped(entry) == entry.algo \in NvFp4

(* from_config, and _from_config of the class that claims the algorithm.   *)
Parsed(f) ==
  LET listed == IF f.algo = "MIXED_PRECISION" THEN QuantizedLayers(f) ELSE <<>>
      first  == SelectInSeq(listed, Grouped)
  IN  [algo |-> f.algo, listed |-> listed, excludes |-> f.excludes, packed |-> f.packed,
       group |-> CASE f.top                -> f.group
                   [] ~f.top /\ first > 0 -> listed[first].group
                   [] OTHER                -> 16]

(* WeightsMapper: a prefix is replaced with the dot behind it.             *)
Mapped(name, dotted) ==
  LET applies(r) == IsStrictPrefix(r[1], name) \/ (dotted /\ r[1] = name)
  IN  IF \E r \in Renames : applies(r)
      THEN LET r == CHOOSE r \in Renames : applies(r)
           IN  r[2] \o SubSeq(name, Len(r[1]) + 1, Len(name))
      ELSE name

(* Mutant: a wildcard is mapped as it is. *)
Unsplit(pattern) == {pattern}

(* module_path* becomes module_path and module_path.* *)
Split(pattern) ==
  IF pattern.wild = "*"
  THEN {[pattern EXCEPT !.wild = "none"], [pattern EXCEPT !.wild = ".*"]}
  ELSE {pattern}

(* apply_vllm_mapper *)
ForTarget(c) ==
  [c EXCEPT
     !.excludes = {[p EXCEPT !.path = Mapped(p.path, p.wild = ".*")] :
                     p \in UNION {Split(p) : p \in @}},
     !.listed   = [i \in DOMAIN c.listed |->
                     [c.listed[i] EXCEPT !.key = Mapped(c.listed[i].key, FALSE)]]]

(* Mutant: names of the draft model's layers stay as they are. *)
RenumberedNot(name) == name

(* _remap_ignored_layers *)
Renumbered(name) ==
  [i \in DOMAIN name |->
     IF name[1] = "mtp" /\ i > 1 /\ name[i - 1] = "layers" THEN LayerIndex[name[i]] ELSE name[i]]

(* _make_draft_vllm_config: only the excluded names are renumbered.        *)
ForDraft(c) ==
  [c EXCEPT !.excludes = {[p EXCEPT !.path = Renumbered(p.path)] : p \in @}]

-----------------------------------------------------------------------------
(* What a module finds out about itself: a format, "none" or "refused".    *)

FirstFound(found) ==
  LET i == SelectInSeq(found, LAMBDA a : a # "none")
  IN  IF i = 0 THEN "none" ELSE found[i]

(* Mutant: the draft layer looks for its own index only. *)
CandidatesUnbridged(name) == <<name>>

(* _quantized_layer_prefix_candidates.  The target's and the checkpoint's  *)
(* prefix are tried both ways, and the MTP layer at its local index.       *)
Candidates(name) ==
  LET behind(prefix, other) ==
        IF IsStrictPrefix(prefix, name)
        THEN <<other \o SubSeq(name, Len(prefix) + 1, Len(name))>> ELSE <<>>
  IN  <<name>>
      \o (IF Last(name) = "lm_head" /\ Len(name) > 1 THEN << <<"lm_head">> >> ELSE <<>>)
      \o behind(<<"language_model", "model">>, <<"model", "language_model">>)
      \o behind(<<"model", "language_model">>, <<"language_model", "model">>)
      \o (IF Len(name) > 3 /\ name[1] = "mtp" /\ name[2] = "layers" /\ name[3] # "0"
          THEN << [name EXCEPT ![3] = "0"] >> ELSE <<>>)

FirstListed(listed, Test(_)) ==
  LET i == SelectInSeq(listed, LAMBDA e : Test(e.key))
  IN  IF i = 0 THEN "none" ELSE listed[i].algo

(* Mutant: a layer whose shards disagree takes the format of one. *)
AgreedAny(algos) == IF algos = {} THEN "none" ELSE CHOOSE a \in algos : TRUE

Agreed(algos) ==
  CASE algos = {} -> "none"
    [] Cardinality(algos) = 1 -> CHOOSE a \in algos : TRUE
    [] OTHER -> "refused"

(* Mutant: shards are told by the last component of their name. *)
ShardAlgosAnywhere(listed, parent, shards) ==
  {e.algo : e \in {e \in Range(listed) : Last(e.key) \in shards}}

ShardAlgos(listed, parent, shards) ==
  {e.algo : e \in {e \in Range(listed) : \E s \in shards : e.key = Append(parent, s)}}

Direct(name, c) ==
  FirstFound([i \in DOMAIN Candidates(name) |->
                FirstListed(c.listed, LAMBDA k : k = Candidates(name)[i])])

Packed(name, c) ==
  IF c.packed
  THEN Agreed(UNION {ShardAlgos(c.listed, parent, Shards(name)) :
                       parent \in Range(Candidates(Parent(name)))})
  ELSE "none"

Children(name, c) ==
  FirstFound([i \in DOMAIN Candidates(name) |->
                FirstListed(c.listed, LAMBDA k : IsStrictPrefix(Candidates(name)[i], k))])

Siblings(name, c) ==
  IF Last(name) = "experts"
  THEN FirstListed(c.listed, LAMBDA k : IsStrictPrefix(Parent(name), k))
  ELSE "none"

Unpacked(name, c) ==
  FirstFound([i \in DOMAIN Candidates(name) |->
                Agreed(ShardAlgos(c.listed, Parent(Candidates(name)[i]), Shards(name)))])

(* Mutant: the neighbours are asked before the experts' own tensors. *)
SearchSiblingsFirst(name, c) ==
  <<Direct(name, c), Packed(name, c), Siblings(name, c), Children(name, c), Unpacked(name, c)>>

Search(name, c) ==
  <<Direct(name, c), Packed(name, c), Children(name, c), Siblings(name, c), Unpacked(name, c)>>

(* _resolve_quant_algo *)
Resolve(name, c) == FirstFound(Search(name, c))

-----------------------------------------------------------------------------
(* The method of a module.                                                 *)

(* Mutant: a packed layer is skipped with the first of its shards. *)
SkippedFirst(module, c) ==
  LET names == {module.name} \cup {Append(Parent(module.name), s) : s \in Shards(module.name)}
  IN  IF \E p \in c.excludes : \/ p.wild = "none" /\ p.path \in names
                               \/ module.kind = "experts" /\ Within(module.name, p.path)
      THEN "yes" ELSE "no"

(* is_layer_skipped, which knows exact names, packed shards and experts.   *)
Skipped(module, c) ==
  LET byName(name) == \E p \in c.excludes : p.wild = "none" /\ p.path = name
      skipped == {s \in Shards(module.name) : byName(Append(Parent(module.name), s))}
  IN  CASE c.packed /\ Shards(module.name) # {} ->
             IF skipped = {} THEN "no" ELSE IF skipped = Shards(module.name) THEN "yes" ELSE "refused"
        [] module.kind = "experts" ->
             IF \E p \in c.excludes : Within(module.name, p.path) THEN "yes" ELSE "no"
        [] OTHER -> IF byName(module.name) THEN "yes" ELSE "no"

(* is_layer_excluded *)
Excluded(module, c) ==
  CASE c.excludes = {} -> "no"
    [] Skipped(module, c) # "no" -> Skipped(module, c)
    [] OTHER ->
         IF \E p \in c.excludes : \/ p.wild = "none" /\ Within(p.path, module.name)
                                  \/ Matches(module.name, p)
         THEN "yes" ELSE "no"

(* get_quant_method of the mixed configuration, for a format.              *)
MixedMethod(module, algo, group) ==
  CASE algo = "refused" -> Refused
    [] algo \in Uniform \/ (algo = "FP8_PB_WO" /\ module.kind = "experts") -> Method(algo, group)
    [] OTHER -> Unquantized

(* _get_ple_embedding_quant_method *)
PleMethod(module, c, dtype) ==
  LET algo == Resolve(module.name, c)
  IN  CASE dtype # "none" -> Method(dtype, 16)
        [] dtype = "none" /\ c.algo = "MIXED_PRECISION" ->
             IF algo = "none" THEN Unquantized
             ELSE IF algo \in {"FP8", "NVFP4"} THEN Method(algo, 16) ELSE Refused
        [] dtype = "none" /\ c.algo \in NvFp4 ->
             IF Excluded(module, c) = "yes" THEN Unquantized ELSE Method("NVFP4", 16)
        [] OTHER -> Unquantized

(* get_quant_method *)
MethodOf(module, c, dtype) ==
  CASE module.kind = "ple" -> PleMethod(module, c, dtype)
    [] module.kind # "ple" /\ Excluded(module, c) = "refused" -> Refused
    [] module.kind # "ple" /\ Excluded(module, c) = "yes" -> Unquantized
    [] OTHER -> IF c.algo = "MIXED_PRECISION"
                THEN MixedMethod(module, Resolve(module.name, c), c.group)
                ELSE Method(c.algo, c.group)

-----------------------------------------------------------------------------

QuantInit ==
  /\ quantFile \in QuantFiles
  /\ config = Parsed(quantFile)
  /\ methods = <<>>
  /\ status = "file"

Refuse == status' = "refused" /\ UNCHANGED <<quantFile, config, methods>>

(* from_config and configure_quant_config for the target model.            *)
Configure ==
  /\ status = "file"
  /\ IF quantFile.algo = "MIXED_PRECISION" /\ config.listed = <<>>
     THEN Refuse
     ELSE /\ status' = "target"
          /\ config' = ForTarget(config)
          /\ UNCHANGED <<quantFile, methods>>

NextModule == Modules[Len(methods) + 1]
Building   == status \in {"target", "draft"} /\ Len(methods) < Len(Modules)

ConfigureDraft ==
  /\ Building /\ status = "target" /\ NextModule.draft
  /\ status' = "draft"
  /\ config' = ForDraft(Parsed(quantFile))
  /\ UNCHANGED <<quantFile, methods>>

Build ==
  /\ Building /\ NextModule.draft = (status = "draft")
  /\ LET method == MethodOf(NextModule, config, quantFile.ple)
     IN  IF method = Refused
         THEN Refuse
         ELSE methods' = Append(methods, method) /\ UNCHANGED <<quantFile, config, status>>

QuantNext == Configure \/ ConfigureDraft \/ Build

QuantSpec == QuantInit /\ [][QuantNext]_quantVars

-----------------------------------------------------------------------------
(* Properties.                                                             *)

Stored(module) ==
  IF module.kind = "ple" /\ quantFile.ple # "none" THEN {quantFile.ple}
  ELSE {quantFile.storage[module.tensors[i]] : i \in DOMAIN module.tensors}

(* The formats the code has no linear method for in a mixed checkpoint.    *)
Served(module, format) ==
  format = "FP8_PB_WO" => module.kind = "experts"

(***************************************************************************)
(* A module all of whose tensors are stored in one format gets the method  *)
(* of that format, with the checkpoint's group size, and one whose tensors *)
(* are not quantized gets none: whatever the order of the file, the        *)
(* renaming and renumbering of names, the form of the exclusions and its   *)
(* neighbours.  Otherwise scales would be loaded as something else, or     *)
(* not at all.                                                             *)
(***************************************************************************)
MethodsFitTheCheckpoint ==
  \A i \in DOMAIN methods :
    \A format \in Stored(Modules[i]) :
      Stored(Modules[i]) = {format} /\ Served(Modules[i], format) =>
        IF Modules[i].kind = "ple"
        THEN methods[i].format = (IF format \in NvFp4 THEN "NVFP4" ELSE format)
        ELSE methods[i] = Method(format, quantFile.group)

(***************************************************************************)
(* A packed layer has one method: if its shards are stored in different    *)
(* formats, it is not built.  (If one is not quantized at all, this takes  *)
(* the model class's packed_modules_mapping.)                              *)
(***************************************************************************)
DisagreementIsRefused ==
  \A i \in DOMAIN methods :
    Shards(Modules[i].name) # {} =>
      Cardinality(Stored(Modules[i]) \ IF quantFile.packed THEN {} ELSE {"none"}) <= 1

(***************************************************************************)
(* Only what the code cannot serve stops a model from being built: shards  *)
(* that disagree, an empty quantized_layers, or a PLE table in a format    *)
(* without an embedding method.                                            *)
(***************************************************************************)
RefusalsAreDeserved ==
  status = "refused" =>
    \/ quantFile.algo = "MIXED_PRECISION" /\ config.listed = <<>>
    \/ \E i \in DOMAIN Modules :
         \/ Shards(Modules[i].name) # {} /\ Cardinality(Stored(Modules[i])) > 1
         \/ Modules[i].kind = "ple" /\ ~(Stored(Modules[i]) \subseteq {"none", "FP8", "NVFP4"})

=============================================================================
