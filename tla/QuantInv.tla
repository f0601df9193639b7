------------------------------- MODULE QuantInv -------------------------------
(***************************************************************************)
(* The inductive invariant of Quant, and what names have to satisfy for a  *)
(* module to find its own tensors, and no others, in a checkpoint.         *)
(*                                                                         *)
(* Names are the model's and the checkpoint's.  The formats in which the   *)
(* tensors are stored, the order and the form of the file, the group size  *)
(* and what ModelOpt excludes are not restricted by them.                  *)
(***************************************************************************)
EXTENDS Quant

Own(module) == Range(module.tensors)

(* A tensor as a key of quantized_layers, and as an excluded name.         *)
KeyFor(module, t)  == IF module.draft THEN t ELSE Mapped(t, FALSE)
NameFor(module, t) == IF module.draft THEN Renumbered(t) ELSE Mapped(t, FALSE)

(* A pattern of exclude_modules in the configuration of a module.          *)
PatternsFor(module, p) ==
  IF module.draft
  THEN {[p EXCEPT !.path = Renumbered(p.path)]}
  ELSE {[q EXCEPT !.path = Mapped(q.path, q.wild = ".*")] : q \in Split(p)}

(* A pattern excludes a module, but for its shards. *)
Hit(module, p) ==
  \/ Matches(module.name, p)
  \/ p.wild = "none" /\ Within(p.path, module.name)
  \/ module.kind = "experts" /\ Within(module.name, p.path)

TreePatterns == [path : Trees, wild : {"*", ".*"}]

-----------------------------------------------------------------------------
(* The names of a model and of its checkpoint.                             *)

(* Experts are told by their name, and only linear layers are packed.      *)
KindsFit(module) ==
  /\ module.kind = "experts" <=> Last(module.name) = "experts"
  /\ Shards(module.name) # {} => module.kind = "linear"

(* Keys.  A module that is not packed is asked for by a name at which its  *)
(* tensors begin, and no others; a packed one has its shards below one of  *)
(* the names, and nobody else's tensors are taken for them.                *)
KeysFit(module) ==
  LET candidates == Range(Candidates(module.name))
      parents    == {Parent(c) : c \in candidates} \cup Range(Candidates(Parent(module.name)))
      shards     == Shards(module.name)
  IN  /\ \A t \in Tensors :
           (\E c \in candidates : IsPrefix(c, KeyFor(module, t))) <=> t \in Own(module) /\ shards = {}
      /\ shards # {} =>
           /\ \E c \in candidates : \A t \in Own(module) :
                \E s \in shards : KeyFor(module, t) = Append(Parent(c), s)
           /\ \A t \in Tensors \ Own(module), parent \in parents, s \in shards :
                KeyFor(module, t) # Append(parent, s)

(* Excluded names.  A tensor's name excludes its module, or, if that is    *)
(* packed, is the name of one shard, which is no other tensor's.           *)
NamesFit(module) ==
  LET shardNames == {Append(Parent(module.name), s) : s \in Shards(module.name)}
  IN  /\ \A t \in Tensors :
           Hit(module, [path |-> NameFor(module, t), wild |-> "none"])
             <=> t \in Own(module) /\ Shards(module.name) = {}
      /\ Shards(module.name) # {} =>
           /\ \A t \in Tensors : NameFor(module, t) \in shardNames <=> t \in Own(module)
           /\ \A name \in shardNames : \E t \in Own(module) : NameFor(module, t) = name
           /\ \A t, u \in Own(module) : NameFor(module, t) = NameFor(module, u) => t = u

(* Excluded trees.  A tree has all tensors of a module that it excludes or *)
(* of which it has one, and is not called like a shard.  A tree with the   *)
(* tensors of a module excludes it, unless it has them only as text (1 has *)
(* those of 10) and one inside of it does.                                 *)
TreesFit(module) ==
  \A p \in TreePatterns :
    /\ \A q \in PatternsFor(module, p) :
         /\ Hit(module, q) => \A t \in Own(module) : Matches(t, p)
         /\ q.wild = "none" => \A s \in Shards(module.name) : q.path # Append(Parent(module.name), s)
    /\ \A t \in Own(module) : Matches(t, p) =>
         /\ \A u \in Own(module) : Matches(u, p)
         /\ \E tree \in Trees :
              LET inner == [path |-> tree, wild |-> p.wild]
              IN  /\ \A u \in Tensors : Matches(u, inner) => Matches(u, p)
                  /\ \E q \in PatternsFor(module, inner) : Hit(module, q)

(***************************************************************************)
(* Names keep modules apart: whatever prefix, index, shard or wildcard the *)
(* code tries for a module, it finds the module's own tensors and nobody   *)
(* else's, in quantized_layers as among the exclusions.                    *)
(***************************************************************************)
Apart(module) ==
  KindsFit(module) /\ KeysFit(module) /\ NamesFit(module) /\ TreesFit(module)

NamesKeepModulesApart == \A i \in DOMAIN Modules : Apart(Modules[i])

ModulesApart == {i \in DOMAIN Modules : Apart(Modules[i])}

(* What apply_vllm_mapper and _quantized_layer_prefix_candidates           *)
(* (modelopt_patched.py) and _remap_ignored_layers (mtp_patched.py) promise: *)
(* no module has been built under a name that the renamings and the        *)
(* searches take for another module's, or under which they miss its own    *)
(* tensors.                                                                *)
BuiltModulesApart == DOMAIN methods \subseteq ModulesApart

-----------------------------------------------------------------------------
(* The invariant.                                                          *)

(* The configuration by which a module is built, and the method it gets.   *)
ConfigFor(module) == IF module.draft THEN ForDraft(Parsed(quantFile)) ELSE ForTarget(Parsed(quantFile))
MethodFor(module) == MethodOf(module, ConfigFor(module), quantFile.ple)

(* The file is well formed, however many tensors it stores differently. *)
FileInv ==
  /\ quantFile.storage \in [Tensors -> Usual \cup Unusual]
  /\ \E wild \in {"none", "*", ".*"} : quantFile.excludes = Excludes(quantFile.storage, wild)
  /\ quantFile.algo \in Uniform \cup {"MIXED_PRECISION"}
  /\ quantFile.ple \in {"none", "FP8", "NVFP4"}
  /\ quantFile.group \in Nat
  /\ quantFile.top \in BOOLEAN /\ quantFile.packed \in BOOLEAN /\ quantFile.backwards \in BOOLEAN
  /\ WellFormed(quantFile)

(* The target and the draft model have configurations of their own. *)
ConfigInv ==
  /\ status \in {"file", "target", "draft", "refused"}
  /\ status = "file"   => config = Parsed(quantFile)
  /\ status = "target" => config = ForTarget(Parsed(quantFile))
  /\ status = "draft"  => config = ForDraft(Parsed(quantFile))

(* A module gets the method of its configuration, unless it is refused. *)
MethodsInv ==
  /\ methods \in Seq(Range(methods)) /\ Len(methods) <= Len(Modules)
  /\ \A i \in DOMAIN methods : methods[i] = MethodFor(Modules[i]) /\ methods[i] # Refused
  /\ status = "refused" =>
       \/ quantFile.algo = "MIXED_PRECISION" /\ config.listed = <<>>
       \/ \E i \in DOMAIN Modules : MethodFor(Modules[i]) = Refused

QuantIInv == FileInv /\ ConfigInv /\ MethodsInv

=============================================================================
