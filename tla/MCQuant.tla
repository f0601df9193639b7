------------------------------- MODULE MCQuant -------------------------------
(***************************************************************************)
(* A small model for checking Quant: two layers, one of whose numbers      *)
(* begins like the other's, a PLE table, the vision tower, the head and    *)
(* the draft model's experts.                                              *)
(***************************************************************************)
EXTENDS QuantInv

HF(layer)   == <<"model", "language_model", "layers", layer>>
VLLM(layer) == <<"language_model", "model", "layers", layer>>
Shared   == <<"mlp", "shared_expert">>
Expert(e) == <<"mlp", "experts", e, "gate_proj">>

Module(name, kind, tensors, draft) ==
  [name |-> name, kind |-> kind, tensors |-> tensors, draft |-> draft]

FusedOf(layer) ==
  Module(VLLM(layer) \o Shared \o <<"gate_up_proj">>, "linear",
         <<HF(layer) \o Shared \o <<"gate_proj">>, HF(layer) \o Shared \o <<"up_proj">> >>, FALSE)

MCModules ==
  << Module(VLLM("1") \o <<"ple", "ngram_embedding">>, "ple",
            <<HF("1") \o <<"ple", "ngram_embedding">> >>, FALSE),
     FusedOf("1"),
     Module(VLLM("1") \o <<"mlp", "experts">>, "experts",
            <<HF("1") \o Expert("0"), HF("1") \o Expert("1")>>, FALSE),
     FusedOf("10"),
     Module(<<"visual", "blocks", "0", "attn", "proj">>, "linear",
            << <<"model", "visual", "blocks", "0", "attn", "proj">> >>, FALSE),
     Module(<<"language_model", "lm_head">>, "linear", << <<"lm_head">> >>, FALSE),
     Module(<<"mtp", "layers", "12", "mlp", "experts">>, "experts",
            << <<"mtp", "layers", "0">> \o Expert("0")>>, TRUE) >>

MCTrees ==
  {HF("1"), HF("10"), HF("1") \o <<"mlp", "experts">>, HF("1") \o Shared, HF("10") \o Shared,
   HF("1") \o <<"ple">>, <<"model", "visual">>, <<"lm_head">>, <<"mtp", "layers", "0">>}

MCLonger == {<<"1", "10">>, <<"1", "12">>}

MCRenames ==
  { << <<"model", "language_model">>, <<"language_model", "model">> >>,
    << <<"model", "visual">>, <<"visual">> >>,
    << <<"lm_head">>, <<"language_model", "lm_head">> >> }

MCLayerIndex == [i \in {"0"} |-> "12"]

=============================================================================
