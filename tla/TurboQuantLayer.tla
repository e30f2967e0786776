--------------------------- MODULE TurboQuantLayer ---------------------------
(***************************************************************************)
(* How an attention layer comes to use the TurboQuant KV cache on Ascend,   *)
(* and its forward pass as far as shapes decide whether it runs.            *)
(*                                                                         *)
(* The set-up is spread over several objects that find one another by the   *)
(* attributes of the layer: the engine arguments choose the layers to skip, *)
(* importing the model runner patches the slot size, Attention.__init__     *)
(* asks the quantisation config for a method and then creates the           *)
(* TurboQuant buffers, the worker reports a cache spec for every layer, the *)
(* engine groups the specs, the model runner replaces the class of          *)
(* layer.impl and shapes the cache, and the first forward pass derives the  *)
(* rotated centroids. Each of these is one action.                          *)
(***************************************************************************)
EXTENDS TurboQuantOps

CONSTANTS
    LayerCounts,        \* numbers of layers tried (num_hidden_layers)
    HeadSizes,          \* head sizes tried
    SlidingPatterns,    \* sets of layers with a sliding window (of one size)
    QuantConfigs        \* quantisation configs tried

\* What the quantisation config of the checkpoint has in store for attention layers:
\* nothing (none at all, or compressed tensors), ModelSlim weights only, the scales of
\* fa or indexer quantisation, or a C8 cache, on a node that produces KV for others or
\* on one that does not.
AllQuantConfigs == {"none", "modelslim", "fa", "C8", "C8_producer"}

ASSUME LayerAssumption ==
    /\ \A n \in LayerCounts : n \in Nat \ {0}
    /\ \A d \in HeadSizes : d \in Nat \ {0} /\ d % 2 = 0    \* pack_4bit packs pairs
    /\ QuantConfigs \subseteq AllQuantConfigs

TQ_PRESETS ==
    [turboquant_k8v4    |-> [key_quant_bits |-> 8, value_quant_bits |-> 4],
     turboquant_4bit_nc |-> [key_quant_bits |-> 4, value_quant_bits |-> 4],
     turboquant_k3v4_nc |-> [key_quant_bits |-> 3, value_quant_bits |-> 4],
     turboquant_3bit_nc |-> [key_quant_bits |-> 3, value_quant_bits |-> 3]]

VARIABLES
    stage,              \* how far the set-up has come
    given,              \* the model, the command line, the checkpoint, the installation
    skip,               \* kv_cache_dtype_skip_layers: layers, and "sliding_window"
    patched,            \* TurboQuantConfig._ascend_patched
    layers,             \* the attributes of the layers constructed so far
    specs,              \* the KV cache spec of each layer, and then the shape of its cache
    error               \* the exception that stopped the engine, or "none"

layer_vars == <<stage, given, skip, patched, layers, specs, error>>

Givens ==
    [num_layers : LayerCounts, head_size : HeadSizes, sliding : SlidingPatterns,
     is_hybrid : BOOLEAN,                         \* attention + Mamba
     cache_dtype : DOMAIN TQ_PRESETS,             \* --kv-cache-dtype
     disable_hybrid_kv_cache_manager : BOOLEAN,
     quant_config : QuantConfigs,
     importable : BOOLEAN]                        \* whether turboquant_ops can be imported

head_size == given.head_size
Layers == 0 .. given.num_layers - 1
is_sliding(l) == l \in given.sliding

LayerInit ==
    /\ stage = "args"
    /\ given \in Givens
    /\ skip \in [indices : SUBSET Layers, sliding_window : BOOLEAN]
    /\ patched = FALSE
    /\ layers = <<>> /\ specs = <<>>
    /\ error = "none"

Raise(e) == error' = e /\ stage' = "stopped"
-----------------------------------------------------------------------------
(* TurboQuantConfig *)

Smaller(a, b) == IF a < b THEN a ELSE b

\* Variant: the last layers are counted from one too far.
get_boundary_skip_layers_shifted(num_layers) ==
    LET n == Smaller(2, num_layers \div 2)
    IN  0 .. n - 1 \cup num_layers - n + 1 .. num_layers

\* The first and the last two layers, at most half of them each.
get_boundary_skip_layers(num_layers) ==
    LET n == Smaller(2, num_layers \div 2)
    IN  0 .. n - 1 \cup num_layers - n .. num_layers - 1

preset == TQ_PRESETS[given.cache_dtype]

centroid_bits ==
    IF preset.key_quant_bits = 8 THEN preset.value_quant_bits ELSE preset.key_quant_bits

\* The slot of vLLM's own layout, which differs from the Ascend one.
slot_size_of_preset ==
    LET bytes(bits) == (head_size * bits + 7) \div 8
        key == IF preset.key_quant_bits = 8 THEN head_size ELSE bytes(preset.key_quant_bits) + 2
        slot == key + bytes(preset.value_quant_bits) + 4
    IN  slot + (slot % 2)

slot_size_aligned ==
    IF patched THEN compute_paper_slot_size(head_size) ELSE slot_size_of_preset
-----------------------------------------------------------------------------
(* create_engine_config, and the import of the model runner in the worker *)

\* The names of the layers to skip are sorted as numbers.
CreateEngineConfig ==
    /\ stage = "args"
    /\ \/ given.is_hybrid /\ Raise("NotImplementedError") /\ UNCHANGED skip
       \/ ~given.is_hybrid /\ skip.sliding_window /\ Raise("ValueError") /\ UNCHANGED skip
       \/ /\ ~given.is_hybrid /\ ~skip.sliding_window
          /\ skip' = [skip EXCEPT !.indices = @ \cup get_boundary_skip_layers(given.num_layers)]
          /\ stage' = "import" /\ UNCHANGED error
    /\ UNCHANGED <<given, patched, layers, specs>>

\* Variant: _patch_tq_slot_size is left to a later caller.
ImportModelRunner_without_patch ==
    /\ stage = "import"
    /\ stage' = "model"
    /\ UNCHANGED <<given, skip, patched, layers, specs, error>>

\* _patch_tq_slot_size gives up without a word when the import fails.
ImportModelRunner ==
    /\ stage = "import"
    /\ patched' = (patched \/ given.importable)
    /\ stage' = "model"
    /\ UNCHANGED <<given, skip, layers, specs, error>>
-----------------------------------------------------------------------------
(* Attention.__init__ *)

skipped(l) == l \in skip.indices \/ (skip.sliding_window /\ is_sliding(l))

\* The layer before quantisation is set up. dtype is kv_cache_torch_dtype; centroids,
\* how many _tq_centroids has. The quantisation configs that Ascend supports have no
\* kv_cache_scheme, which would make the dtype fp8.
bare_layer(l) ==
    [turboquant |-> ~skipped(l), dtype |-> IF skipped(l) THEN "float" ELSE "uint8",
     impl |-> "AscendAttention", tq_config |-> FALSE, centroids |-> 0,
     patched_spec |-> FALSE, pi_centroids |-> <<>>, tq_cached |-> FALSE]

\* The first branch that applies. The TurboQuant method is found by the attribute
\* _tq_config.
get_quant_method(layer) ==
    CASE given.quant_config = "fa" -> "FAQuant"
      [] given.quant_config \in {"C8", "C8_producer"} -> "C8"
      [] given.quant_config = "modelslim" /\ layer.tq_config -> "TurboQuant"
      [] OTHER -> "none"

\* create_weights of the three methods. That of fa and indexer quantisation only adds
\* scales.
create_weights(layer, method) ==
    CASE method = "TurboQuant" ->
           [layer EXCEPT !.dtype = "uint8", !.centroids = 16, !.patched_spec = TRUE,
                         !.impl = "AscendTurboQuant"]
      [] method = "C8" ->
           [layer EXCEPT !.dtype = IF given.quant_config = "C8_producer" THEN @ ELSE "int8",
                         !.impl = "AscendC8"]
      [] OTHER -> layer

_init_kv_cache_quant(layer) == create_weights(layer, get_quant_method(layer))

_init_turboquant_buffers(layer) ==
    IF layer.turboquant
    THEN [layer EXCEPT !.centroids = 2 ^ centroid_bits, !.tq_config = TRUE]
    ELSE layer

ConstructLayer ==
    /\ stage = "model" /\ Len(layers) < given.num_layers
    /\ layers' = Append(layers,
          _init_turboquant_buffers(_init_kv_cache_quant(bare_layer(Len(layers)))))
    /\ UNCHANGED <<stage, given, skip, patched, specs, error>>

layer_of(l) == layers[l + 1]
-----------------------------------------------------------------------------
(* The KV cache specs. slot is the last dimension of the cache tensors; blocks, the    *)
(* block size in units of the configured one.                                         *)

spec_of(kind, layer, slot) == [kind |-> kind, dtype |-> layer.dtype, slot |-> slot, blocks |-> 1]

\* create_weights replaces the method of the layer by its own.
get_kv_cache_spec(l) ==
    LET layer == layer_of(l) IN
    IF layer.patched_spec THEN spec_of("TQFull", layer, compute_paper_slot_size(head_size))
    ELSE IF is_sliding(l) THEN spec_of("SlidingWindow", layer, head_size)
    ELSE IF layer.turboquant THEN spec_of("TQFull", layer, slot_size_aligned)
    ELSE spec_of("Full", layer, head_size)

GetKVCacheSpec ==
    /\ stage = "model" /\ Len(layers) = given.num_layers
    /\ specs' = [l \in Layers |-> get_kv_cache_spec(l)]
    /\ stage' = "specs"
    /\ UNCHANGED <<given, skip, patched, layers, error>>

itemsize(dtype) == IF dtype = "float" THEN 2 ELSE 1

page_size_bytes(spec) ==
    spec.blocks * IF spec.kind = "TQFull" THEN spec.slot
                  ELSE 2 * spec.slot * itemsize(spec.dtype)

\* Whether the specs merge into the first: a full-attention spec takes in every spec of
\* its class or of a subclass with the same fields of AttentionSpec.
is_kv_cache_spec_uniform(s) ==
    \A l \in Layers :
      IF s[0].kind = "Full" THEN s[l].kind # "SlidingWindow" /\ s[l].dtype = s[0].dtype
      ELSE s[l] = s[0]

is_uniform_type(s) ==
    \A l \in Layers : s[l].kind = "SlidingWindow" <=> s[0].kind = "SlidingWindow"

\* Without the hybrid manager, sliding-window layers keep all their tokens.
unify_hybrid_kv_cache_specs(s) ==
    IF is_uniform_type(s) THEN s
    ELSE [l \in Layers |-> IF s[l].kind = "SlidingWindow" THEN [s[l] EXCEPT !.kind = "Full"]
                           ELSE s[l]]

max_page_size(s) ==
    CHOOSE p \in {page_size_bytes(s[l]) : l \in Layers} : \A l \in Layers : page_size_bytes(s[l]) <= p

\* Smaller pages take larger blocks.
unify_kv_cache_spec_page_size(s) ==
    [l \in Layers |-> [s[l] EXCEPT !.blocks = @ * (max_page_size(s) \div page_size_bytes(s[l]))]]

GetKVCacheGroups ==
    LET s == IF given.disable_hybrid_kv_cache_manager THEN unify_hybrid_kv_cache_specs(specs)
             ELSE specs
    IN  /\ stage = "specs"
        /\ \/ /\ is_kv_cache_spec_uniform(s)
              /\ specs' = [l \in Layers |-> s[0]]
              /\ stage' = "groups" /\ UNCHANGED error
           \/ /\ ~is_kv_cache_spec_uniform(s) /\ is_uniform_type(s)
              /\ specs' = s
              /\ stage' = "groups" /\ UNCHANGED error
           \/ /\ ~is_uniform_type(s)
              /\ \A l \in Layers : max_page_size(s) % page_size_bytes(s[l]) = 0
              /\ specs' = unify_kv_cache_spec_page_size(s)
              /\ stage' = "groups" /\ UNCHANGED error
           \/ /\ ~is_uniform_type(s)
              /\ \E l \in Layers : max_page_size(s) % page_size_bytes(s[l]) # 0
              /\ Raise("NotImplementedError") /\ UNCHANGED specs
        /\ UNCHANGED <<given, skip, patched, layers>>

\* Variant: layers that create_weights did not see keep their class.
surgery_after_create_weights(layer) ==
    IF layer.patched_spec THEN [layer EXCEPT !.impl = "AscendTurboQuant"] ELSE layer

\* _apply_turboquant_class_surgery
surgery(layer) ==
    IF given.importable /\ layer.tq_config
    THEN [layer EXCEPT !.impl = "AscendTurboQuant", !.dtype = "uint8"]
    ELSE layer

\* The cache of each layer is shaped by its spec.
InitializeKVCache ==
    /\ stage = "groups"
    /\ layers' = [i \in DOMAIN layers |-> surgery(layers[i])]
    /\ stage' = "serving"
    /\ UNCHANGED <<given, skip, patched, specs, error>>
-----------------------------------------------------------------------------
(* AscendTurboQuantAttentionBackendImpl.forward *)

\* What a pass has for the layer: no metadata, metadata without tokens, or tokens in
\* one of the states that forward tells apart.
Passes == {"no_metadata", "no_tokens", "pooling", "PrefillNoCache", "DecodeOnly", "ChunkedPrefill"}

\* The bytes that store_turboquant_kv writes for a token and head: the length of the
\* slot data, which does not depend on the vectors.
stored_bytes ==
    LET zero == [y |-> [j \in 1 .. head_size |-> 0], norm |-> 0]
    IN  Len(slot_data(zero, zero, <<0>>))

\* compute_pi_centroids is the product of a vector and a (D, D) matrix.
can_derive(layer) == layer.tq_cached \/ layer.centroids = head_size

_ensure_on_device(layer) ==
    [layer EXCEPT !.pi_centroids = <<head_size>>, !.tq_cached = TRUE]

\* Where the pass fails, if it does: deriving the rotated centroids, writing the
\* slot, or reading their second dimension (dequant_paged_kv).
failure(l, pass) ==
    IF ~can_derive(layer_of(l)) THEN "size mismatch in matmul"
    ELSE IF specs[l].slot # stored_bytes THEN "shape mismatch in store"
    ELSE IF pass \in {"DecodeOnly", "ChunkedPrefill"}
            /\ Len(_ensure_on_device(layer_of(l)).pi_centroids) < 2 THEN "IndexError"
    ELSE "none"

Forward(l, pass) ==
    /\ stage = "serving" /\ layer_of(l).impl = "AscendTurboQuant"
    /\ \/ pass \in {"no_metadata", "no_tokens"} /\ UNCHANGED <<stage, layers, error>>
       \/ /\ pass \notin {"no_metadata", "no_tokens"}
          /\ IF failure(l, pass) = "none" THEN UNCHANGED <<stage, error>>
             ELSE Raise(failure(l, pass))
          /\ layers' = IF can_derive(layer_of(l))
                       THEN [layers EXCEPT ![l + 1] = _ensure_on_device(@)]
                       ELSE layers
    /\ UNCHANGED <<given, skip, patched, specs>>
-----------------------------------------------------------------------------
LayerNext ==
    \/ CreateEngineConfig \/ ImportModelRunner \/ ConstructLayer
    \/ GetKVCacheSpec \/ GetKVCacheGroups \/ InitializeKVCache
    \/ \E l \in Layers, pass \in Passes : Forward(l, pass)

LayerSpec == LayerInit /\ [][LayerNext]_layer_vars
-----------------------------------------------------------------------------
(* What the set-up guarantees *)

served_by_turboquant(l) == layer_of(l).impl = "AscendTurboQuant"

\* Where the TurboQuant class serves a layer and the layer has its single tensor, a
\* slot of it takes exactly the bytes that store_turboquant_kv concatenates. The worker
\* reports the size when it is asked for the specs, so _patch_tq_slot_size must have run
\* before; when turboquant_ops cannot be imported neither the patch nor the class
\* surgery happens. All presets share this one size, although spec.md:151-153 wants those
\* of 4bit_nc and 3bit_nc to differ.
SlotsFit ==
    stage = "serving" =>
      \A l \in Layers :
        served_by_turboquant(l) /\ specs[l].kind = "TQFull" => specs[l].slot = stored_bytes

\* A layer is served by the TurboQuant class if and only if its cache is the single
\* TurboQuant tensor, whatever method the quantisation config finds and however the
\* specs are grouped, with three exceptions: layers with a sliding window (their spec is
\* not a TurboQuant one), a C8 checkpoint on a node that is no producer (all specs have
\* dtype int8 and merge into the first), and an installation whose turboquant_ops
\* cannot be imported.
ImplMatchesCache ==
    stage = "serving" /\ given.quant_config # "C8" /\ given.importable =>
      \A l \in Layers \ given.sliding :
        served_by_turboquant(l) <=> specs[l].kind = "TQFull"

\* The boundary layers (the first and the last two; with fewer than four layers, all but
\* the middle one) and those the user names keep an uncompressed cache and are never
\* served by the TurboQuant class: they have no _tq_config.
SkippedLayersUncompressed ==
    stage = "serving" =>
      \A l \in Layers :
        \/ l \in skip.indices
        \/ given.num_layers >= 4 /\ (l < 2 \/ l >= given.num_layers - 2)
        \/ given.num_layers < 4 /\ 2 * l + 1 # given.num_layers
        => specs[l].kind # "TQFull" /\ ~served_by_turboquant(l)

\* compute_pi_centroids has "(n_centroids, D)" rows to gather from, so the forward
\* pass of a TurboQuant layer succeeds.
ForwardSucceeds ==
    error \notin {"size mismatch in matmul", "IndexError"}

\* "Ensure 4-bit centroids": a TurboQuant layer in service has the 16 centroids that
\* create_weights would see to (spec.md:83-85 gives 3-bit keys 8 of them).
FourBitCentroids ==
    stage = "serving" =>
      \A l \in Layers : served_by_turboquant(l) => layer_of(l).centroids = 16

\* kv_cache_dtype_skip_layers "accepts layer indices or attention type names".
SkipPatternsAccepted == error # "ValueError"
=============================================================================
