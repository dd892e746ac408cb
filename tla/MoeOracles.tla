----------------------------- MODULE MoeOracles -----------------------------
(***************************************************************************)
(* How a mixture-of-experts layer comes by its kernels: the oracles of      *)
(* registry/moe_backends choose a backend, the tables of the same oracles   *)
(* and of patch/enhancement/mxfp4.py prepare the weights for it, and the    *)
(* experts of the backend read what was prepared.  The modules of vLLM that *)
(* build layers may have captured the functions of an oracle before the     *)
(* plugin replaced them; registration repairs the aliases it knows of.      *)
(***************************************************************************)
EXTENDS Naturals, Sequences, SequencesExt

CONSTANTS
  OracleEnvs,    \* [requested: VLLM_SAIL_MOE_BACKEND; deep_gemm, acext: the libraries that
                 \*  load; sm80: compute capability (8, 0); marlin: the opt-in of the Marlin
                 \*  gate; marlin_input: VLLM_MARLIN_INPUT_DTYPE asks for 8 bits]
  OracleLayers   \* [oracle, moe_backend, batched, act, bias, quant, v4]

ASSUME OracleAssumption ==
  /\ OracleEnvs \subseteq
       [requested : {"unset", "deepgemm", "acext", "triton"}, deep_gemm : BOOLEAN, acext : BOOLEAN,
        sm80 : BOOLEAN, marlin : BOOLEAN, marlin_input : BOOLEAN]
  /\ OracleLayers \subseteq
       [oracle : {"unquantized", "fp8", "int8", "wna16", "mxfp4"},
        moe_backend : {"auto", "ppu_deep_gemm", "ppu_deep_gemm_w4a16", "ppu_acext", "triton",
                       "marlin"},
        batched : BOOLEAN, act : {"silu", "swiglustep", "swigluoai"}, bias : BOOLEAN,
        quant : {"plain", "block", "awq"}, v4 : BOOLEAN]

VARIABLES
  oenv, olayer,
  aliases,       \* what the module that builds the layer holds of each function
  oracles,       \* "upstream", "installed" (patch.install), "registered", "raised"
  ostage,        \* how far the layer is built, and how it ended
  obackend,      \* the backend of the layer
  prepared       \* what its weights, its sizes and its inputs were made for

oracleVars == << oenv, olayer, aliases, oracles, ostage, obackend, prepared >>

Aliases == {"select", "convert", "config", "quantize"}
Unprepared == [weights |-> "checkpoint", align |-> 1, inputs |-> "unset"]

_PPU_CANDIDATES ==
  << "PPU_DEEPGEMM_MXFP4", "BATCHED_PPU_DEEPGEMM_MXFP4",
     "PPU_DEEPGEMM_MXFP4_BF16_MMA", "BATCHED_PPU_DEEPGEMM_MXFP4_BF16_MMA",
     "PPU_DEEPGEMM_MXFP4_BF16", "BATCHED_PPU_DEEPGEMM_MXFP4_BF16" >>

_ppu_backends ==
  [ w4a4 |-> {"PPU_DEEPGEMM_MXFP4", "BATCHED_PPU_DEEPGEMM_MXFP4"},
    bf16 |-> {"PPU_DEEPGEMM_MXFP4_BF16", "BATCHED_PPU_DEEPGEMM_MXFP4_BF16"},
    mma  |-> {"PPU_DEEPGEMM_MXFP4_BF16_MMA", "BATCHED_PPU_DEEPGEMM_MXFP4_BF16_MMA"} ]

DeepGemmBackends == {"PPU_DEEPGEMM", "BATCHED_PPU_DEEPGEMM"} \cup Range(_PPU_CANDIDATES)
PluginBackends   == DeepGemmBackends \cup {"ACEXT"}

Format(l) == IF l.batched THEN "batched" ELSE "standard"

--------------------------------------------------------------------------------
(* The experts.                                                               *)
backend_to_kernel_cls ==
  [ PPU_DEEPGEMM                        |-> "PPUDeepGemmExperts",
    BATCHED_PPU_DEEPGEMM                |-> "PPUBatchedDeepGemmExperts",
    ACEXT                               |-> "AcextExperts",
    PPU_DEEPGEMM_MXFP4                  |-> "PPUDeepGemmExpertsMXFP4",
    BATCHED_PPU_DEEPGEMM_MXFP4          |-> "PPUBatchedDeepGemmExpertsMXFP4",
    PPU_DEEPGEMM_MXFP4_BF16             |-> "PPUDeepGemmExperts",
    BATCHED_PPU_DEEPGEMM_MXFP4_BF16     |-> "PPUBatchedDeepGemmExperts",
    PPU_DEEPGEMM_MXFP4_BF16_MMA         |-> "PPUDeepGemmExpertsW4FA16MMA",
    BATCHED_PPU_DEEPGEMM_MXFP4_BF16_MMA |-> "PPUBatchedDeepGemmExpertsW4FA16MMA" ]

DeepGemmSchemes ==
  { << "bf16", "none" >>, << "fp8_block", "fp8_block" >>, << "fp8_channel", "fp8_token" >>,
    << "int8", "int8" >>, << "int4", "none" >>, << "mxfp4", "none" >> }

StandardDeepGemm ==
  [ format |-> "standard", device |-> oenv.deep_gemm, schemes |-> DeepGemmSchemes,
    acts |-> {"silu", "swiglustep"}, bias |-> FALSE ]
BatchedDeepGemm ==
  [ format |-> "batched", device |-> oenv.deep_gemm, schemes |-> DeepGemmSchemes,
    acts |-> {"silu"}, bias |-> FALSE ]
StandardMXFP4 ==
  [ format |-> "standard", device |-> oenv.deep_gemm /\ ~ oenv.sm80,
    schemes |-> {<< "mxfp4", "mxfp4" >>}, acts |-> {"silu", "swiglustep", "swigluoai"},
    bias |-> TRUE ]
BatchedMXFP4 ==
  [ format |-> "batched", device |-> oenv.deep_gemm /\ ~ oenv.sm80,
    schemes |-> {<< "mxfp4", "mxfp4" >>}, acts |-> {"silu", "swiglustep", "swigluoai"},
    bias |-> TRUE ]
W4FA16MMA(experts) ==
  [experts EXCEPT !.device = oenv.deep_gemm /\ ~ oenv.sm80, !.schemes = {<< "mxfp4", "none" >>}]
\* The class asks only whether the platform is PPU, not whether the library loaded.
AcextSupports ==
  [ format |-> "standard", device |-> TRUE,
    schemes |-> {<< "bf16", "none" >>, << "int8", "int8" >>}, acts |-> {"silu"}, bias |-> TRUE ]

FusedMoEExperts ==
  [ PPUDeepGemmExperts                 |-> StandardDeepGemm,
    PPUBatchedDeepGemmExperts          |-> BatchedDeepGemm,
    PPUDeepGemmExpertsW4FA16MMA        |-> W4FA16MMA(StandardDeepGemm),
    PPUBatchedDeepGemmExpertsW4FA16MMA |-> W4FA16MMA(BatchedDeepGemm),
    PPUDeepGemmExpertsMXFP4            |-> StandardMXFP4,
    PPUBatchedDeepGemmExpertsMXFP4     |-> BatchedMXFP4,
    AcextExperts                       |-> AcextSupports ]

\* The schemes of the layers that are not MXFP4.
Scheme(l) ==
  CASE l.oracle = "unquantized" -> << "bf16", "none" >>
    [] l.oracle = "int8"        -> << "int8", "int8" >>
    [] l.oracle = "wna16"       -> << "int4", "none" >>
    [] l.oracle = "fp8"         -> IF l.quant = "block" THEN << "fp8_block", "fp8_block" >>
                                   ELSE << "fp8_channel", "fp8_token" >>

\* The Marlin gate: vLLM's answer, except that PPU has to opt in.
gated_check_moe_marlin_supports_config == oenv.marlin

\* vLLM's own experts, as the plugin's lists rely on them.
UpstreamSupports(b, l) ==
  CASE b = "TRITON"         -> ~ l.batched /\ l.oracle \in {"unquantized", "fp8", "int8"}
    [] b = "BATCHED_TRITON" -> l.batched /\ l.oracle \in {"unquantized", "fp8"}
    [] b = "MARLIN"         -> ~ l.batched /\ (l.oracle = "wna16" => gated_check_moe_marlin_supports_config)
    [] b = "EMULATION"      -> ~ l.batched
    [] OTHER                -> FALSE

is_supported_config(b, l, scheme) ==
  IF b \in PluginBackends
  THEN LET cls == FusedMoEExperts[backend_to_kernel_cls[b]]
       IN /\ cls.device /\ cls.format = Format(l)
          /\ scheme \in cls.schemes /\ l.act \in cls.acts
          /\ (l.bias => cls.bias)
  ELSE UpstreamSupports(b, l)

--------------------------------------------------------------------------------
(* The priorities.                                                            *)
Asked(name) == oenv.requested \in {"unset", name}

deep_gemm_enabled(l) == oenv.deep_gemm /\ Asked("deepgemm") /\ ~ l.bias

\* Those of the plugin that the conditions enable, in this order.
Enabled(l, acext) ==
  LET deep(b) == IF deep_gemm_enabled(l) THEN << b >> ELSE << >>
  IN deep("PPU_DEEPGEMM") \o (IF acext THEN << "ACEXT" >> ELSE << >>) \o deep("BATCHED_PPU_DEEPGEMM")

\* The members of PPU follow those of vLLM's DeepGEMM.
After(backends, b, new) ==
  LET i == CHOOSE i \in DOMAIN backends : backends[i] = b
  IN SubSeq(backends, 1, i) \o << new >> \o SubSeq(backends, i + 1, Len(backends))

UpstreamPriority ==
  [ fp8   |-> << "DEEPGEMM", "BATCHED_DEEPGEMM", "TRITON", "BATCHED_TRITON" >>,
    int8  |-> << "TRITON" >>,
    mxfp4 |-> << "DEEPGEMM_MXFP4", "MARLIN", "BATCHED_MARLIN", "EMULATION" >> ]

unquantized_priority(l) ==
  Enabled(l, oenv.acext /\ Asked("acext") /\ ~ l.batched) \o << "TRITON", "BATCHED_TRITON" >>

fp8_priority ==
  IF ~ Asked("deepgemm") THEN UpstreamPriority.fp8
  ELSE After(After(UpstreamPriority.fp8, "DEEPGEMM", "PPU_DEEPGEMM"),
             "BATCHED_DEEPGEMM", "BATCHED_PPU_DEEPGEMM")

int8_priority(l) == Enabled(l, oenv.acext /\ Asked("acext")) \o UpstreamPriority.int8

wna16_priority ==
  << "PPU_DEEPGEMM", "BATCHED_PPU_DEEPGEMM", "MARLIN", "BATCHED_MARLIN", "TRITON",
     "HUMMING", "EMULATION" >>

_get_priority_backends_for_gpt_oss == _PPU_CANDIDATES \o UpstreamPriority.mxfp4

_get_priority_backends(l) ==
  CASE l.oracle = "unquantized" -> unquantized_priority(l)
    [] l.oracle = "fp8"         -> fp8_priority
    [] l.oracle = "int8"        -> int8_priority(l)
    [] l.oracle = "wna16"       -> wna16_priority

--------------------------------------------------------------------------------
(* The selections: a backend, or "none" where the code raises.                *)
_backend_incompatibility_reason(b, l) ==
  IF b \in DeepGemmBackends
  THEN l.quant # "plain" \/ l.bias \/ oenv.marlin_input
  ELSE FALSE

Usable(b, l) ==
  /\ (l.oracle = "wna16" => ~ _backend_incompatibility_reason(b, l))
  /\ is_supported_config(b, l, Scheme(l))

Try(b, l) == IF Usable(b, l) THEN b ELSE "none"

FirstOf(backends, passing) ==
  LET hits == { i \in DOMAIN backends : backends[i] \in passing }
  IN IF hits = {} THEN "none" ELSE backends[CHOOSE i \in hits : \A j \in hits : i <= j]

map_backend(l) ==
  CASE l.moe_backend = "ppu_deep_gemm"                                   -> "PPU_DEEPGEMM"
    [] l.moe_backend = "ppu_deep_gemm_w4a16" /\ l.oracle = "wna16"       -> "PPU_DEEPGEMM"
    [] l.moe_backend = "ppu_acext" /\ l.oracle \in {"unquantized", "int8"} -> "ACEXT"
    [] l.moe_backend = "triton" /\ l.batched                             -> "BATCHED_TRITON"
    [] l.moe_backend = "triton" /\ ~ l.batched                           -> "TRITON"
    [] l.moe_backend = "marlin" /\ l.oracle = "wna16"                    -> "MARLIN"
    [] OTHER                                                             -> "none"

UpstreamSelect(l) ==
  IF l.moe_backend = "auto"
  THEN FirstOf(_get_priority_backends(l), { b \in ToSet(_get_priority_backends(l)) : Usable(b, l) })
  ELSE Try(map_backend(l), l)

select_unquantized_moe_backend(l) ==
  IF l.moe_backend = "ppu_deep_gemm" /\ l.batched
  THEN Try("BATCHED_PPU_DEEPGEMM", l) ELSE UpstreamSelect(l)

_select_ppu_backend(l) ==
  Try(IF l.batched THEN "BATCHED_PPU_DEEPGEMM" ELSE "PPU_DEEPGEMM", l)

select_fp8_moe_backend(l) ==
  IF \/ l.moe_backend = "ppu_deep_gemm"
     \/ l.moe_backend = "auto" /\ oenv.requested = "deepgemm"
  THEN _select_ppu_backend(l) ELSE UpstreamSelect(l)

select_int8_moe_backend(l) ==
  IF ~ l.batched \/ l.moe_backend = "auto" THEN UpstreamSelect(l)
  ELSE IF map_backend(l) = "PPU_DEEPGEMM" THEN Try("BATCHED_PPU_DEEPGEMM", l)
  ELSE "none"

select_wna16_moe_backend(l) ==
  IF l.moe_backend \in {"ppu_deep_gemm", "ppu_deep_gemm_w4a16"} /\ l.batched
  THEN Try("BATCHED_PPU_DEEPGEMM", l) ELSE UpstreamSelect(l)

\* MXFP4 has an activation key too: that of the backend, or the one asked for.
_backend_activation_key(b) == IF b \in _ppu_backends.w4a4 THEN "mxfp4" ELSE "none"

_filter_by_activation(backends, key) ==
  { b \in ToSet(backends) : b = "EMULATION" \/ key \in {"any", _backend_activation_key(b)} }

map_mxfp4_backend(l) ==
  CASE l.moe_backend = "ppu_deep_gemm"       -> << "PPU_DEEPGEMM_MXFP4" >>
    [] l.moe_backend = "ppu_deep_gemm_w4a16" ->
         << "PPU_DEEPGEMM_MXFP4_BF16_MMA", "PPU_DEEPGEMM_MXFP4_BF16" >>
    [] l.moe_backend = "marlin"              -> << "MARLIN" >>
    [] OTHER                                 -> << >>

_batched_backend_map ==
  [ MARLIN                      |-> "BATCHED_MARLIN",
    PPU_DEEPGEMM_MXFP4          |-> "BATCHED_PPU_DEEPGEMM_MXFP4",
    PPU_DEEPGEMM_MXFP4_BF16     |-> "BATCHED_PPU_DEEPGEMM_MXFP4_BF16",
    PPU_DEEPGEMM_MXFP4_BF16_MMA |-> "BATCHED_PPU_DEEPGEMM_MXFP4_BF16_MMA" ]

\* A backend and its batched form have one activation key.
_get_requested_backends(l) ==
  LET named == map_mxfp4_backend(l)
  IN IF l.batched THEN [i \in DOMAIN named |-> _batched_backend_map[named[i]]] ELSE named

select_mxfp4_moe_backend(l, key) ==
  LET auto  == l.moe_backend = "auto"
      tried == IF auto THEN _get_priority_backends_for_gpt_oss ELSE _get_requested_backends(l)
      keyOf(b) == IF auto /\ key # "any" THEN key ELSE _backend_activation_key(b)
  IN FirstOf(tried, { b \in _filter_by_activation(tried, key) :
                        is_supported_config(b, l, << "mxfp4", keyOf(b) >>) })

\* W4A4, except on compute capability (8, 0) and where W4A16 or Marlin was asked for.
select_deepseek_v4_mxfp4_moe_backend(l) ==
  select_mxfp4_moe_backend(l,
    IF ~ oenv.sm80 /\ l.moe_backend \notin {"marlin", "ppu_deep_gemm_w4a16"}
    THEN "mxfp4" ELSE "any")

PluginSelect(l) ==
  CASE l.oracle = "unquantized"     -> select_unquantized_moe_backend(l)
    [] l.oracle = "fp8"             -> select_fp8_moe_backend(l)
    [] l.oracle = "int8"            -> select_int8_moe_backend(l)
    [] l.oracle = "wna16"           -> select_wna16_moe_backend(l)
    [] l.oracle = "mxfp4" /\ l.v4   -> select_deepseek_v4_mxfp4_moe_backend(l)
    [] l.oracle = "mxfp4" /\ ~ l.v4 -> select_mxfp4_moe_backend(l, "any")

--------------------------------------------------------------------------------
(* Registration and the aliases.                                              *)
\* What replaces each function; the others stay vLLM's.
ReplacedBy(oracle) ==
  [ select   |-> "register",
    convert  |-> CASE oracle = "mxfp4" -> "install" [] oracle = "unquantized" -> "never"
                   [] OTHER -> "register",
    config   |-> CASE oracle \in {"int8", "mxfp4"} -> "install" [] oracle = "unquantized" -> "never"
                   [] OTHER -> "register",
    quantize |-> "install" ]

\* MUTANT: the conversions are left out of the aliases that are repaired.
_ORACLE_ALIAS_CONSUMERS_Selectors(oracle) ==
  IF oracle = "unquantized" THEN {"select"} ELSE {"select", "config"}

_ORACLE_ALIAS_CONSUMERS(oracle) ==
  IF oracle = "unquantized" THEN {"select"} ELSE {"select", "convert", "config"}

OracleInit ==
  /\ oenv \in OracleEnvs /\ olayer \in OracleLayers
  /\ aliases = [a \in Aliases |-> "unloaded"]
  /\ oracles = "upstream" /\ ostage = "new" /\ obackend = "none" /\ prepared = Unprepared

\* The module that builds the layer is imported: it captures what the functions are now,
\* or another plugin's replacement of the selector.
LoadConsumer ==
  /\ oracles # "raised" /\ aliases.select = "unloaded"
  /\ LET done == CASE oracles = "upstream"   -> {}
                   [] oracles = "installed"  -> {"install"}
                   [] oracles = "registered" -> {"install", "register"}
         now  == [a \in Aliases |->
                    IF ReplacedBy(olayer.oracle)[a] \in done THEN "patched" ELSE "upstream"]
     IN \/ aliases' = now
        \/ oracles # "registered" /\ aliases' = [now EXCEPT !.select = "foreign"]
  /\ UNCHANGED << oenv, olayer, oracles, ostage, obackend, prepared >>

\* patch.install() comes first; it repairs the captured quantizer where it finds it.
_rebind_loaded_quantize_input_aliases ==
  /\ oracles = "upstream"
  /\ oracles' = "installed"
  /\ aliases' = [aliases EXCEPT !.quantize = IF @ = "upstream" THEN "patched" ELSE @]
  /\ UNCHANGED << oenv, olayer, ostage, obackend, prepared >>

\* Registration repairs the aliases it knows of, and raises on one it does not expect.
_rebind_loaded_oracle_aliases ==
  /\ oracles = "installed"
  /\ LET known == _ORACLE_ALIAS_CONSUMERS(olayer.oracle) IN
     IF \E a \in known : aliases[a] = "foreign"
     THEN oracles' = "raised" /\ UNCHANGED aliases
     ELSE /\ oracles' = "registered"
          /\ aliases' = [a \in Aliases |->
                           IF a \in known /\ aliases[a] = "upstream" THEN "patched" ELSE aliases[a]]
  /\ UNCHANGED << oenv, olayer, ostage, obackend, prepared >>

--------------------------------------------------------------------------------
(* A layer.                                                                   *)
Select ==
  /\ oracles = "registered" /\ aliases.select # "unloaded" /\ ostage = "new"
  /\ obackend' = IF aliases.select = "patched" THEN PluginSelect(olayer)
                 ELSE UpstreamSelect(olayer)
  /\ ostage' = IF obackend' = "none" THEN "refused" ELSE "selected"
  /\ UNCHANGED << oenv, olayer, aliases, oracles, prepared >>

\* The weights are made in sizes that are multiples of this.
RoundUp(b) ==
  CASE b \in _ppu_backends.bf16 \cup {"MARLIN"} -> 128
    [] b \in _ppu_backends.mma                  -> 64
    [] b \in _ppu_backends.w4a4                 -> 32
    [] OTHER                                    -> 1

mxfp4_round_up_hidden_size_and_intermediate_size ==
  /\ ostage = "selected"
  /\ ostage' = "created"
  /\ prepared' = [prepared EXCEPT !.align = IF olayer.oracle = "mxfp4" THEN RoundUp(obackend) ELSE 1]
  /\ UNCHANGED << oenv, olayer, aliases, oracles, obackend >>

\* The layout of the weights, by oracle; "raise" where the function does.
convert_to_fp8_moe_kernel_format(b, l) ==
  IF b \in PluginBackends THEN IF l.quant = "block" THEN "deepgemm" ELSE "checkpoint" ELSE b

convert_to_int8_moe_kernel_format(b, l) == IF b \in PluginBackends THEN "checkpoint" ELSE b

convert_to_wna16_moe_kernel_format(b, l) == IF b \in PluginBackends THEN "MARLIN" ELSE b

_convert_weight(b, l) ==
  CASE b \in _ppu_backends.bf16 -> IF oenv.marlin_input THEN "raise" ELSE "MARLIN"
    [] b \in _ppu_backends.mma  -> "preprocess_mxfp4_w4a16_scales"
    [] b \in _ppu_backends.w4a4 -> "preprocess_mxfp4_scales"
    [] OTHER                    -> b

Converted(b, l) ==
  CASE l.oracle = "unquantized" -> IF b \in PluginBackends THEN "checkpoint" ELSE b
    [] l.oracle = "fp8"         -> convert_to_fp8_moe_kernel_format(b, l)
    [] l.oracle = "int8"        -> convert_to_int8_moe_kernel_format(b, l)
    [] l.oracle = "wna16"       -> convert_to_wna16_moe_kernel_format(b, l)
    [] l.oracle = "mxfp4"       -> _convert_weight(b, l)

\* vLLM's own function does not know the members that the plugin added.
Unknown(a) ==
  /\ aliases[a] = "upstream" /\ ReplacedBy(olayer.oracle)[a] # "never"
  /\ obackend \in PluginBackends

process_weights_after_loading ==
  /\ ostage = "created"
  /\ LET w == Converted(obackend, olayer) IN
     IF Unknown("convert") THEN ostage' = "unknown" /\ UNCHANGED prepared
     ELSE IF w = "raise" THEN ostage' = "refused" /\ UNCHANGED prepared
     ELSE ostage' = "loaded" /\ prepared' = [prepared EXCEPT !.weights = w]
  /\ UNCHANGED << oenv, olayer, aliases, oracles, obackend >>

\* How the experts will be given their inputs.
InputsOf(b, l) ==
  CASE l.oracle # "mxfp4"       -> Scheme(l)[2]
    [] l.oracle = "mxfp4"       -> _backend_activation_key(b)

get_fused_moe_quant_config ==
  /\ ostage = "loaded"
  /\ IF Unknown("config") THEN ostage' = "unknown" /\ UNCHANGED prepared
     ELSE ostage' = "ready" /\ prepared' = [prepared EXCEPT !.inputs = InputsOf(obackend, olayer)]
  /\ UNCHANGED << oenv, olayer, aliases, oracles, obackend >>

\* A batch: the inputs are quantized by the function that the consumer holds.
ServeBatch ==
  /\ ostage = "ready"
  /\ ostage' = CASE obackend = "ACEXT" /\ ~ oenv.acext -> "missing"
                 [] prepared.inputs = "mxfp4" /\ aliases.quantize # "patched" -> "misquantized"
                 [] OTHER -> "served"
  /\ UNCHANGED << oenv, olayer, aliases, oracles, obackend, prepared >>

\* A layer that was built or refused, and a registration that raised, stay as they are.
Settled ==
  /\ \/ ostage \in {"served", "refused", "unknown", "missing", "misquantized"}
     \/ oracles = "raised"
  /\ UNCHANGED oracleVars

OracleNext ==
  \/ LoadConsumer \/ _rebind_loaded_quantize_input_aliases \/ _rebind_loaded_oracle_aliases
  \/ Select \/ mxfp4_round_up_hidden_size_and_intermediate_size
  \/ process_weights_after_loading \/ get_fused_moe_quant_config \/ ServeBatch \/ Settled

OracleSpec == OracleInit /\ [][OracleNext]_oracleVars

--------------------------------------------------------------------------------
\* What the experts of a plugin backend read.
Reads(b, l) ==
  CASE b \in _ppu_backends.w4a4              -> << "preprocess_mxfp4_scales", 32, "mxfp4" >>
    [] b \in _ppu_backends.mma               -> << "preprocess_mxfp4_w4a16_scales", 64, "none" >>
    [] b \in _ppu_backends.bf16              -> << "MARLIN", 128, "none" >>
    [] l.oracle = "wna16"                    -> << "MARLIN", 1, "none" >>
    [] l.oracle = "fp8" /\ l.quant = "block" -> << "deepgemm", 1, "fp8_block" >>
    [] OTHER                                 -> << "checkpoint", 1, Scheme(l)[2] >>

\* The plugin's kernels that an automatic choice may take: those of the library that
\* VLLM_SAIL_MOE_BACKEND names, of each library where it is unset.
Candidates(l) ==
  { p \in {"PPU_DEEPGEMM", "BATCHED_PPU_DEEPGEMM"} : Asked("deepgemm") }
  \cup { p \in {"ACEXT"} : l.oracle # "fp8" /\ Asked("acext") /\ oenv.acext }

\* A backend that the layer names, in either format, or an automatic choice: vLLM's own
\* kernels where no candidate can serve the layer, but for FP8 with "deepgemm" set.  The
\* oracles of WNA16 and MXFP4 never read the variable: of their automatic choices nothing
\* is said.
MayServe(b, l) ==
  CASE l.moe_backend = "ppu_deep_gemm"       -> b \in DeepGemmBackends
    [] l.moe_backend = "ppu_deep_gemm_w4a16" -> b \in DeepGemmBackends \ _ppu_backends.w4a4
    [] l.moe_backend = "ppu_acext"           -> b = "ACEXT"
    [] l.moe_backend = "triton"              -> b \in {"TRITON", "BATCHED_TRITON"}
    [] l.moe_backend = "marlin"              -> b \in {"MARLIN", "BATCHED_MARLIN"}
    [] l.moe_backend = "auto"                ->
         l.oracle \in {"unquantized", "fp8", "int8"} =>
           /\ b \in PluginBackends => b \in Candidates(l)
           /\ b \notin PluginBackends => \A p \in Candidates(l) : ~ Usable(p, l)
           /\ l.oracle = "fp8" /\ oenv.requested = "deepgemm" => b \in DeepGemmBackends

\* A layer that is not refused has the backend it names, or an automatic choice within
\* VLLM_SAIL_MOE_BACKEND as MayServe says: a kernel of the plugin wherever one that was
\* asked for can serve the layer, and never one that was not.  The backend has the
\* layer's own format, and every table of the oracle prepares the layer for that backend's
\* experts, whenever the module that builds it was imported.  Only a layer that names ACEXT
\* where its library is missing is built in vain: its class asks only for the platform, and
\* the first batch fails (registry/moe_backends, patch/enhancement/mxfp4.py).
ServedAsAsked ==
  ostage \notin {"new", "refused"} =>
    /\ ostage \notin {"unknown", "misquantized"}
    /\ (ostage = "missing" => olayer.moe_backend = "ppu_acext" /\ ~ oenv.acext)
    /\ MayServe(obackend, olayer)
    /\ (obackend \in PluginBackends =>
          FusedMoEExperts[backend_to_kernel_cls[obackend]].format = Format(olayer))
    /\ (obackend \in PluginBackends /\ ostage \in {"ready", "served", "missing"} =>
          << prepared.weights, prepared.align, prepared.inputs >> = Reads(obackend, olayer))
================================================================================
