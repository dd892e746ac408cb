---------------------------- MODULE LinearKernels ----------------------------
(***************************************************************************)
(* The dense GEMM of one linear layer: the PPU kernels are put first in    *)
(* vLLM's candidate lists (registry/linear_kernels), vLLM selects the      *)
(* first that can run the layer, the kernel converts the loaded weights    *)
(* once, and every call launches a GEMM of a library on them               *)
(* (kernels/linear/scaled_mm/ppu.py, patch/enhancement/dense.py).          *)
(*                                                                         *)
(* A matrix is the names of its dimensions and the order of its memory.    *)
(***************************************************************************)
EXTENDS Naturals, SequencesExt

VARIABLES
  lenv,        (* the environment of the process                             *)
  layerSpec,   (* the layer                                                  *)
  possible,    (* _POSSIBLE_KERNELS: the candidates of each kernel type      *)
  registered,  (* _registered                                                *)
  kernel,      (* the kernel object: its class and what it decided at loading *)
  weights,     (* the layer's parameters                                     *)
  launch       (* the last GEMM launched                                     *)

linVars == << lenv, layerSpec, possible, registered, kernel, weights, launch >>

NoValue == "none"

\* Before the first call.
Unlaunched == [lib |-> NoValue]

\* VLLM_SAIL_DENSE_BACKEND, VLLM_SAIL_DENSE_BF16_DEEPGEMM, VLLM_USE_DEEP_GEMM and whether
\* deep_gemm and acext are installed; PPU 1.0 reports capability (8, 0), PPU 1.5 (8, 9).
LinearEnvs ==
  [backend : {NoValue, "deepgemm", "acext"}, bf16 : BOOLEAN,
   deep_gemm : {"used", "unused", "absent"}, acext : BOOLEAN, ppu15 : BOOLEAN]

Int8Layers ==
  [kind : {"int8"}, symmetric : BOOLEAN, fused : BOOLEAN, channelwise : BOOLEAN, bias : BOOLEAN]
Fp8Layers ==
  [kind : {"fp8"}, act : {"token", "tensor", "group"}, weight : {"channel", "tensor"},
   bf16 : BOOLEAN, bias : BOOLEAN]
BlockLayers ==
  [kind : {"fp8_block"}, group128 : BOOLEAN, shape128 : BOOLEAN, bf16 : BOOLEAN, bias : BOOLEAN,
   configured : BOOLEAN]
Bf16Layers == [kind : {"bf16"}, contiguous : BOOLEAN, bf16 : BOOLEAN, bias : BOOLEAN]

Layers == Int8Layers \cup Fp8Layers \cup BlockLayers \cup Bf16Layers

KernelTypes == {"int8", "fp8", "fp8_block"}

\* A matrix, and what torch does with it.
Matrix(rows, cols, major) == [rows |-> rows, cols |-> cols, major |-> major]
T(w) == Matrix(w.cols, w.rows, IF w.major = "row" THEN "col" ELSE "row")
Contiguous(w) == [w EXCEPT !.major = "row"]

\* What vLLM has loaded: an output x input matrix, which its FP8 methods have transposed;
\* a scale for the tensor, for each part of a fused module, or for each output.
Loaded(l) ==
  [ w |-> IF l.kind = "fp8" THEN T(Matrix("N", "K", "row")) ELSE Matrix("N", "K", "row"),
    scale |-> CASE l.kind = "int8" -> IF l.channelwise THEN "N" ELSE IF l.fused THEN "parts" ELSE "1"
                [] l.kind = "fp8"  -> IF l.weight = "channel" THEN "N" ELSE "1"
                [] OTHER           -> "blocks",
    azp_adj |-> NoValue ]

LinearInit ==
  /\ lenv \in LinearEnvs
  /\ layerSpec \in Layers
  \* What only one kind of layer looks at is varied for that kind.
  /\ lenv.bf16 => layerSpec.kind = "bf16"
  /\ lenv.acext => layerSpec.kind = "int8"
  /\ possible = [k \in KernelTypes |-> << "upstream" >>]
  /\ registered = FALSE
  /\ kernel = [class |-> NoValue]
  /\ weights = Loaded(layerSpec)
  /\ launch = Unlaunched

--------------------------------------------------------------------------------
(* The candidate lists.                                                       *)

\* The kernels of each type, the preferred one first.
_selection_plan ==
  [k \in KernelTypes |->
     CASE k = "int8"      -> << "PPUInt8" >>
       [] k = "fp8"       -> << "PPUDeepGemmFP8", "PPUCutlassFP8" >>
       [] k = "fp8_block" -> << "PPUDeepGemmFp8Block", "PPUCutlassFp8Block" >>]

_register_first(candidates, class) ==
  IF class \in ToSet(candidates) THEN candidates ELSE << class >> \o candidates

\* Reversed, so that the first of the kernels (there are at most two) ends up first.
Insert(candidates, classes) ==
  IF Len(classes) = 1 THEN _register_first(candidates, classes[1])
  ELSE _register_first(_register_first(candidates, classes[2]), classes[1])

register ==
  /\ kernel.class = NoValue /\ ~ registered
  /\ possible' = [k \in KernelTypes |-> Insert(possible[k], _selection_plan[k])]
  /\ registered' = TRUE
  /\ UNCHANGED << lenv, layerSpec, kernel, weights, launch >>

\* Another plugin registers a kernel of its own, before or after.
register_linear_kernel(k) ==
  /\ kernel.class = NoValue /\ k = layerSpec.kind /\ "other" \notin ToSet(possible[k])
  /\ possible' = [possible EXCEPT ![k] = Append(@, "other")]
  /\ UNCHANGED << lenv, layerSpec, registered, kernel, weights, launch >>

--------------------------------------------------------------------------------
(* Selection.                                                                 *)
is_deep_gemm_supported == lenv.deep_gemm = "used"

should_use_deepgemm_for_fp8_linear(bf16, shape) ==
  lenv.backend \in {NoValue, "deepgemm"} /\ is_deep_gemm_supported /\ bf16 /\ shape

\* is_supported() and can_implement() of the classes; the kernels of others accept every
\* layer.
PPUDeepGemmFP8Can(l) ==
  /\ lenv.ppu15 /\ is_deep_gemm_supported
  /\ l.act \in {"token", "tensor"}
  /\ should_use_deepgemm_for_fp8_linear(l.bf16, TRUE)

PPUCutlassFp8BlockCan(l) == l.group128

PPUDeepGemmFp8BlockCan(l) ==
  /\ lenv.ppu15 /\ is_deep_gemm_supported
  /\ l.group128
  /\ l.configured   \* The process has a model configuration.
  /\ should_use_deepgemm_for_fp8_linear(l.bf16, l.shape128)

can_implement(class, l) ==
  CASE class = "PPUDeepGemmFP8"      -> PPUDeepGemmFP8Can(l)
    [] class = "PPUDeepGemmFp8Block" -> PPUDeepGemmFp8BlockCan(l)
    [] class = "PPUCutlassFp8Block"  -> PPUCutlassFp8BlockCan(l)
    [] OTHER -> TRUE

\* vLLM takes the first of the list that can.  An unquantized layer has no kernel object.
SelectKernel ==
  /\ kernel.class = NoValue /\ registered
  /\ kernel' =
       IF layerSpec.kind = "bf16" THEN [class |-> "dense"]
       ELSE LET list == possible[layerSpec.kind]
                can(class) == can_implement(class, layerSpec)
            IN [class |-> list[SelectInSeq(list, can)]]
  /\ UNCHANGED << lenv, layerSpec, possible, registered, weights, launch >>

--------------------------------------------------------------------------------
(* process_weights_after_loading() of the classes.                            *)
NotProcessed == "acext" \notin DOMAIN kernel

Decide(acext, deepgemm) ==
  kernel' = [class |-> kernel.class, acext |-> acext, deepgemm |-> deepgemm]

PPUInt8ProcessWeights ==
  LET acext    == lenv.backend \in {NoValue, "acext"} /\ ~ lenv.ppu15 /\ lenv.acext
      deepgemm == lenv.backend \in {NoValue, "deepgemm"} /\ is_deep_gemm_supported
      w == IF acext \/ deepgemm THEN weights.w ELSE T(weights.w)
  IN /\ kernel.class = "PPUInt8" /\ NotProcessed
     /\ Decide(acext, deepgemm)
     /\ weights' = [ w |-> w,
          scale |-> IF layerSpec.fused /\ ~ layerSpec.channelwise THEN "N" ELSE weights.scale,
          azp_adj |-> IF layerSpec.symmetric THEN NoValue ELSE w.cols ]
     /\ UNCHANGED << lenv, layerSpec, possible, registered, launch >>

\* fp8_gemm_nt takes an output x input matrix, and the block kernels are given one.
PPUDeepGemmFP8ProcessWeights ==
  /\ kernel.class = "PPUDeepGemmFP8" /\ NotProcessed
  /\ Decide(FALSE, TRUE)
  /\ weights' = [weights EXCEPT !.w = Contiguous(T(@))]
  /\ UNCHANGED << lenv, layerSpec, possible, registered, launch >>

\* The other classes keep what the base class has made of the weights.
ProcessWeights ==
  /\ kernel.class \notin {NoValue, "PPUInt8", "PPUDeepGemmFP8"} /\ NotProcessed
  /\ Decide(FALSE, kernel.class = "PPUDeepGemmFp8Block")
  /\ UNCHANGED << lenv, layerSpec, possible, registered, weights, launch >>

--------------------------------------------------------------------------------
(* A call.  A bias is added by the library's epilogue, afterwards, or not.    *)
Launch(lib, B, scale, azp_adj, bias, out) ==
  /\ launch' = [lib |-> lib, B |-> B, scale |-> scale, azp_adj |-> azp_adj, bias |-> bias,
                out |-> out]
  /\ UNCHANGED << lenv, layerSpec, possible, registered, kernel, weights >>

Bias(how) == IF layerSpec.bias THEN how ELSE NoValue

\* MUTANT: the fallback takes the weight as it was kept for the other libraries.
PPUInt8ApplyAsKept ==
  /\ kernel.class = "PPUInt8" /\ ~ NotProcessed
  /\ Launch("cutlass", weights.w, weights.scale, NoValue, Bias("fused"), weights.w.cols)

PPUInt8Apply ==
  LET w == weights.w  rowMajor == kernel.acext \/ kernel.deepgemm IN
  /\ kernel.class = "PPUInt8" /\ ~ NotProcessed
  /\ \/ /\ weights.azp_adj # NoValue
        /\ Launch("cutlass", w, weights.scale, weights.azp_adj, Bias("fused"), w.cols)
     \/ /\ weights.azp_adj = NoValue /\ ~ layerSpec.bias /\ kernel.deepgemm
        /\ Launch("deepgemm", w, weights.scale, NoValue, NoValue, w.rows)
     \/ /\ weights.azp_adj = NoValue /\ (layerSpec.bias \/ ~ kernel.deepgemm) /\ kernel.acext
        /\ Launch("acext", w, weights.scale, NoValue, Bias("fused"), w.rows)
     \/ /\ weights.azp_adj = NoValue /\ (layerSpec.bias \/ ~ kernel.deepgemm) /\ ~ kernel.acext
        /\ LET B == IF rowMajor THEN T(w) ELSE w
           IN Launch("cutlass", B, weights.scale, NoValue, Bias("fused"), B.cols)

\* The base class takes the output's size from the second dimension of the weight.
PPUDeepGemmFP8Apply ==
  /\ kernel.class = "PPUDeepGemmFP8" /\ ~ NotProcessed
  /\ Launch("deepgemm", weights.w, weights.w.rows, NoValue, Bias("added"), weights.w.rows)

PPUCutlassFP8Apply ==
  /\ kernel.class = "PPUCutlassFP8" /\ ~ NotProcessed
  /\ Launch("cutlass", weights.w, weights.scale, NoValue, Bias("fused"), weights.w.cols)

\* The base class adds the bias of the block kernels.
PPUCutlassFp8BlockApply ==
  /\ kernel.class = "PPUCutlassFp8Block" /\ ~ NotProcessed
  /\ Launch("cutlass", T(weights.w), weights.scale, NoValue, Bias("added"), weights.w.rows)

PPUDeepGemmFp8BlockApply ==
  /\ kernel.class = "PPUDeepGemmFp8Block" /\ ~ NotProcessed
  /\ Launch("deepgemm", weights.w, weights.scale, NoValue, Bias("added"), weights.w.rows)

should_use_deepgemm_for_bf16_linear ==
  /\ ~ layerSpec.bias /\ lenv.bf16 /\ lenv.deep_gemm # "absent" /\ lenv.ppu15
  /\ layerSpec.bf16 /\ layerSpec.contiguous

ppu_unquantized_gemm ==
  /\ kernel.class = "dense" /\ ~ NotProcessed
  /\ Launch(IF should_use_deepgemm_for_bf16_linear THEN "deepgemm" ELSE "acblas",
            weights.w, NoValue, NoValue, Bias("fused"), weights.w.rows)

Apply == \/ PPUInt8Apply \/ PPUDeepGemmFP8Apply \/ PPUCutlassFP8Apply
         \/ PPUCutlassFp8BlockApply \/ PPUDeepGemmFp8BlockApply \/ ppu_unquantized_gemm

LinearNext ==
  \/ register \/ \E k \in KernelTypes : register_linear_kernel(k)
  \/ SelectKernel
  \/ PPUInt8ProcessWeights \/ PPUDeepGemmFP8ProcessWeights \/ ProcessWeights
  \/ Apply

LinearSpec == LinearInit /\ [][LinearNext]_linVars

--------------------------------------------------------------------------------
\* What a GEMM library takes: Cutlass an input x output matrix in column-major order, the
\* others its transpose in row-major order.
Takes(lib) == IF lib = "cutlass" THEN Matrix("K", "N", "col") ELSE Matrix("N", "K", "row")

\* The libraries that VLLM_SAIL_DENSE_BACKEND allows; Cutlass is what is left, and the
\* unquantized layers have a variable of their own.
Allowed(lib) ==
  CASE layerSpec.kind = "bf16" -> lib = "deepgemm" => lenv.bf16
    [] OTHER -> lib = "cutlass" \/ lenv.backend \in {NoValue, lib}

\* A kernel of someone else, or the second choice, only where those before it cannot run.
Preferred ==
  LET can(class) == can_implement(class, layerSpec) IN
  /\ kernel.class \in {"upstream", "other"} =>
       layerSpec.kind = "fp8_block" /\ ~ can("PPUCutlassFp8Block")
  /\ kernel.class = "PPUCutlassFP8" => ~ can("PPUDeepGemmFP8")
  /\ kernel.class = "PPUCutlassFp8Block" => ~ can("PPUDeepGemmFp8Block")

\* Whatever kernels others registered, before or after, and whatever is installed: the layer
\* gets the kernel the plugin prefers, and its call goes to a library that the settings
\* allow, with the weight in the order that library takes, although the order was chosen
\* when the weights were loaded and the library is chosen by the call; the bias is applied
\* once, and the result has the layer's outputs.  A symmetric layer, that is: see
\* CutlassTakesColumnMajor.
LaunchFitsLayer ==
  /\ Preferred
  /\ launch.lib # NoValue /\ (layerSpec.kind = "int8" => layerSpec.symmetric) =>
       /\ launch.B = Takes(launch.lib)
       /\ Allowed(launch.lib)
       /\ launch.bias = NoValue <=> ~ layerSpec.bias
       /\ launch.out = "N"
       /\ layerSpec.kind = "fp8" /\ launch.lib = "deepgemm" => launch.scale = "N"

\* "acext and DeepGEMM use row-major weights; Cutlass uses column-major." (ppu.py:229)
CutlassTakesColumnMajor ==
  launch.lib # NoValue /\ launch.lib = "cutlass" => launch.B.major = "col"
================================================================================
