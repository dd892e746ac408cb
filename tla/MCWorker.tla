---------------------------- MODULE MCWorker ------------------------------
(* The components of a worker process that do not share state, each on its *)
(* own instance: a behaviour exercises one of them.                        *)
EXTENDS PlaResolver, NativeOps, DeepEpLL, ProfilingRanges, BatchedExperts,
        LinearKernels, KernelWarmup, MoeOracles, SparseIndexer, KeyCompressor,
        QuantizedKeys, RecurrentAttention

VARIABLE component

allVars == << component, vars, nativeVars, epVars, profVars, batchedVars, linVars,
              warmVars, oracleVars, ixVars, kcVars, qkVars, laVars >>

\* Two extensions, the first with an operator of its own and one that vLLM shares.
MCExtensions ==
  << [ops |-> {"rms_norm", "silu"}, sentinel |-> "rms_norm", required |-> {"rms_norm", "silu"}],
     [ops |-> {"moe_sum"}, sentinel |-> "moe_sum", required |-> {"moe_sum"}] >>
MCPortableOps == << "repack", "quant" >>
MCTritonOps   == << "merge" >>
MCExcludedOps == << "cutlass", "repack", "merge" >>
MCForeignClaims ==
  { [ops |-> {}, kernels |-> {}],
    [ops |-> {"rms_norm"}, kernels |-> {}],
    [ops |-> {"rms_norm", "silu", "repack"}, kernels |-> {"rms_norm", "repack"}],
    [ops |-> Ops, kernels |-> Ops] }

\* Shapes of weights; layers; the layers of each rank.
Wa == [n |-> 32]
Wb == [n |-> 512]
E1 == [experts |-> 2, n |-> 1]
E2 == [experts |-> 2, n |-> 2]
E3 == [experts |-> 2, n |-> 3]
Lin(q, v) == [method |-> q, block |-> 128, bias |-> FALSE, w |-> v]
Moe(q, b, class, v1, v2) ==
  [quant |-> q, block |-> b, experts |-> class, topk |-> 2, w1 |-> v1, w2 |-> v2]
Stacks ==
  { << Lin("fp8", Wa), Moe("fp8", 128, "contiguous", E1, E2), Moe("fp8", 0, "batched", E1, E2) >>,
    << Lin("int8", Wa), Lin("int8", Wb), Lin("int8", Wa), Moe("int8", 0, "contiguous", E1, E2) >>,
    << Lin("none", Wb), [Lin("none", Wa) EXCEPT !.bias = TRUE], Moe("none", 0, "contiguous", E1, E1) >>,
    << Moe("fp8", 0, "contiguous", E1, E2), Moe("fp8", 0, "contiguous", E3, E2), Moe("fp8", 0, "contiguous", E1, E3) >>,
    << Moe("mxfp4", 0, "contiguous", E1, E2), Moe("mxfp4_w4a16", 0, "contiguous", E1, E2) >>,
    << Moe("int4_w4a16", 0, "batched", E1, E2), Moe("mxfp4", 0, "batched", E1, E2), Lin("none", Wa) >>,
    << Moe("none", 0, "other", E1, E2) >> }
\* All the ranks hold the same, or the first one layer more.
MCWarmModels == { [r \in 0 .. 2 |-> s] : s \in Stacks } \cup { [r \in {0} |-> << >>] }
  \cup { [r \in 0 .. 2 |-> IF r = 0 THEN Append(s, Lin("int8", Wa)) ELSE s] : s \in Stacks }

\* What vLLM and the environment offer the oracles, and the layers.
MCOracleEnvs ==
  { [requested |-> r, deep_gemm |-> d # "none", acext |-> d = "acext", sm80 |-> d = "acext",
     marlin |-> m, marlin_input |-> m] :
      r \in {"unset", "deepgemm", "acext", "triton"}, d \in {"none", "deep_gemm", "acext"}, m \in BOOLEAN }
OracleLayer(o, backends, acts, biases, quants, vs) ==
  [oracle : {o}, moe_backend : backends, batched : BOOLEAN, act : acts, bias : biases,
   quant : quants, v4 : vs]
MCOracleLayers ==
  OracleLayer("unquantized", {"auto", "ppu_deep_gemm", "ppu_acext", "triton"}, {"silu"}, BOOLEAN,
              {"plain"}, {FALSE})
  \cup OracleLayer("fp8", {"auto", "ppu_deep_gemm", "triton"}, {"silu", "swiglustep"}, {FALSE},
                   {"plain", "block"}, {FALSE})
  \cup OracleLayer("int8", {"auto", "ppu_deep_gemm", "ppu_acext", "triton"}, {"silu"}, BOOLEAN,
                   {"plain"}, {FALSE})
  \cup OracleLayer("wna16", {"auto", "ppu_deep_gemm_w4a16", "marlin"}, {"silu"}, {FALSE},
                   {"plain", "awq"}, {FALSE})
  \cup OracleLayer("mxfp4", {"auto", "ppu_deep_gemm", "ppu_deep_gemm_w4a16", "marlin"},
                   {"silu", "swigluoai"}, {FALSE}, {"plain"}, BOOLEAN)

\* Sparse indexers: the model, its hardware and formats, how its steps are laid out.
Indexer(v4, sm89, fp4, d, flat, native, pre, dg) ==
  [v4 |-> v4, sm89 |-> sm89, mxfp4 |-> fp4, drafts |-> d, use_flattening |-> flat,
   native |-> native, preloaded |-> pre, deep_gemm |-> dg]
MCIndexerEnvs ==
  { Indexer(TRUE, TRUE, TRUE, 1, FALSE, TRUE, TRUE, TRUE),
    Indexer(TRUE, FALSE, FALSE, 1, TRUE, FALSE, TRUE, TRUE),
    Indexer(TRUE, FALSE, FALSE, 0, FALSE, FALSE, FALSE, TRUE),
    Indexer(FALSE, FALSE, FALSE, 1, FALSE, FALSE, FALSE, TRUE),
    Indexer(FALSE, TRUE, FALSE, 0, FALSE, TRUE, FALSE, TRUE),
    Indexer(FALSE, TRUE, TRUE, 0, FALSE, TRUE, FALSE, TRUE),
    Indexer(TRUE, FALSE, TRUE, 0, FALSE, TRUE, FALSE, TRUE),
    Indexer(TRUE, TRUE, FALSE, 0, TRUE, TRUE, FALSE, FALSE) }
MCIndexerPrompts == << 2, 3 >>

\* Compressors: which, on which device, how they run.
Compressor(k, sm80, fp4, p, g, d) ==
  [kind |-> k, sm80 |-> sm80, fp4 |-> fp4, preloaded |-> p, full |-> g, drafts |-> d]
MCCompressorEnvs ==
  { Compressor("indexer", TRUE, FALSE, TRUE, FALSE, 1), Compressor("indexer", FALSE, TRUE, FALSE, TRUE, 1),
    Compressor("csa", TRUE, FALSE, TRUE, FALSE, 1), Compressor("csa", FALSE, FALSE, FALSE, TRUE, 0),
    Compressor("hca", TRUE, FALSE, FALSE, TRUE, 1), Compressor("hca", TRUE, FALSE, TRUE, FALSE, 1),
    Compressor("csa", FALSE, TRUE, FALSE, FALSE, 0), Compressor("other", TRUE, FALSE, FALSE, FALSE, 0) }

\* Numbers below, at and above a tie, of normal and subnormal codes; entries of vectors.
MCMantissas == { a * 2^19 + d : a \in {0, 3, 11, 12, 13, 15}, d \in {0, 1, 2^19 - 1} }
MCEntries   == {-5, 0, 1, 4, 7}

\* Linear-attention layers: the kernels named for decode and prefill, the switch, the rest.
Layer(k, req, pre, use, lib, nat, fp32, d, cp, early) ==
  [kind |-> k, requested |-> req, prefill |-> pre, use_pla |-> use, library |-> lib, native |-> nat,
   fp32 |-> fp32, k128 |-> TRUE, heads |-> TRUE, bound |-> TRUE, drafts |-> d, checkpoints |-> cp,
   preloaded |-> early]
MCLayerEnvs ==
  { Layer("gdn", "auto", "auto", TRUE, TRUE, FALSE, TRUE, 1, FALSE, TRUE),
    Layer("gdn", "pla", "pla", FALSE, TRUE, TRUE, TRUE, 0, FALSE, FALSE),
    Layer("gdn", "cuda", "triton", TRUE, TRUE, TRUE, TRUE, 1, FALSE, FALSE),
    Layer("gdn", "auto", "pla", TRUE, FALSE, TRUE, TRUE, 0, FALSE, FALSE),
    Layer("gdn", "auto", "other", TRUE, TRUE, FALSE, FALSE, 0, FALSE, FALSE),
    Layer("gdn", "triton", "pla", TRUE, TRUE, FALSE, TRUE, 0, FALSE, FALSE),
    Layer("gdn", "pla", "auto", TRUE, FALSE, TRUE, TRUE, 1, FALSE, FALSE),
    Layer("kda", "auto", "auto", TRUE, TRUE, FALSE, TRUE, 0, TRUE, FALSE),
    Layer("kda", "auto", "pla", TRUE, TRUE, FALSE, TRUE, 1, TRUE, FALSE),
    Layer("kda", "auto", "auto", FALSE, TRUE, FALSE, TRUE, 1, TRUE, FALSE),
    Layer("kda", "auto", "other", FALSE, TRUE, FALSE, TRUE, 0, FALSE, FALSE),
    Layer("kda", "triton", "pla", TRUE, TRUE, FALSE, TRUE, 0, FALSE, FALSE),
    Layer("kda", "pla", "triton", TRUE, TRUE, FALSE, TRUE, 0, FALSE, FALSE),
    Layer("kda", "cuda", "other", TRUE, TRUE, FALSE, TRUE, 0, FALSE, FALSE),
    Layer("kda", "auto", "auto", TRUE, FALSE, FALSE, TRUE, 1, FALSE, FALSE) }
MCLayerPrompts == << 1, 2, 1 >>

\* What the components that do not run look like.
PlaAtRest == explicit = FALSE
NativeAtRest == foreign = [ops |-> {}, kernels |-> {}] /\ outlives = FALSE
EpAtRest == /\ overlap = FALSE /\ sync = FALSE /\ recvHook = FALSE /\ nvfp4 = FALSE
            /\ quant = [dtype |-> "none", block |-> 0]
ProfAtRest == works = FALSE
BatchedAtRest == conf = [scheme |-> "bf16", activation |-> "silu", fmt |-> "float32", H |-> 1,
                         n |-> [e \in LocalExperts |-> 0]]
LinearAtRest == /\ lenv = [backend |-> "acext", bf16 |-> FALSE, deep_gemm |-> "absent", acext |-> FALSE,
                       ppu15 |-> FALSE]
               /\ layerSpec = [kind |-> "bf16", contiguous |-> FALSE, bf16 |-> FALSE, bias |-> FALSE]
WarmAtRest == /\ wenv = [warmup |-> "skip", dense |-> "other", moe |-> "other", bf16 |-> FALSE,
                        layout |-> << 1, 1 >>]
             /\ layersOf = [r \in {0} |-> << >>]
OraclesAtRest == /\ oenv = [requested |-> "unset", deep_gemm |-> FALSE, acext |-> FALSE, sm80 |-> FALSE,
                          marlin |-> FALSE, marlin_input |-> FALSE]
                /\ olayer = [oracle |-> "mxfp4", moe_backend |-> "auto", batched |-> FALSE, act |-> "silu",
                             bias |-> FALSE, quant |-> "plain", v4 |-> FALSE]
IndexerAtRest == ixEnv = Indexer(TRUE, FALSE, TRUE, 0, FALSE, TRUE, FALSE, TRUE)
CompressorAtRest == kcEnv = Compressor("csa", FALSE, TRUE, FALSE, FALSE, 0)
KeysAtRest == qkStage = "vectors" /\ values = [query |-> << 0, 0 >>, key |-> << 0, 0 >>, weight |-> 1]
AttentionAtRest == laEnv = Layer("gdn", "pla", "auto", TRUE, FALSE, TRUE, TRUE, 1, FALSE, FALSE)

WorkerInit ==
  /\ component \in {"pla", "native", "deepep", "profiling", "batched", "linear",
                    "warmup", "oracles", "indexer", "compressor", "keys", "attention"}
  /\ IF component = "pla" THEN TRUE ELSE PlaAtRest
  /\ Init
  /\ IF component = "native" THEN TRUE ELSE NativeAtRest
  /\ NativeInit
  /\ IF component = "deepep" THEN TRUE ELSE EpAtRest
  /\ EpInit
  /\ IF component = "profiling" THEN TRUE ELSE ProfAtRest
  /\ ProfInit
  /\ IF component = "batched" THEN TRUE ELSE BatchedAtRest
  /\ BatchedInit
  /\ IF component = "linear" THEN TRUE ELSE LinearAtRest
  /\ LinearInit
  /\ IF component = "warmup" THEN TRUE ELSE WarmAtRest
  /\ WarmInit
  /\ IF component = "oracles" THEN TRUE ELSE OraclesAtRest
  /\ OracleInit
  /\ IF component = "indexer" THEN TRUE ELSE IndexerAtRest
  /\ IndexerInit
  /\ IF component = "compressor" THEN TRUE ELSE CompressorAtRest
  /\ KeyCompressorInit
  /\ IF component = "keys" THEN TRUE ELSE KeysAtRest
  /\ QuantizedInit
  /\ IF component = "attention" THEN TRUE ELSE AttentionAtRest
  /\ LayerInit

PlaStep ==
  /\ component = "pla" /\ Next
  /\ UNCHANGED << component, nativeVars, epVars, profVars, batchedVars,
                  linVars, warmVars, oracleVars, ixVars, kcVars, qkVars, laVars >>
NativeStep ==
  /\ component = "native" /\ NativeNext
  /\ UNCHANGED << component, vars, epVars, profVars, batchedVars,
                  linVars, warmVars, oracleVars, ixVars, kcVars, qkVars, laVars >>
EpStep ==
  /\ component = "deepep" /\ EpNext
  /\ UNCHANGED << component, vars, nativeVars, profVars, batchedVars,
                  linVars, warmVars, oracleVars, ixVars, kcVars, qkVars, laVars >>
ProfStep ==
  /\ component = "profiling" /\ ProfNext
  /\ UNCHANGED << component, vars, nativeVars, epVars, batchedVars,
                  linVars, warmVars, oracleVars, ixVars, kcVars, qkVars, laVars >>
BatchedStep ==
  /\ component = "batched" /\ BatchedNext
  /\ UNCHANGED << component, vars, nativeVars, epVars, profVars,
                  linVars, warmVars, oracleVars, ixVars, kcVars, qkVars, laVars >>
LinearStep ==
  /\ component = "linear" /\ LinearNext
  /\ UNCHANGED << component, vars, nativeVars, epVars, profVars,
                  batchedVars, warmVars, oracleVars, ixVars, kcVars, qkVars, laVars >>
WarmStep ==
  /\ component = "warmup" /\ WarmNext
  /\ UNCHANGED << component, vars, nativeVars, epVars, profVars,
                  batchedVars, linVars, oracleVars, ixVars, kcVars, qkVars, laVars >>
OraclesStep ==
  /\ component = "oracles" /\ OracleNext
  /\ UNCHANGED << component, vars, nativeVars, epVars, profVars,
                  batchedVars, linVars, warmVars, ixVars, kcVars, qkVars, laVars >>
IndexerStep ==
  /\ component = "indexer" /\ IndexerNext
  /\ UNCHANGED << component, vars, nativeVars, epVars, profVars,
                  batchedVars, linVars, warmVars, oracleVars, kcVars, qkVars, laVars >>
CompressorStep ==
  /\ component = "compressor" /\ KeyCompressorNext
  /\ UNCHANGED << component, vars, nativeVars, epVars,
                  profVars, batchedVars, linVars, warmVars, oracleVars, ixVars, qkVars, laVars >>
KeysStep ==
  /\ component = "keys" /\ QuantizedNext
  /\ UNCHANGED << component, vars, nativeVars, epVars, profVars,
                  batchedVars, linVars, warmVars, oracleVars, ixVars, kcVars, laVars >>
AttentionStep ==
  /\ component = "attention" /\ LayerNext
  /\ UNCHANGED << component, vars, nativeVars, epVars, profVars,
                  batchedVars, linVars, warmVars, oracleVars, ixVars, kcVars, qkVars >>

WorkerNext == PlaStep \/ NativeStep \/ EpStep \/ ProfStep \/ BatchedStep \/
              LinearStep \/ WarmStep \/ OraclesStep \/ IndexerStep \/ CompressorStep \/
              KeysStep \/ AttentionStep

\* The fairness of PlaResolver, whose threads are idle in the behaviours of the others.
WorkerSpec ==
  /\ WorkerInit /\ [][WorkerNext]_allVars
  /\ \A t \in Threads : WF_vars(Resolve(t))
=============================================================================
