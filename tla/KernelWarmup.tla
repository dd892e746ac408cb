---------------------------- MODULE KernelWarmup -----------------------------
(***************************************************************************)
(* The warm-up of DeepGEMM's JIT kernels (model_executor/warmup and        *)
(* patch/enhancement/kernel_warmup.py): each rank of a node goes through   *)
(* the layers it holds, plans the numbers of rows each weight shape is to  *)
(* be compiled for, and compiles its share of the plan; what all the ranks *)
(* compile is shared by the node's cache on disk.                          *)
(*                                                                         *)
(* The ranks share nothing while they compile, so they go one after the    *)
(* other here.  DeepGEMM is supported, on PPU 1.5.                         *)
(***************************************************************************)
EXTENDS Naturals, SequencesExt, FiniteSets

CONSTANTS
  WarmModels,      (* functions from local ranks to the layers they hold     *)
  WarmMaxTokens,   (* max_num_batched_tokens                                 *)
  MaxWarmups       (* calls of kernel_warmup                                 *)

\* Shapes of weights, with and without experts; layers, and their weights.
Matrices == [n : Nat \ {0}]
Stacked  == [experts : Nat \ {0}, n : Nat \ {0}]
ModelLayers ==
  [method : STRING, block : Nat, bias : BOOLEAN, w : Matrices]
  \cup [quant : STRING, block : Nat, experts : STRING, topk : Nat \ {0}, w1 : Stacked, w2 : Stacked]

IsLinear(m) == "w" \in DOMAIN m

Weights(m) == IF IsLinear(m) THEN << m.w >> ELSE << m.w1, m.w2 >>

\* The experts that are chosen for a token are the model's: layers that share the shape of
\* a weight choose as many.
ASSUME WarmAssumption ==
  /\ WarmMaxTokens \in Nat \ {0} /\ MaxWarmups \in Nat
  /\ \A model \in WarmModels :
       /\ \A r \in DOMAIN model : model[r] \in Seq(ModelLayers)
       /\ \A q, r \in DOMAIN model : \A i \in DOMAIN model[q], j \in DOMAIN model[r] :
            LET a == model[q][i]  b == model[r][j]
            IN ~ IsLinear(a) /\ ~ IsLinear(b) /\ ToSet(Weights(a)) \cap ToSet(Weights(b)) # {} =>
                 a.topk = b.topk

VARIABLES
  wenv,       (* the settings and the layout of the ranks                    *)
  layersOf,       (* the layers of each local rank                               *)
  cache,      (* the *_WARMUP_CACHE of each rank: families and shapes done   *)
  launched,   (* what each rank compiled: a family, a shape, a number of rows *)
  repeated,   (* what it launched more than once                             *)
  compileMode,
  wcalls,     (* the calls each rank has finished                            *)
  wfailed     (* the ranks whose warm-up raised                              *)

warmVars == << wenv, layersOf, cache, launched, repeated, compileMode, wcalls, wfailed >>

Layouts == { << 1, 1 >>, << 2, 1 >>, << 3, 1 >>, << 4, 2 >>, << 3, 2 >> }

\* VLLM_DEEP_GEMM_WARMUP, the three settings of the backends, and the world: its size and
\* the number of its nodes.
WarmEnvs == [warmup : {"skip", "relax", "full"}, dense : {"unset", "other"},
             moe : {"unset", "other"}, bf16 : BOOLEAN, layout : Layouts]

DenseFamilies  == {"fp8", "int8", "bf16"}
MaskedFamilies == {"fp4_masked", "w4a16_masked"}
Families == DenseFamilies \cup MaskedFamilies
              \cup {"grouped_fp8", "grouped_int8", "grouped_bf16", "fp4", "w4a16"}

\* The ranks of a node.  A world that its nodes do not divide has no local size: the
\* function returns None, which its caller cannot unpack.  A process without a world group
\* is taken for the one rank of a node: the layout << 1, 1 >>.
Even == wenv.layout[1] % wenv.layout[2] = 0
_get_local_rank_and_size == wenv.layout[1] \div wenv.layout[2]
LocalRanks == 0 .. _get_local_rank_and_size - 1

WarmInit ==
  /\ wenv \in WarmEnvs
  /\ layersOf \in WarmModels /\ LocalRanks \subseteq DOMAIN layersOf
  /\ cache = [r \in DOMAIN layersOf |-> {}]
  /\ launched = [r \in DOMAIN layersOf |-> {}]
  /\ repeated = [r \in DOMAIN layersOf |-> {}]
  /\ compileMode = [r \in DOMAIN layersOf |-> 0]
  /\ wcalls = [r \in DOMAIN layersOf |-> 0]
  /\ wfailed = {}

--------------------------------------------------------------------------------
(* The layers a family of kernels may run.  A linear layer is its method, its  *)
(* block of quantization, its bias and its weight; a mixture of experts is its *)
(* quantization, its block, the experts chosen for it and its two weights.     *)

\* get_mk_alignment_for_contiguous_layout(), with its defaults.
BlockM == 1
BlockK == 1

_fp8_linear_may_use_deep_gemm(m) ==
  wenv.dense = "unset" /\ IsLinear(m) /\ m.method = "fp8" /\ m.block = BlockK

_int8_linear_may_use_deep_gemm(m) == wenv.dense = "unset" /\ IsLinear(m) /\ m.method = "int8"

_bf16_linear_may_use_deep_gemm(m) == wenv.bf16 /\ IsLinear(m) /\ m.method = "none" /\ ~ m.bias

MoeMayUse(m, quants, experts) ==
  wenv.moe = "unset" /\ ~ IsLinear(m) /\ m.quant \in quants /\ m.experts = experts

_fused_moe_grouped_gemm_may_use_deep_gemm(m) ==
  MoeMayUse(m, {"fp8"}, "contiguous") /\ m.block \in {0, BlockK}

_fused_moe_grouped_gemm_may_use_deep_gemm_int8(m) == MoeMayUse(m, {"int8"}, "contiguous")

_fused_moe_grouped_gemm_may_use_deep_gemm_bf16(m) == MoeMayUse(m, {"none"}, "contiguous")

_fused_moe_grouped_gemm_may_use_deep_gemm_fp4(m) == MoeMayUse(m, {"mxfp4"}, "contiguous")

_fused_moe_grouped_gemm_may_use_deep_gemm_fp4_masked(m) == MoeMayUse(m, {"mxfp4"}, "batched")

_fused_moe_grouped_gemm_may_use_deep_gemm_w4a16(m, masked) ==
  MoeMayUse(m, {"int4_w4a16", "mxfp4_w4a16"}, IF masked THEN "batched" ELSE "contiguous")

MayUse(f, m) ==
  CASE f = "fp8"          -> _fp8_linear_may_use_deep_gemm(m)
    [] f = "int8"         -> _int8_linear_may_use_deep_gemm(m)
    [] f = "bf16"         -> _bf16_linear_may_use_deep_gemm(m)
    [] f = "grouped_fp8"  -> _fused_moe_grouped_gemm_may_use_deep_gemm(m)
    [] f = "grouped_int8" -> _fused_moe_grouped_gemm_may_use_deep_gemm_int8(m)
    [] f = "grouped_bf16" -> _fused_moe_grouped_gemm_may_use_deep_gemm_bf16(m)
    [] f = "fp4"          -> _fused_moe_grouped_gemm_may_use_deep_gemm_fp4(m)
    [] f = "fp4_masked"   -> _fused_moe_grouped_gemm_may_use_deep_gemm_fp4_masked(m)
    [] f = "w4a16"        -> _fused_moe_grouped_gemm_may_use_deep_gemm_w4a16(m, FALSE)
    [] f = "w4a16_masked" -> _fused_moe_grouped_gemm_may_use_deep_gemm_w4a16(m, TRUE)

--------------------------------------------------------------------------------
(* The numbers of rows.  A shape is its experts, if it has any, and outputs.   *)
cdiv(a, b) == (a + b - 1) \div b

NumSms == 1

\* The elements of a set of numbers, in order: the i-th has i of them up to itself.
Sorted(S) == [i \in 1 .. Cardinality(S) |-> CHOOSE x \in S : Cardinality({ y \in S : y <= x }) = i]

\* The small cases, whatever max_tokens is; then what a wave of each tile holds, and the
\* multiples of a tile's rows.
_generate_optimal_warmup_m_values(n) ==
  LET tiles == {64, 128, 256}
      waves == { (wave * NumSms * m) \div cdiv(n, 16 * b) :
                   wave \in 1 .. 10, m \in tiles, b \in 1 .. (IF n > 256 THEN 256 ELSE n) \div 16 }
      multiples == IF n < 16 THEN {}
                   ELSE UNION { { k * m : k \in 1 .. WarmMaxTokens \div m } : m \in tiles }
  IN Sorted({1, 2, 4} \cup { 8 * i : i \in 1 .. 8 } \cup ((waves \cup multiples) \cap 1 .. WarmMaxTokens))

_get_gemm_nt_m_values(w) ==
  IF wenv.warmup = "relax" THEN _generate_optimal_warmup_m_values(w.n)
  ELSE [i \in 1 .. WarmMaxTokens |-> i]

Multiples(max) == [i \in 1 .. max \div BlockM |-> i * BlockM]

\* The rows of all the experts together, each padded to the alignment.
_get_grouped_gemm_params(w, topk) ==
  cdiv(WarmMaxTokens * topk + w.experts * (BlockM - 1), BlockM) * BlockM

\* The rows of one expert.
MaskedRows(w, topk) == cdiv(cdiv(WarmMaxTokens * topk, w.experts), BlockM) * BlockM

Plan(f, m, w) ==
  CASE f \in DenseFamilies  -> _get_gemm_nt_m_values(w)
    [] f \in MaskedFamilies -> Multiples(MaskedRows(w, m.topk))
    [] OTHER                -> Multiples(_get_grouped_gemm_params(w, m.topk))

Least(a, b) == IF a < b THEN a ELSE b

\* MUTANT: a share that includes the first value of the next.
_shard_m_values_chunked_overlapping(plan, r) ==
  LET size == _get_local_rank_and_size  chunk == Len(plan) \div size
  IN IF size <= 1 THEN plan ELSE SubSeq(plan, r * chunk + 1, Least(Len(plan), (r + 1) * chunk + 1))

\* The share of a rank: the last Len(plan) % size values are in no share.
_shard_m_values_chunked(plan, r) ==
  LET size == _get_local_rank_and_size  chunk == Len(plan) \div size
  IN IF size <= 1 THEN plan ELSE SubSeq(plan, r * chunk + 1, Least(Len(plan), (r + 1) * chunk))

\* A slice of a buffer of max_tokens rows has no more than those.
RowsRun(f, m) == IF f \in DenseFamilies /\ m > WarmMaxTokens THEN WarmMaxTokens ELSE m

--------------------------------------------------------------------------------
(* One rank: a state of the fold is its caches and what it has launched.       *)
\* One layer: the weights whose shape the family has not seen.
WarmWeight(f, st, m, w, r) ==
  LET new == { << f, w, RowsRun(f, x) >> : x \in ToSet(_shard_m_values_chunked(Plan(f, m, w), r)) }
  IN IF << f, w >> \in st.cache THEN st
     ELSE [ cache    |-> st.cache \cup {<< f, w >>},
            launched |-> st.launched \cup new,
            repeated |-> st.repeated \cup (st.launched \cap new) ]

WarmLayer(f, st, m, r) ==
  IF IsLinear(m) THEN WarmWeight(f, st, m, m.w, r)
  ELSE WarmWeight(f, WarmWeight(f, st, m, m.w1, r), m, m.w2, r)

\* The layers of a rank that the family may run, one after the other.
WarmFamily(f, st, r) ==
  LET upto[i \in 0 .. Len(layersOf[r])] ==
        IF i = 0 THEN st
        ELSE IF MayUse(f, layersOf[r][i]) THEN WarmLayer(f, upto[i - 1], layersOf[r][i], r)
        ELSE upto[i - 1]
  IN upto[Len(layersOf[r])]

deepgemm_fp8_gemm_nt_warmup(st, r)  == WarmFamily("fp8", st, r)
deepgemm_int8_gemm_nt_warmup(st, r) == WarmFamily("int8", st, r)
deepgemm_bf16_gemm_nt_warmup(st, r) == WarmFamily("bf16", st, r)
deepgemm_grouped_fp8_gemm_nt_contiguous_warmup(st, r)   == WarmFamily("grouped_fp8", st, r)
deepgemm_grouped_int8_gemm_nt_contiguous_warmup(st, r)  == WarmFamily("grouped_int8", st, r)
deepgemm_grouped_bf16_gemm_nt_contiguous_warmup(st, r)  == WarmFamily("grouped_bf16", st, r)
deepgemm_grouped_fp4_gemm_nt_contiguous_warmup(st, r)   == WarmFamily("fp4", st, r)
deepgemm_grouped_fp4_gemm_nt_masked_warmup(st, r)       == WarmFamily("fp4_masked", st, r)
deepgemm_grouped_w4a16_gemm_nt_contiguous_warmup(st, r) == WarmFamily("w4a16", st, r)
deepgemm_grouped_w4a16_gemm_nt_masked_warmup(st, r)     == WarmFamily("w4a16_masked", st, r)

\* What there is to do, counted without doing it: shapes the caches have, and shapes seen
\* before, count for nothing.
CountWeight(f, acc, m, w) ==
  IF << f, w >> \in acc.seen THEN acc
  ELSE [total |-> acc.total + Len(Plan(f, m, w)), seen |-> acc.seen \cup {<< f, w >>}]

CountLayer(f, acc, m) ==
  IF IsLinear(m) THEN CountWeight(f, acc, m, m.w)
  ELSE CountWeight(f, CountWeight(f, acc, m, m.w1), m, m.w2)

CountFamily(f, r) ==
  LET upto[i \in 0 .. Len(layersOf[r])] ==
        IF i = 0 THEN [total |-> 0, seen |-> cache[r]]
        ELSE IF MayUse(f, layersOf[r][i]) THEN CountLayer(f, upto[i - 1], layersOf[r][i])
        ELSE upto[i - 1]
  IN upto[Len(layersOf[r])].total

_count_warmup_iterations(r)      == CountFamily("fp8", r) + CountFamily("grouped_fp8", r)
_count_warmup_iterations_int8(r) == CountFamily("int8", r) + CountFamily("grouped_int8", r)
_count_warmup_iterations_bf16(r) == CountFamily("bf16", r) + CountFamily("grouped_bf16", r)
_count_warmup_iterations_fp4(r)  == CountFamily("fp4", r)
_count_warmup_iterations_fp4_masked(r)   == CountFamily("fp4_masked", r)
_count_warmup_iterations_w4a16(r)        == CountFamily("w4a16", r)
_count_warmup_iterations_w4a16_masked(r) == CountFamily("w4a16_masked", r)

\* The groups of families whose total is not zero, one group after the other.
deep_gemm_warmup(r) ==
  LET st0 == [cache |-> cache[r], launched |-> launched[r], repeated |-> repeated[r]]
      fp4   == _count_warmup_iterations_fp4(r) + _count_warmup_iterations_fp4_masked(r)
      w4a16 == _count_warmup_iterations_w4a16(r) + _count_warmup_iterations_w4a16_masked(r)
      total == _count_warmup_iterations(r)
      int8  == _count_warmup_iterations_int8(r)
      bf16  == _count_warmup_iterations_bf16(r)
      st1 == IF total = 0 THEN st0 ELSE
             deepgemm_grouped_fp8_gemm_nt_contiguous_warmup(deepgemm_fp8_gemm_nt_warmup(st0, r), r)
      st2 == IF int8 = 0 THEN st1 ELSE
             deepgemm_grouped_int8_gemm_nt_contiguous_warmup(deepgemm_int8_gemm_nt_warmup(st1, r), r)
      st3 == IF bf16 = 0 THEN st2 ELSE
             deepgemm_grouped_bf16_gemm_nt_contiguous_warmup(deepgemm_bf16_gemm_nt_warmup(st2, r), r)
      st4 == IF fp4 = 0 THEN st3 ELSE
             deepgemm_grouped_fp4_gemm_nt_masked_warmup(
               deepgemm_grouped_fp4_gemm_nt_contiguous_warmup(st3, r), r)
      st5 == IF w4a16 = 0 THEN st4 ELSE
             deepgemm_grouped_w4a16_gemm_nt_masked_warmup(
               deepgemm_grouped_w4a16_gemm_nt_contiguous_warmup(st4, r), r)
      none == total + int8 + bf16 + fp4 + w4a16 = 0
  IN IF ~ Even /\ ~ none
     THEN \* The first share raises, with the compile mode set.
          /\ compileMode' = [compileMode EXCEPT ![r] = 1]
          /\ wfailed' = wfailed \cup {r}
          /\ UNCHANGED << cache, launched, repeated >>
     ELSE /\ cache' = [cache EXCEPT ![r] = st5.cache]
          /\ launched' = [launched EXCEPT ![r] = st5.launched]
          /\ repeated' = [repeated EXCEPT ![r] = st5.repeated]
          /\ UNCHANGED << compileMode, wfailed >>

_ppu_deep_gemm_warmup_enabled ==
  wenv.warmup # "skip" /\ (wenv.moe = "unset" \/ wenv.dense = "unset" \/ wenv.bf16)

\* The call that leaves out what other processes do too compiles nothing here.
kernel_warmup(r, process_local_only) ==
  /\ r \in LocalRanks /\ r \notin wfailed
  /\ wcalls[r] < MaxWarmups /\ \A q \in LocalRanks : q < r => wcalls[q] > wcalls[r] \/ q \in wfailed
  /\ IF process_local_only \/ ~ _ppu_deep_gemm_warmup_enabled
     THEN UNCHANGED << cache, launched, repeated, compileMode, wfailed >>
     ELSE deep_gemm_warmup(r)
  /\ wcalls' = [wcalls EXCEPT ![r] = IF process_local_only THEN @ ELSE @ + 1]
  /\ UNCHANGED << wenv, layersOf >>

WarmNext == \E r \in LocalRanks, process_local_only \in BOOLEAN : kernel_warmup(r, process_local_only)

WarmSpec == WarmInit /\ [][WarmNext]_warmVars

--------------------------------------------------------------------------------
\* Once every rank of the node has finished a warm-up that was not skipped: of every layer
\* that all of them hold and a family may run, each weight is compiled for every number of
\* rows of its plan but the last Len(plan) % size, whatever other layers share its shape
\* and whatever was counted; no number of rows is compiled by two ranks or twice by one,
\* where a rank has as many rows.
ShardsCoverPlan ==
  wenv.warmup # "skip" /\ (\A r \in LocalRanks : wcalls[r] > 0 /\ r \notin wfailed) =>
    \A f \in Families : \A m \in ToSet(layersOf[0]) :
      MayUse(f, m) /\ (\A r \in LocalRanks : m \in ToSet(layersOf[r])) =>
        \A w \in ToSet(Weights(m)) :
          LET plan == Plan(f, m, w)
              size == _get_local_rank_and_size
              by(x) == { r \in LocalRanks : << f, w, x >> \in launched[r] }
          IN /\ \A i \in 1 .. (Len(plan) \div size) * size : by(RowsRun(f, plan[i])) # {}
             /\ \A i \in DOMAIN plan :
                  plan[i] < WarmMaxTokens =>
                    /\ \A r, q \in by(plan[i]) : r = q
                    /\ \A r \in LocalRanks : << f, w, plan[i] >> \notin repeated[r]
================================================================================
