---------------------------- MODULE BatchedExperts ----------------------------
(***************************************************************************)
(* One call of apply() of the batched experts (fused_moe/experts/          *)
(* batched_deep_gemm_moe.py): a masked grouped GEMM, the activation with   *)
(* or without quantization, and a second GEMM, over a buffer of a fixed    *)
(* number of rows per expert of which the first n[e] are tokens.           *)
(*                                                                         *)
(* The kernels' programs run concurrently; one turn of a program's loop    *)
(* over tokens is a step.  An element of the model stands for 64 elements  *)
(* of the hidden dimension: one pair of MXFP4 scales, half a group of 128. *)
(* The value of an output is where its gate was read (its up projection is *)
(* H elements further) and which gates its scale was taken over.           *)
(***************************************************************************)
EXTENDS Integers, FiniteSets

CONSTANTS
  MaxRows,        (* rows of an expert in the buffer: max_num_tokens *
                     num_dispatchers                                         *)
  HiddenSizes,    (* bound: hidden sizes of the output half, in elements     *)
  Schemes,        (* the quantization schemes of the experts                 *)
  TokenPrograms   (* bound: token programs per expert of the MXFP4 kernel (32 or 64) *)

ASSUME BatchedAssumption ==
  /\ MaxRows \in Nat \ {0} /\ TokenPrograms \in Nat \ {0}
  /\ HiddenSizes \subseteq Nat \ {0}
  /\ Schemes \subseteq {"fp8_block", "fp8_channel", "int8", "w4a16", "w4fa16", "bf16", "mxfp4"}

VARIABLES
  conf,      (* the layer and the call                                       *)
  phase,     (* which launch of apply() is next                              *)
  cursor,    (* cursor[p]: the next token of program p                       *)
  a2q, a2s,  (* the activated rows and their scales, flat memory             *)
  gemmOut    (* what the second GEMM read for each row                       *)

batchedVars == << conf, phase, cursor, a2q, a2s, gemmOut >>

LocalExperts == 0 .. 1
Rows == 0 .. MaxRows - 1
Quantizing == {"fp8_block", "fp8_channel", "int8", "mxfp4"}

\* What the class of the scheme supports (_supports_activation), SILU with a limit,
\* alpha or beta apart; the scale format is from_oracle() for fp8.
Confs ==
  { c \in [scheme : Schemes, activation : {"silu", "clamped", "situ", "swiglustep"},
           fmt : {"float32", "ceil_ue8m0", "ue8m0"}, H : HiddenSizes,
           n : [LocalExperts -> 0 .. MaxRows]] :
      /\ c.activation = "swiglustep" => c.scheme = "mxfp4"
      /\ c.fmt # "float32" => c.scheme \in {"fp8_block", "fp8_channel"} }

GateAt(c, e, t, h) == (e * MaxRows + t) * 2 * c.H + h
OutAt(c, e, t, h)  == (e * MaxRows + t) * c.H + h
Unwritten == [gate |-> -1, scale |-> {}]
NoScale == {-1}

\* Memory nobody wrote.  The scales are indexed by expert, row and group.
BatchedInit ==
  /\ conf \in Confs
  /\ phase = "gemm1"
  /\ cursor = << >>
  /\ a2q = << >>
  /\ a2s = << >>
  /\ gemmOut = << >>

--------------------------------------------------------------------------------
\* The group of one scale: 128, or the row in the channel-wise schemes.
GroupSize(c) ==
  CASE c.scheme \in {"fp8_channel", "int8"} -> c.H
    [] c.scheme = "mxfp4"                   -> 1
    [] OTHER                                -> 2

next_power_of_2(n) == CHOOSE p \in {1, 2, 4, 8} : n <= p /\ p < 2 * n

\* A launch: the tokens a program starts with and strides by, the parts of a row, the
\* lanes of a part, and the gates its scale is taken over.
\* The kernels' masks: cols < BLOCK holds of every lane, offs_in_d < H does not.
QuantLanes(c, part)  == part * GroupSize(c) .. part * GroupSize(c) + next_power_of_2(GroupSize(c)) - 1
ExactLanes(c, part)  == part * GroupSize(c) .. (part + 1) * GroupSize(c) - 1

BLOCK_N(c) == IF c.H > 4 THEN 4 ELSE IF c.H > 2 THEN 2 ELSE 1

\* MUTANT: the lanes past the row are not masked.
Mxfp4LanesUnmasked(c, part) == part * BLOCK_N(c) .. (part + 1) * BLOCK_N(c) - 1

Mxfp4Lanes(c, part) == {h \in part * BLOCK_N(c) .. (part + 1) * BLOCK_N(c) - 1 : h < c.H}

\* The compiled kernel is for plain SILU in groups of 128; only it packs UE8M0 scales.
_persistent_masked_m_silu_mul_quant(c) ==
  LET compiled == c.scheme # "int8" /\ GroupSize(c) = 2 /\ c.activation = "silu" IN
  [ rejected |-> c.H % GroupSize(c) # 0 \/ (c.fmt = "ue8m0" /\ ~ compiled),
    kernel |-> IF compiled THEN "compiled" ELSE "quant",
    parts |-> c.H \div GroupSize(c), stride |-> 1 ]

silu_mul_deep_gemm(c) ==
  [ rejected |-> c.H % GroupSize(c) # 0, kernel |-> "plain",
    parts |-> c.H \div GroupSize(c), stride |-> 1 ]

silu_mul_mxfp4_quant_masked(c) ==
  [ rejected |-> FALSE, kernel |-> "mxfp4",
    parts |-> (c.H + BLOCK_N(c) - 1) \div BLOCK_N(c), stride |-> TokenPrograms ]

\* Every token of an expert in one program; the rows past them are zero.
TwoSteps(c) ==
  [ rejected |-> FALSE, kernel |-> "mxfp4",
    parts |-> (c.H + BLOCK_N(c) - 1) \div BLOCK_N(c), stride |-> 1 ]

--------------------------------------------------------------------------------
(* apply() of the three classes.                                              *)
Launches(launch) ==
  /\ phase = "gemm1"
  /\ IF launch.rejected
     THEN phase' = "raised" /\ UNCHANGED << cursor, a2q, a2s >>
     ELSE /\ phase' = launch.kernel
          /\ cursor' = [p \in LocalExperts \X (0 .. launch.parts - 1) \X (0 .. launch.stride - 1)
                          |-> p[3]]
          /\ a2q' = [i \in 0 .. 2 * MaxRows * conf.H - 1 |-> Unwritten]
          /\ a2s' = [k \in LocalExperts \X Rows \X (0 .. conf.H \div GroupSize(conf) - 1)
                       |-> NoScale]
  /\ UNCHANGED << conf, gemmOut >>

PPUBatchedDeepGemmExperts ==
  \/ /\ conf.scheme \in {"fp8_block", "fp8_channel", "int8"}
     /\ Launches(_persistent_masked_m_silu_mul_quant(conf))
  \/ /\ conf.scheme \in {"w4a16", "bf16"}
     /\ Launches(silu_mul_deep_gemm(conf))

PPUBatchedDeepGemmExpertsW4FA16MMA ==
  conf.scheme = "w4fa16" /\ Launches(silu_mul_deep_gemm(conf))

PPUBatchedDeepGemmExpertsMXFP4 ==
  /\ conf.scheme = "mxfp4"
  /\ Launches(IF conf.activation = "swiglustep" THEN TwoSteps(conf)
              ELSE silu_mul_mxfp4_quant_masked(conf))

(* The kernels: a turn of the loop over tokens in one program.                *)
Stride == IF phase = "mxfp4" /\ conf.activation # "swiglustep" THEN TokenPrograms ELSE 1

\* The lanes write the elements of row t and the scales of its groups; a lane past the
\* end of the memory of this model writes nothing in it.
Turn(p, lanes, scaleOver, groups) ==
  LET e == p[1]  t == cursor[p]
      lane(i) == i - OutAt(conf, e, t, 0)
  IN /\ t < conf.n[e]
     /\ a2q' = [i \in DOMAIN a2q |->
                  IF lane(i) \in lanes
                  THEN [gate |-> GateAt(conf, e, t, lane(i)), scale |-> scaleOver[lane(i)]]
                  ELSE a2q[i]]
     /\ a2s' = [k \in DOMAIN a2s |->
                  IF k[1] = e /\ k[2] = t /\ k[3] \in groups
                  THEN scaleOver[k[3] * GroupSize(conf)] ELSE a2s[k]]
     /\ cursor' = [cursor EXCEPT ![p] = @ + Stride]
     /\ UNCHANGED << conf, phase, gemmOut >>

GatesOf(p, lanes) == {GateAt(conf, p[1], cursor[p], i) : i \in lanes}

_silu_mul_quant_deep_gemm(p) ==
  LET lanes == IF phase = "compiled" THEN ExactLanes(conf, p[2]) ELSE QuantLanes(conf, p[2])
      whole == [h \in lanes |-> GatesOf(p, lanes)]
  IN phase \in {"quant", "compiled"} /\ Turn(p, lanes, whole, {p[2]})

_silu_mul_deep_gemm(p) ==
  LET lanes == ExactLanes(conf, p[2])
  IN phase = "plain" /\ Turn(p, lanes, [h \in lanes |-> {}], {p[2]})

_silu_mul_mxfp4_quant_deep_gemm(p) ==
  LET lanes == Mxfp4Lanes(conf, p[2])
  IN phase = "mxfp4" /\ Turn(p, lanes, [h \in lanes |-> GatesOf(p, {h})], lanes)

\* The kernel ends when each of its programs has; the second GEMM reads the tokens with
\* the scales of their groups.
Gemm2 ==
  /\ phase \in {"quant", "compiled", "plain", "mxfp4"}
  /\ \A p \in DOMAIN cursor : cursor[p] >= conf.n[p[1]]
  /\ phase' = "done"
  /\ gemmOut' = [e \in LocalExperts |-> [t \in 0 .. conf.n[e] - 1 |-> [h \in 0 .. conf.H - 1 |->
                   << a2q[OutAt(conf, e, t, h)], a2s[<< e, t, h \div GroupSize(conf) >>] >>]]]
  /\ UNCHANGED << conf, cursor, a2q, a2s >>

BatchedNext ==
  \/ PPUBatchedDeepGemmExperts \/ PPUBatchedDeepGemmExpertsW4FA16MMA
  \/ PPUBatchedDeepGemmExpertsMXFP4 \/ Gemm2
  \/ \E p \in DOMAIN cursor : \/ _silu_mul_quant_deep_gemm(p) \/ _silu_mul_deep_gemm(p)
                              \/ _silu_mul_mxfp4_quant_deep_gemm(p)

BatchedSpec == BatchedInit /\ [][BatchedNext]_batchedVars

--------------------------------------------------------------------------------
GroupOf(c, e, t, h) ==
  IF c.scheme \notin Quantizing THEN {}
  ELSE {GateAt(c, e, t, i) : i \in {j \in 0 .. c.H - 1 : j \div GroupSize(c) = h \div GroupSize(c)}}

\* Whatever the order of the programs, the second GEMM is given every element of every
\* token, activated from that element and quantized with the scale it is multiplied
\* with again, which was taken over the element's own group; for the groups that fill
\* their block (_silu_mul_quant_deep_gemm and the kernels beside it).
MaskedRowsAreExact ==
  (phase = "done" /\ GroupSize(conf) \in {1, 2, 4}) =>
    \A e \in LocalExperts : \A t \in 0 .. conf.n[e] - 1 : \A h \in 0 .. conf.H - 1 :
      LET group == GroupOf(conf, e, t, h)  read == gemmOut[e][t][h] IN
      /\ read[1] = [gate |-> GateAt(conf, e, t, h), scale |-> group]
      /\ read[2] = group

\* "Quantize silu(y[..., :H]) * y[..., H:] to FP8 with group per-token scales": the scale
\* of a group is taken over the elements of that group, for every hidden size
\* (batched_deep_gemm_moe.py:184).
ScalesAreOfTheirGroup ==
  phase = "done" =>
    \A e \in LocalExperts : \A t \in 0 .. conf.n[e] - 1 : \A h \in 0 .. conf.H - 1 :
      gemmOut[e][t][h][2] = GroupOf(conf, e, t, h)
================================================================================
