------------------------------ MODULE DeepGemmMoe ------------------------------
(***************************************************************************)
(* DeepGemmExperts.apply (fused_moe/experts/deep_gemm_moe.py): the scatter *)
(* of EpScatter, two grouped GEMMs with an activation between them, and    *)
(* the gather that sums each token's rows with the router's weights.       *)
(*                                                                         *)
(* The launches run one after the other on a stream and share two          *)
(* workspaces: workspace13 holds the permuted input, then the activated    *)
(* intermediate when that is fp8; workspace2 holds the output of the first *)
(* GEMM, then of the second.  A row is known by its provenance: the token  *)
(* it comes from and what was applied to it, in order.                     *)
(***************************************************************************)
EXTENDS EpScatter, Sequences

CONSTANTS
  QuantInPlace, (* fp8: the activation is quantized into workspace13        *)
  GatherGrid    (* programs of the gather along the tokens: min(num_tokens, 1024) *)

ASSUME ApplyAssumption == QuantInPlace \in BOOLEAN /\ GatherGrid \in 1 .. 1024

VARIABLES
  stage,        (* the next launch of the host                            *)
  workspace2,   (* mm1_out, then mm2_out                                  *)
  act_out,      (* the tensor _act_mul_quant allocates                    *)
  cur_token,    (* the token each gather program is at                    *)
  output        (* the terms of the sum stored for each token             *)

moe  == << stage, workspace2, act_out, cur_token, output >>
all  == << vars, moe >>

Unwritten == {<< -1, Junk >>}
Programs  == 0 .. GatherGrid - 1

ApplyInit ==
  /\ Init
  /\ stage = "permute"
  /\ workspace2 = [r \in Rows |-> Junk]
  /\ act_out = [r \in Rows |-> Junk]
  /\ cur_token = [g \in Programs |-> g]
  /\ output = [t \in Tokens |-> Unwritten]

\* The grouped GEMM multiplies every labelled row by the weights of the row's
\* expert and leaves the other rows as they were.  A row whose scales belong to
\* another token comes out as noise.
Gemm(weights, from, to) ==
  [r \in Rows |->
     IF m_indices[r] >= 0 THEN Append(from[r], << weights, m_indices[r] >>) ELSE to[r]]

Dequantized ==
  [r \in Rows |-> IF WithScale /\ aq_out[r] # Token(aq_scale_out[r]) THEN Junk ELSE aq_out[r]]

\* deepgemm_moe_permute
Permute ==
  /\ stage = "permute"
  /\ Next
  /\ UNCHANGED moe

\* A launch follows the scatter's last program on the same stream.
Launch(from, to) ==
  /\ ScatterDone
  /\ stage = from
  /\ stage' = to
  /\ UNCHANGED << topk_ids, expert_start_loc, m_indices, aq_scale_out, inv_perm,
                  regs1, regs2, cur_token, output >>

\* The first GEMM: workspace13 -> workspace2.
Mm1 ==
  /\ Launch("permute", "act")
  /\ workspace2' = Gemm("w1", Dequantized, workspace2)
  /\ UNCHANGED << aq_out, act_out >>

\* _act_mul_quant on every row, the unlabelled ones included.  The activation
\* goes to a new tensor; fp8 then quantizes it over the permuted input, the
\* other types return the new tensor or a quantized copy of it.
ActMulQuant ==
  /\ Launch("act", "mm2")
  /\ act_out' = [r \in Rows |-> Append(workspace2[r], << "act", 0 >>)]
  /\ aq_out' = IF QuantInPlace THEN act_out' ELSE aq_out
  /\ UNCHANGED workspace2

\* The tensor _act_mul_quant returns.
A2q == IF QuantInPlace THEN aq_out ELSE act_out

\* The second GEMM: the activation -> workspace2, over the first one's output.
Mm2 ==
  /\ Launch("mm2", "gather")
  /\ workspace2' = Gemm("w2", A2q, workspace2)
  /\ UNCHANGED << aq_out, act_out >>

\* MUTANT: every lane reads the row of the first one.
GatherFirstLane(g) ==
  /\ stage = "gather"
  /\ cur_token[g] < NumTokens
  /\ LET t     == cur_token[g]
         valid == {k \in Slots : LocalExpert(topk_ids[<<t, k>>]) >= 0}
         first == CHOOSE k \in valid : \A j \in valid : k <= j
     IN  output' = [output EXCEPT
           ![t] = {<< k, workspace2[inv_perm[<<t, first>>]] >> : k \in valid}]
  /\ cur_token' = [cur_token EXCEPT ![g] = @ + GatherGrid]
  /\ UNCHANGED << vars, stage, workspace2, act_out >>

\* One round of gather program g: it stores the weighted sum of the rows of its
\* current token and moves on by the size of the grid.
GatherToken(g) ==
  /\ stage = "gather"
  /\ cur_token[g] < NumTokens
  /\ LET t     == cur_token[g]
         valid == {k \in Slots : LocalExpert(topk_ids[<<t, k>>]) >= 0}
     IN  output' = [output EXCEPT
           ![t] = {<< k, workspace2[inv_perm[<<t, k>>]] >> : k \in valid}]
  /\ cur_token' = [cur_token EXCEPT ![g] = @ + GatherGrid]
  /\ UNCHANGED << vars, stage, workspace2, act_out >>

ApplyNext ==
  \/ Permute
  \/ Mm1
  \/ ActMulQuant
  \/ Mm2
  \/ \E g \in Programs : GatherToken(g)

\* The device runs every program of a launch, and the stream every launch.
ApplySpec ==
  /\ ApplyInit
  /\ [][ApplyNext]_all
  /\ \A e \in Experts : WF_all(stage = "permute" /\ Scatter1(e) /\ UNCHANGED moe)
  /\ \A t \in Tokens : WF_all(stage = "permute" /\ Scatter2(t) /\ UNCHANGED moe)
  /\ WF_all(Mm1 \/ ActMulQuant \/ Mm2)
  /\ \A g \in Programs : WF_all(GatherToken(g))

--------------------------------------------------------------------------------
\* What a row of token t and expert e has gone through at the end.
Chain(e, t) == << <<"x", t>>, <<"w1", e>>, <<"act", 0>>, <<"w2", e>> >>

\* The layer computes what MoeReduce promises: every token gets, once, exactly
\* the answers of the experts it is routed to.
Moe == INSTANCE MoeReduce
  WITH Answer <- Chain,
       Pending <- Unwritten,
       routing <- [p \in Lanes |-> LocalExpert(topk_ids[p])],
       result <- output

ComputesMoe == Moe!MoeSpec
================================================================================
