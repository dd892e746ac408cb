------------------------------- MODULE EpScatter -------------------------------
(***************************************************************************)
(* The expert-parallel scatter of DeepGEMM MoE layers                      *)
(* (model_executor/layers/fused_moe/deep_gemm_utils.py).                   *)
(*                                                                         *)
(* deepgemm_moe_permute copies every routed token once per local expert it *)
(* is routed to, so that the rows of one expert are contiguous.  Two       *)
(* kernels run one after the other on a stream.  The programs of a kernel  *)
(* run concurrently, in any order:                                         *)
(*   - scatter_1 has one program per local expert; it publishes the first  *)
(*     row of the expert's region and labels the region's rows;            *)
(*   - scatter_2 has one program per token; each lane (one per top-k       *)
(*     choice) takes the next row of its expert with an atomic add on      *)
(*     expert_start_loc, then the program copies its token there.          *)
(***************************************************************************)
EXTENDS Integers, FiniteSets, Functions

CONSTANTS
  NumTokens,    (* rows of topk_ids                                        *)
  TopK,         (* columns of topk_ids                                     *)
  NumExperts,   (* local_num_experts                                       *)
  NumGlobal,    (* experts of all ranks                                    *)
  HasMap,       (* an expert_map is passed (expert parallelism)            *)
  ExpertMap,    (* global expert -> local expert, -1 when on another rank  *)
  Ids,          (* the values the router leaves in topk_ids                *)
  Align,        (* block_m, the row alignment of the grouped layout        *)
  CountsOnCpu,  (* expert_tokens_meta.expert_num_tokens_cpu is given       *)
  WithScale,    (* the activations are quantized and carry scales          *)
  Uninit        (* content of memory nobody has written                    *)

Tokens  == 0 .. NumTokens - 1
Slots   == 0 .. TopK - 1
Experts == 0 .. NumExperts - 1
Lanes   == Tokens \X Slots

ASSUME SizeAssumption ==
  /\ NumTokens \in Nat
  /\ TopK \in Nat
  /\ NumExperts \in Nat
  /\ NumGlobal \in Nat
  /\ Align \in Nat \ {0}

ASSUME RoutingAssumption ==
  /\ HasMap \in BOOLEAN
  /\ ExpertMap \in [0 .. NumGlobal - 1 -> Experts \cup {-1}]
  /\ Ids \subseteq -1 .. NumGlobal - 1
  /\ ~HasMap => Ids \subseteq Experts \cup {-1}

ASSUME ModeAssumption ==
  /\ CountsOnCpu \in BOOLEAN
  /\ WithScale \in BOOLEAN
  /\ Uninit \notin Int

--------------------------------------------------------------------------------
(* What the host computes before the launches.                              *)

\* apply_expert_map: the local expert a topk id names, -1 when there is none.
LocalExpert(id) ==
  IF HasMap /\ id # -1 THEN ExpertMap[id] ELSE id

\* The lanes of a routing that are routed to local expert e.
LanesOf(ids, e) == {p \in Lanes : LocalExpert(ids[p]) = e}

\* count_expert_num_tokens, or the counts that came with the dispatched tokens.
CountsOf(ids) == [e \in Experts |-> Cardinality(LanesOf(ids, e))]

\* MUTANT: the sum lags one expert behind.
CumsumLate(c) ==
  LET sum[e \in 0 .. NumExperts] == IF e <= 1 THEN 0 ELSE sum[e - 1] + c[e - 2]
  IN  sum

\* tl.cumsum, with a leading zero: entry e is the sum of the first e counts.
Cumsum(c) ==
  LET sum[e \in 0 .. NumExperts] == IF e = 0 THEN 0 ELSE sum[e - 1] + c[e - 1]
  IN  sum

RoundUp(x, a) == ((x + a - 1) \div a) * a

\* compute_aligned_M: the rows of the permuted activations.
AlignedM(c) ==
  IF CountsOnCpu
  THEN Cumsum([e \in Experts |-> RoundUp(c[e], Align)])[NumExperts]
  ELSE RoundUp(NumTokens * TopK + NumExperts * (Align - 1), Align)

\* A row of the activations is known by its provenance: the token it was
\* copied from.  Memory that was never written holds Junk.
Token(t) == << <<"x", t>> >>
Junk     == << >>

--------------------------------------------------------------------------------
VARIABLES
  topk_ids,          (* the routing: an id per lane                        *)
  expert_start_loc,  (* next row of each expert                            *)
  m_indices,         (* expert_ids: the expert each row belongs to         *)
  aq_out,            (* the permuted activations (a view of workspace13)   *)
  aq_scale_out,      (* the token whose scales each row carries            *)
  inv_perm,          (* output_index: the row each lane was copied to      *)
  pc1,               (* program counter of each scatter_1 program          *)
  filled,            (* rows each scatter_1 program has labelled           *)
  pc2,               (* program counter of each scatter_2 program          *)
  expert_loc,        (* register of each lane: its local expert            *)
  dest               (* register of each lane: what its atomic add returned*)

inputs  == << topk_ids >>
mem     == << expert_start_loc, m_indices, aq_out, aq_scale_out, inv_perm >>
regs1   == << pc1, filled >>
regs2   == << pc2, expert_loc, dest >>
vars    == << topk_ids, expert_start_loc, m_indices, aq_out, aq_scale_out,
              inv_perm, pc1, filled, pc2, expert_loc, dest >>

counts == CountsOf(topk_ids)
start  == Cumsum(counts)
Rows   == 0 .. AlignedM(counts) - 1

Init ==
  /\ topk_ids \in [Lanes -> Ids]
  /\ expert_start_loc = [e \in Experts |-> Uninit]
  /\ m_indices = [r \in Rows |-> -1]
  /\ aq_out = [r \in Rows |-> Junk]
  /\ aq_scale_out = [r \in Rows |-> Uninit]
  /\ inv_perm = [p \in Lanes |-> Uninit]
  /\ pc1 = [e \in Experts |-> "start"]
  /\ filled = [e \in Experts |-> 0]
  /\ pc2 = [t \in Tokens |-> "load"]
  /\ expert_loc = [p \in Lanes |-> -1]
  /\ dest = [p \in Lanes |-> Uninit]

--------------------------------------------------------------------------------
(* Kernel scatter_1: one program per local expert.                          *)

\* MUTANT: the counter starts one row early.
StoreStartEarly(e) ==
  /\ pc1[e] = "start"
  /\ expert_start_loc' = [expert_start_loc EXCEPT ![e] = start[e] - 1]
  /\ pc1' = [pc1 EXCEPT ![e] = "fill"]
  /\ UNCHANGED << inputs, m_indices, aq_out, aq_scale_out, inv_perm, filled, regs2 >>

\* MUTANT: the sum includes the expert's own count.
StoreStartInclusive(e) ==
  /\ pc1[e] = "start"
  /\ expert_start_loc' = [expert_start_loc EXCEPT ![e] = start[e + 1]]
  /\ pc1' = [pc1 EXCEPT ![e] = "fill"]
  /\ UNCHANGED << inputs, m_indices, aq_out, aq_scale_out, inv_perm, filled, regs2 >>

\* The program computes the exclusive sum of the counts and publishes its own.
StoreStart(e) ==
  /\ pc1[e] = "start"
  /\ expert_start_loc' = [expert_start_loc EXCEPT ![e] = start[e]]
  /\ pc1' = [pc1 EXCEPT ![e] = "fill"]
  /\ UNCHANGED << inputs, m_indices, aq_out, aq_scale_out, inv_perm, filled, regs2 >>

\* One round of the labelling loop (BLOCK_E = 1 row).
LabelRow(e) ==
  /\ pc1[e] = "fill"
  /\ filled[e] < counts[e]
  /\ m_indices' = [m_indices EXCEPT ![start[e] + filled[e]] = e]
  /\ filled' = [filled EXCEPT ![e] = @ + 1]
  /\ UNCHANGED << inputs, expert_start_loc, aq_out, aq_scale_out, inv_perm, pc1, regs2 >>

ExitScatter1(e) ==
  /\ pc1[e] = "fill"
  /\ filled[e] = counts[e]
  /\ pc1' = [pc1 EXCEPT ![e] = "done"]
  /\ UNCHANGED << inputs, mem, filled, regs2 >>

\* MUTANT: the second kernel only waits for the counters.
Scatter1Published == \A e \in Experts : pc1[e] # "start"

Scatter1Done == \A e \in Experts : pc1[e] = "done"

--------------------------------------------------------------------------------
(* Kernel scatter_2: one program per token, launched on the same stream, so *)
(* that none of its programs starts before scatter_1 has ended.             *)

\* The values tl.load may leave in a lane's register.  With an expert map the
\* load is masked by id # -1 and gives no `other`: a masked lane is undefined.
LaneExpert(id) ==
  IF HasMap /\ id = -1 THEN Experts \cup {-1} ELSE {LocalExpert(id)}

\* The lanes of token t that hold an expert (tt_mask).
ActiveLanes(t, loc) == {p \in Lanes : p[1] = t /\ loc[p] >= 0}

\* The program loads its ids and returns at once when none of them is local.
LoadLanes(t) ==
  /\ Scatter1Done
  /\ pc2[t] = "load"
  /\ \E loaded \in [Slots -> Experts \cup {-1}] :
       /\ \A k \in Slots : loaded[k] \in LaneExpert(topk_ids[<<t, k>>])
       /\ expert_loc' = [p \in Lanes |-> IF p[1] = t THEN loaded[p[2]] ELSE expert_loc[p]]
  /\ pc2' = [pc2 EXCEPT ![t] = IF ActiveLanes(t, expert_loc') = {} THEN "done" ELSE "claim"]
  /\ UNCHANGED << inputs, mem, regs1, dest >>

\* MUTANT: a plain load of the counter instead of an atomic add.
ClaimRowByLoad(p) ==
  /\ pc2[p[1]] = "claim"
  /\ expert_loc[p] >= 0
  /\ dest[p] = Uninit
  /\ dest' = [dest EXCEPT ![p] = expert_start_loc[expert_loc[p]]]
  /\ UNCHANGED << inputs, mem, regs1, pc2, expert_loc >>

\* The atomic add of one lane.  The lanes of all tokens interleave.
ClaimRow(p) ==
  /\ pc2[p[1]] = "claim"
  /\ expert_loc[p] >= 0
  /\ dest[p] = Uninit
  /\ dest' = [dest EXCEPT ![p] = expert_start_loc[expert_loc[p]]]
  /\ expert_start_loc' = [expert_start_loc EXCEPT ![expert_loc[p]] = @ + 1]
  /\ UNCHANGED << inputs, m_indices, aq_out, aq_scale_out, inv_perm, regs1, pc2, expert_loc >>

\* MUTANT: the program waits for every lane, the masked ones included.
StoreIndexOfAllLanes(t) ==
  /\ pc2[t] = "claim"
  /\ \A p \in Lanes : p[1] = t => dest[p] # Uninit
  /\ inv_perm' = [p \in Lanes |->
                    IF p \in ActiveLanes(t, expert_loc) THEN dest[p] ELSE inv_perm[p]]
  /\ pc2' = [pc2 EXCEPT ![t] = "copy"]
  /\ UNCHANGED << inputs, expert_start_loc, m_indices, aq_out, aq_scale_out, regs1,
                  expert_loc, dest >>

\* The lanes publish their rows in output_index and meet at the barrier.
StoreIndex(t) ==
  /\ pc2[t] = "claim"
  /\ \A p \in ActiveLanes(t, expert_loc) : dest[p] # Uninit
  /\ inv_perm' = [p \in Lanes |->
                    IF p \in ActiveLanes(t, expert_loc) THEN dest[p] ELSE inv_perm[p]]
  /\ pc2' = [pc2 EXCEPT ![t] = "copy"]
  /\ UNCHANGED << inputs, expert_start_loc, m_indices, aq_out, aq_scale_out, regs1,
                  expert_loc, dest >>

\* The rows token t copies to, read back from output_index after the barrier.
RowsOfToken(t) == {inv_perm[p] : p \in ActiveLanes(t, expert_loc)}

CopyToken(t) ==
  /\ pc2[t] = "copy"
  /\ aq_out' = [r \in DOMAIN aq_out |-> IF r \in RowsOfToken(t) THEN Token(t) ELSE aq_out[r]]
  /\ pc2' = [pc2 EXCEPT ![t] = IF WithScale THEN "scale" ELSE "done"]
  /\ UNCHANGED << inputs, expert_start_loc, m_indices, aq_scale_out, inv_perm, regs1,
                  expert_loc, dest >>

CopyScale(t) ==
  /\ pc2[t] = "scale"
  /\ aq_scale_out' = [r \in DOMAIN aq_scale_out |->
                        IF r \in RowsOfToken(t) THEN t ELSE aq_scale_out[r]]
  /\ pc2' = [pc2 EXCEPT ![t] = "done"]
  /\ UNCHANGED << inputs, expert_start_loc, m_indices, aq_out, inv_perm, regs1,
                  expert_loc, dest >>

ScatterDone == Scatter1Done /\ \A t \in Tokens : pc2[t] = "done"

Scatter1(e) == StoreStart(e) \/ LabelRow(e) \/ ExitScatter1(e)
Scatter2(t) == \/ LoadLanes(t)
               \/ \E p \in Lanes : p[1] = t /\ ClaimRow(p)
               \/ StoreIndex(t)
               \/ CopyToken(t)
               \/ CopyScale(t)

Next == \/ \E e \in Experts : Scatter1(e)
        \/ \E t \in Tokens : Scatter2(t)

Spec == Init /\ [][Next]_vars

\* Every launched program is run to its end by the device.
Fairness == /\ \A e \in Experts : WF_vars(Scatter1(e))
            /\ \A t \in Tokens : WF_vars(Scatter2(t))

FairSpec == Spec /\ Fairness

--------------------------------------------------------------------------------
TypeOK ==
  /\ topk_ids \in [Lanes -> Ids]
  /\ expert_start_loc \in [Experts -> Nat \cup {Uninit}]
  /\ m_indices \in [Rows -> Experts \cup {-1}]
  /\ aq_out \in [Rows -> {Junk} \cup {Token(t) : t \in Tokens}]
  /\ aq_scale_out \in [Rows -> Tokens \cup {Uninit}]
  /\ inv_perm \in [Lanes -> Nat \cup {Uninit}]
  /\ pc1 \in [Experts -> {"start", "fill", "done"}]
  /\ filled \in [Experts -> Nat]
  /\ pc2 \in [Tokens -> {"load", "claim", "copy", "scale", "done"}]
  /\ expert_loc \in [Lanes -> Experts \cup {-1}]
  /\ dest \in [Lanes -> Nat \cup {Uninit}]

\* No two lanes are ever given the same row, whatever the order of the atomic
\* adds of different tokens and of different lanes of a token.
RowsDistinct ==
  \A p, q \in Lanes :
    p # q /\ dest[p] # Uninit /\ dest[q] # Uninit => dest[p] # dest[q]

\* A row taken by a lane lies inside the region of the lane's own expert: the
\* regions have no padding between them, so a single extra row would belong to
\* the next expert, or lie past the end of the buffer.
RowInRegion ==
  \A p \in Lanes :
    dest[p] # Uninit =>
      /\ dest[p] \in start[expert_loc[p]] .. start[expert_loc[p] + 1] - 1
      /\ dest[p] \in Rows

\* A token's rows keep its data, its scales and its experts from the moment its
\* program has ended, whatever the programs still running write.
RowsHoldTheirToken ==
  \A p \in Lanes :
    pc2[p[1]] = "done" /\ LocalExpert(topk_ids[p]) >= 0 =>
      /\ m_indices[inv_perm[p]] = LocalExpert(topk_ids[p])
      /\ aq_out[inv_perm[p]] = Token(p[1])
      /\ WithScale => aq_scale_out[inv_perm[p]] = p[1]

\* An id that names no local expert takes no row ("The kernel uses -1 to
\* represent invalid topk_ids").
InvalidIdsTakeNoRow ==
  \A p \in Lanes : LocalExpert(topk_ids[p]) = -1 => dest[p] = Uninit

\* A labelled row keeps its label: the programs of scatter_1 never write the
\* same row.
LabelsAreFinal ==
  [][\A r \in Rows : m_indices[r] # -1 => m_indices'[r] = m_indices[r]]_vars

\* The launch ends: every program of both kernels runs to its end.
Terminates == <>ScatterDone
================================================================================
