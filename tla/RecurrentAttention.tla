-------------------------- MODULE RecurrentAttention --------------------------
(***************************************************************************)
(* A linear-attention layer on PPU through the steps of a worker: Qwen's   *)
(* gated delta net (patch/enhancement/attention/gdn.py, gdn_decode.py,     *)
(* attention/gdn_decode.py) or Kimi's delta attention (kda.py,             *)
(* attention/pla_kda.py).                                                  *)
(*                                                                         *)
(* A recurrent state is the tokens it has absorbed, in the order of its    *)
(* two inner dimensions; the output of a token is the state it left.  A    *)
(* request has a row of slots, one for each token of a speculative step.   *)
(* The convolution's state goes the same ways as the recurrent one, and is *)
(* not told from it.  Left out: RecoverSSM, FlashInfer, padded rows.       *)
(***************************************************************************)
EXTENDS Integers, FiniteSets, SequencesExt

CONSTANTS
  LayerEnvs,       (* layers, models, libraries and settings                 *)
  LayerPrompts,    (* the requests' prompts: a sequence of lengths           *)
  LayerContext,    (* bound: tokens of a request                             *)
  LayerSteps       (* bound: steps of the worker                             *)

\* A setting is the layer; the decode kernel and the prefill kernel that are named, in a
\* variable or in additional_config ("pla" is KDA's "fused" and "flashkda" too, "cuda" and
\* "other" are kernels PPU does not have for it); the legacy switch; the PLA library, and the
\* heads its prefill has kernels for; a native decode kernel that is no stub; the type of the
\* state; heads of 128; a bounded gate; drafts; a cache that asks for checkpoints; a module
\* that imported the kernels before the patches.
ASSUME LayerAssumption ==
  LayerEnvs \subseteq
    [kind : {"gdn", "kda"}, requested : {"auto", "pla", "cuda", "triton"},
     prefill : {"auto", "pla", "triton", "other"}, use_pla : BOOLEAN, library : BOOLEAN,
     native : BOOLEAN, fp32 : BOOLEAN, k128 : BOOLEAN, heads : BOOLEAN, bound : BOOLEAN,
     drafts : Nat, checkpoints : BOOLEAN, preloaded : BOOLEAN]

\* vLLM refuses an empty prompt, and one longer than a request may become.
ASSUME PromptAssumption == LayerContext \in Nat /\ LayerPrompts \in Seq(1 .. LayerContext)

VARIABLES
  laEnv,       (* the layer                                                  *)
  laBackend,   (* gdn_decode_kernel or kda_decode_backend, and the prefill's *)
  slots,       (* the states                                                 *)
  done,        (* tokens computed of each request                            *)
  text,        (* which token each of its positions holds                    *)
  accepted,    (* num_accepted_tokens of its last step                       *)
  laStep,      (* the requests of a step, in order: query lengths and drafts *)
  specOut,     (* core_attn_out_spec, where it is not in core_attn_out       *)
  nonSpecOut,  (* core_attn_out_non_spec, likewise                           *)
  attnOut,     (* core_attn_out                                              *)
  kernels,     (* the libraries whose kernels the step has run               *)
  laStage, laSteps

laVars == << laEnv, laBackend, slots, done, text, accepted, laStep, specOut, nonSpecOut, attnOut,
             kernels, laStage, laSteps >>

Reqs  == DOMAIN LayerPrompts
Width == 1 + laEnv.drafts
\* Slot 0 is vLLM's null block.
Slot(r, j)  == 1 + (r - 1) * Width + j - 1
NoTokens    == [layout |-> "vk", tokens |-> << >>]
Garbage     == << << 0, 0, 0 >> >>
StaleRow    == [state |-> Garbage, norms |-> 0]
NoBackend   == [decode |-> "none", prefill |-> "none", checkpoint_blocks |-> 0]

LayerInit ==
  /\ laEnv \in LayerEnvs
  /\ laBackend = NoBackend
  /\ slots = [s \in 0 .. Len(LayerPrompts) * Width |-> NoTokens]
  /\ done = [r \in Reqs |-> 0] /\ accepted = [r \in Reqs |-> 1]
  /\ text = [r \in Reqs |-> [p \in 0 .. LayerContext - 1 |-> 0]]
  /\ laStep = << >> /\ specOut = << >> /\ nonSpecOut = << >> /\ attnOut = << >>
  /\ kernels = {} /\ laStage = "construct" /\ laSteps = 0

--------------------------------------------------------------------------------
(* Which kernels.                                                              *)

\* An explicit choice of the decode kernel overrides the legacy switch.
pla_decode_enabled == laEnv.requested = "pla" \/ (laEnv.requested = "auto" /\ laEnv.use_pla)

get_sail_cuda_pla_k_last == pla_decode_enabled /\ laEnv.library

_pla_unsupported_reason ==
  IF laEnv.k128 /\ laEnv.fp32 /\ get_sail_cuda_pla_k_last THEN "none" ELSE "PLA"

\* A schema or a stub provides no kernel.
_fused_gdn_decode_unsupported_reason == IF laEnv.native THEN "none" ELSE "no CUDA implementation"

resolve_gdn_decode_backend ==
  LET pla == IF laEnv.requested = "pla" \/ (laEnv.requested = "auto" /\ laEnv.use_pla)
             THEN _pla_unsupported_reason ELSE "disabled"
      cuda == _fused_gdn_decode_unsupported_reason
  IN CASE laEnv.requested = "auto" -> IF laEnv.use_pla /\ pla = "none" THEN "pla"
                                      ELSE IF cuda = "none" THEN "cuda" ELSE "triton"
       [] laEnv.requested = "pla" -> IF pla = "none" THEN "pla" ELSE "raises"
       [] laEnv.requested = "cuda" -> IF cuda = "none" THEN "cuda" ELSE "raises"
       [] laEnv.requested = "triton" -> "triton"

_pla_prefill_supported == laEnv.use_pla /\ laEnv.library /\ laEnv.k128 /\ laEnv.heads

\* MUTANT: the name in additional_config is not looked at.
_resolve_gdn_prefill_backend_Unnamed == IF _pla_prefill_supported THEN "pla" ELSE "triton"

\* A kernel named that is not there is left to Triton, and no error.
_resolve_gdn_prefill_backend ==
  IF laEnv.prefill \in {"auto", "pla"} /\ _pla_prefill_supported THEN "pla" ELSE "triton"

\* Missing, where it is switched on, is an error: Triton is chosen by switching it off.
get_pla_kda_kernel ==
  IF ~ laEnv.use_pla THEN "none" ELSE IF laEnv.library THEN "kernel" ELSE "raises"

is_fused_kda_decode_supported ==
  IF ~ laEnv.k128 \/ laEnv.drafts # 0 \/ ~ laEnv.fp32 THEN "none" ELSE get_pla_kda_kernel

is_flashkda_supported ==
  IF get_pla_kda_kernel = "kernel" /\ ~ (laEnv.k128 /\ laEnv.bound) THEN "none"
  ELSE get_pla_kda_kernel

\* PLA's prefill shows no intermediate states, so the cache asks for none.
_get_kv_cache_spec(prefill) == IF laEnv.checkpoints /\ prefill # "flashkda" THEN 1 ELSE 0

\* vLLM's resolvers, external: a kernel that is named or left open is taken if its probe
\* finds it; one left open is Triton's otherwise, any other is refused or Triton's.
Resolved(name, support, kernel) ==
  CASE name = "triton" -> {"triton"}
    [] name \in {"auto", "pla"} /\ support = "kernel" -> {kernel}
    [] name \in {"auto", "pla"} /\ support = "raises" -> {"raises"}
    [] name = "auto" /\ support = "none" -> {"triton"}
    [] OTHER -> {"raises", "triton"}

\* GDN's layer and its chunk rule; KDA's layer.
GdnBackends == [decode |-> resolve_gdn_decode_backend, prefill |-> _resolve_gdn_prefill_backend,
                checkpoint_blocks |-> 0]
KdaBackends ==
  { [decode |-> decode, prefill |-> prefill, checkpoint_blocks |-> _get_kv_cache_spec(prefill)] :
      decode \in Resolved(laEnv.requested, is_fused_kda_decode_supported, "fused"),
      prefill \in Resolved(laEnv.prefill, is_flashkda_supported, "flashkda") }

construct_layer ==
  /\ laStage = "construct"
  /\ laBackend' \in IF laEnv.kind = "gdn" THEN {GdnBackends} ELSE KdaBackends
  /\ laStage' = IF "raises" \in {laBackend'.decode, laBackend'.prefill} THEN "refused" ELSE "idle"
  /\ UNCHANGED << laEnv, slots, done, text, accepted, laStep, specOut, nonSpecOut, attnOut,
                  kernels, laSteps >>

--------------------------------------------------------------------------------
(* vLLM's scheduler and the metadata of a step, external.                      *)

InPrompt(r) == done[r] < LayerPrompts[r]

\* The requests that verify drafts, and the prompts and plain decodes.
SpecSeqs    == { k \in DOMAIN laStep : laStep[k].spec }
NonSpecSeqs == { k \in DOMAIN laStep : ~ laStep[k].spec }
Prefills    == { k \in DOMAIN laStep : InPrompt(laStep[k].req) }
HasSpec     == SpecSeqs # {}

\* The rows of some of the step's requests, one after the other: where those of each start,
\* the row of a token << request, place >> among them, and the token of a row.
StepTokens(part) == { t \in part \X (1 .. LayerContext) : t[2] <= laStep[t[1]].len }
query_start_loc(part, k) == Cardinality({ t \in StepTokens(part) : t[1] < k })
RowAmong(part, t) == query_start_loc(part, t[1]) + t[2]
PartRows(part)    == 1 .. Cardinality(StepTokens(part))
TokenInRow(part, j)  == CHOOSE t \in StepTokens(part) : RowAmong(part, t) = j
StepRow(t)        == RowAmong(DOMAIN laStep, t)

\* The rows of a part of the step, and whether they are side by side.
RowsOf(part) == [j \in PartRows(part) |-> StepRow(TokenInRow(part, j))]
SideBySide(rows) == \A i \in 2 .. Len(rows) : rows[i] = rows[i - 1] + 1
Sliced == NonSpecSeqs # {} /\ HasSpec /\ SideBySide(RowsOf(SpecSeqs)) /\ SideBySide(RowsOf(NonSpecSeqs))

TokensOf(k) == [i \in 1 .. laStep[k].len |->
                  LET p == done[laStep[k].req] + i - 1 IN << laStep[k].req, p, text[laStep[k].req][p] >>]

\* Past its prompt a request has drafts to verify, or none: the drafter may find nothing for
\* it.  Then it decodes from its first slot, as the kernels of plain decodes do; whether vLLM
\* moves the state there, where more than one token was accepted, is its own affair.
ScheduleLayer ==
  /\ laStage = "idle" /\ laSteps < LayerSteps
  /\ \E R \in SUBSET { r \in Reqs : done[r] < LayerContext } \ {{}} :
       \E drafted \in SUBSET { r \in R : laEnv.drafts > 0 /\ ~ InPrompt(r) },
          order \in SetToSeqs(R), len \in [R -> 1 .. LayerContext] :
         /\ \A r \in R : ~ InPrompt(r) /\ r \notin drafted => accepted[r] = 1
         /\ \A r \in R : len[r] \in
              IF InPrompt(r) THEN {1, LayerPrompts[r] - done[r]}
              ELSE IF r \in drafted
              THEN {IF Width < LayerContext - done[r] THEN Width ELSE LayerContext - done[r]}
              ELSE {1}
         /\ laStep' = [k \in DOMAIN order |-> [req |-> order[k], len |-> len[order[k]],
                                               spec |-> order[k] \in drafted]]
  /\ attnOut' = [i \in PartRows(DOMAIN laStep)' |-> StaleRow]
  /\ laStage' = (IF laEnv.kind = "gdn" THEN "spec" ELSE "forward")
  /\ laSteps' = laSteps + 1
  /\ UNCHANGED << laEnv, laBackend, slots, done, text, accepted, specOut, nonSpecOut, kernels >>

\* A request that is through leaves its slots as they are to the next one.
NextRequest(r) ==
  /\ laStage = "idle" /\ done[r] = LayerContext /\ laSteps < LayerSteps
  /\ done' = [done EXCEPT ![r] = 0] /\ accepted' = [accepted EXCEPT ![r] = 1]
  /\ text' = [text EXCEPT ![r] = [p \in DOMAIN text[r] |-> text[r][p] + 1]]
  /\ UNCHANGED << laEnv, laBackend, slots, laStep, specOut, nonSpecOut, attnOut, kernels,
                  laStage, laSteps >>

--------------------------------------------------------------------------------
(* The kernels: each demands what it was compiled for.                         *)

Demands(kernel) ==
  CASE kernel \in {"k_last", "k_last_packed"} -> laEnv.library /\ laEnv.fp32 /\ laEnv.k128
    [] kernel = "flashqla" -> laEnv.library /\ laEnv.k128 /\ laEnv.heads
    [] kernel \in {"mega", "flashkda"} -> laEnv.library /\ laEnv.k128
    [] kernel = "fused_gdn" -> laEnv.native
    [] kernel = "triton" -> TRUE

\* The states after each of the tokens.
Recur(kernel, state, tokens) ==
  [i \in DOMAIN tokens |->
     IF Demands(kernel) /\ state.layout = (IF kernel = "flashqla" THEN "kv" ELSE "vk")
     THEN [state EXCEPT !.tokens = @ \o SubSeq(tokens, 1, i)]
     ELSE [state EXCEPT !.tokens = Garbage]]

Outputs(states) == [i \in DOMAIN states |-> [state |-> states[i].tokens, norms |-> 0]]
AllRows(part, Of) ==
  [j \in PartRows(part) |-> LET t == TokenInRow(part, j) IN Outputs(Of[t[1]])[t[2]]]
LastState(states) == states[Len(states)]

\* Speculative rows start from the state of the last accepted token, and leave one state
\* for each of their own.
Verify(kernel) ==
  [k \in SpecSeqs |-> Recur(kernel, slots[Slot(laStep[k].req, accepted[laStep[k].req])], TokensOf(k))]
VerifiedSlots(states) ==
  [s \in DOMAIN slots |->
     IF \E k \in SpecSeqs, j \in 1 .. Width : j <= laStep[k].len /\ s = Slot(laStep[k].req, j)
     THEN LET k == CHOOSE k \in SpecSeqs : \E j \in 1 .. laStep[k].len : s = Slot(laStep[k].req, j)
          IN states[k][CHOOSE j \in 1 .. laStep[k].len : s = Slot(laStep[k].req, j)]
     ELSE slots[s]]

\* Other rows have one state, in the first slot; a prompt starts from none.
Initial(k) == IF done[laStep[k].req] = 0 THEN NoTokens ELSE slots[Slot(laStep[k].req, 1)]
FinalSlots(states) ==
  [s \in DOMAIN slots |->
     IF \E k \in NonSpecSeqs : s = Slot(laStep[k].req, 1)
     THEN LastState(states[CHOOSE k \in NonSpecSeqs : s = Slot(laStep[k].req, 1)])
     ELSE slots[s]]

Put(out, rows, part) ==
  [i \in DOMAIN out |-> IF \E j \in DOMAIN rows : rows[j] = i
                        THEN part[CHOOSE j \in DOMAIN rows : rows[j] = i] ELSE out[i]]

--------------------------------------------------------------------------------
(* GDN: vLLM's forward, external, calls the functions the plugin replaces.     *)

\* A module that had imported a function before it was replaced is given the new one.
GdnRebound == {"ops", "qwen_gdn_linear_attn"}
GdnPatched == ~ laEnv.preloaded \/ "qwen_gdn_linear_attn" \in GdnRebound

_can_use_fused_gdn_mtp_decode == laBackend.decode = "cuda" /\ _fused_gdn_decode_unsupported_reason = "none"

\* By what the call's tensors are; the indices and the rows' starts are int32.
fused_sigmoid_gating_delta_rule_update ==
  IF GdnPatched /\ get_sail_cuda_pla_k_last /\ laEnv.fp32 /\ laEnv.k128 THEN "k_last" ELSE "triton"

fused_recurrent_gated_delta_rule_packed_decode ==
  IF GdnPatched /\ get_sail_cuda_pla_k_last /\ laEnv.fp32 /\ laEnv.k128 THEN "k_last_packed"
  ELSE "triton"

\* The native kernel takes batches of drafts alone.
gdn_spec ==
  /\ laStage = "spec"
  /\ LET kernel == IF _can_use_fused_gdn_mtp_decode /\ NonSpecSeqs = {} THEN "fused_gdn"
                   ELSE fused_sigmoid_gating_delta_rule_update
         states == Verify(kernel)
     IN /\ slots' = VerifiedSlots(states)
        /\ attnOut' = Put(attnOut, RowsOf(SpecSeqs), AllRows(SpecSeqs, states))
        /\ kernels' = IF HasSpec THEN {<< "decode", kernel >>} ELSE {}
  /\ laStage' = "nonspec"
  /\ UNCHANGED << laEnv, laBackend, done, text, accepted, laStep, specOut, nonSpecOut, laSteps >>

\* Plain decodes are packed, unless there are drafts beside them.
gdn_decode ==
  /\ laStage = "nonspec" /\ Prefills = {}
  /\ LET kernel == IF HasSpec THEN fused_sigmoid_gating_delta_rule_update
                   ELSE fused_recurrent_gated_delta_rule_packed_decode
         states == [k \in NonSpecSeqs |-> Recur(kernel, Initial(k), TokensOf(k))]
     IN /\ slots' = FinalSlots(states)
        /\ attnOut' = Put(attnOut, RowsOf(NonSpecSeqs), AllRows(NonSpecSeqs, states))
        /\ kernels' = IF NonSpecSeqs = {} THEN kernels ELSE kernels \cup {<< "decode", kernel >>}
  /\ laStage' = "norm"
  /\ UNCHANGED << laEnv, laBackend, done, text, accepted, laStep, specOut, nonSpecOut, laSteps >>

Transposed(state) == [state EXCEPT !.layout = IF @ = "vk" THEN "kv" ELSE "vk"]

\* MUTANT: the final state is stored as FlashQLA returns it.
final_state_Untransposed(states) == states

\* FlashQLA keeps a state with its dimensions the other way round.
final_state(states) == [states EXCEPT ![Len(states)] = Transposed(@)]

forward_pla ==
  [k \in NonSpecSeqs |-> final_state(Recur("flashqla", Transposed(Initial(k)), TokensOf(k)))]

gdn_prefill ==
  /\ laStage = "nonspec" /\ Prefills # {}
  /\ LET states == IF laBackend.prefill = "pla" THEN forward_pla
                   ELSE [k \in NonSpecSeqs |-> Recur("triton", Initial(k), TokensOf(k))]
     IN /\ slots' = FinalSlots(states)
        /\ attnOut' = Put(attnOut, RowsOf(NonSpecSeqs), AllRows(NonSpecSeqs, states))
  /\ kernels' = kernels \cup {<< "prefill", laBackend.prefill >>}
  /\ laStage' = "norm"
  /\ UNCHANGED << laEnv, laBackend, done, text, accepted, laStep, specOut, nonSpecOut, laSteps >>

gdn_norm ==
  /\ laStage = "norm"
  /\ attnOut' = [i \in DOMAIN attnOut |-> [attnOut[i] EXCEPT !.norms = @ + 1]]
  /\ laStage' = "served"
  /\ UNCHANGED << laEnv, laBackend, slots, done, text, accepted, laStep, specOut, nonSpecOut,
                  kernels, laSteps >>

--------------------------------------------------------------------------------
(* KDA: KimiK3DeltaAttention._forward.                                         *)

\* One kernel for a batch of plain decodes: it convolves, recurs and normalizes.
fused_kda_decode_mega_forward ==
  /\ laStage = "forward"
  /\ laBackend.decode # "triton" /\ ~ HasSpec /\ Prefills = {} /\ NonSpecSeqs # {}
  /\ LET states == [k \in NonSpecSeqs |-> Recur("mega", Initial(k), TokensOf(k))]
     IN IF laEnv.use_pla
        THEN /\ slots' = FinalSlots(states)
             /\ attnOut' = [i \in DOMAIN attnOut |->
                  [Put(attnOut, RowsOf(NonSpecSeqs), AllRows(NonSpecSeqs, states))[i] EXCEPT !.norms = 1]]
             /\ laStage' = "served"
        ELSE /\ laStage' = "raised"
             /\ UNCHANGED << slots, attnOut >>
  /\ kernels' = {<< "decode", "mega" >>}
  /\ UNCHANGED << laEnv, laBackend, done, text, accepted, laStep, specOut, nonSpecOut, laSteps >>

InPlace == << >>

\* Drafts are verified in their own rows of core_attn_out, if those are side by side or
\* there are no others.
kda_spec ==
  /\ laStage = "forward"
  /\ ~ (laBackend.decode # "triton" /\ ~ HasSpec /\ Prefills = {} /\ NonSpecSeqs # {})
  /\ LET states == Verify("triton")
         rows == AllRows(SpecSeqs, states)
         direct == NonSpecSeqs = {} \/ Sliced
     IN /\ slots' = VerifiedSlots(states)
        /\ attnOut' = IF HasSpec /\ direct THEN Put(attnOut, RowsOf(SpecSeqs), rows) ELSE attnOut
        /\ specOut' = IF HasSpec /\ ~ direct THEN rows ELSE InPlace
        /\ kernels' = {}
  /\ laStage' = "nonspec-kda"
  /\ UNCHANGED << laEnv, laBackend, done, text, accepted, laStep, nonSpecOut, laSteps >>

\* Checkpoints are asked for by the cache's specification, and PLA has none to give.
_flashkda_prefill(checkpoint, k) ==
  IF checkpoint THEN << >> ELSE Recur("flashkda", Initial(k), TokensOf(k))

\* Where PLA's prefill writes: beside drafts that are not apart, in the workspace.
flashkda_out == IF Sliced \/ ~ HasSpec THEN "core_attn_out" ELSE "workspace"

kda_prefill ==
  /\ laStage = "nonspec-kda" /\ Prefills # {}
  /\ LET checkpoint == laBackend.checkpoint_blocks > 0
         flashkda == laBackend.prefill = "flashkda"
         states == [k \in NonSpecSeqs |->
                      IF flashkda THEN _flashkda_prefill(checkpoint, k)
                      ELSE Recur("triton", Initial(k), TokensOf(k))]
         rows == AllRows(NonSpecSeqs, states)
         direct == IF flashkda THEN flashkda_out = "core_attn_out" ELSE Sliced
     IN IF flashkda /\ checkpoint
        THEN laStage' = "raised" /\ UNCHANGED << slots, attnOut, nonSpecOut >>
        ELSE /\ slots' = FinalSlots(states)
             /\ attnOut' = IF direct THEN Put(attnOut, RowsOf(NonSpecSeqs), rows) ELSE attnOut
             /\ nonSpecOut' = IF direct THEN InPlace ELSE rows
             /\ laStage' = "restore"
  /\ kernels' = kernels \cup {<< "prefill", laBackend.prefill >>}
  /\ UNCHANGED << laEnv, laBackend, done, text, accepted, laStep, specOut, laSteps >>

\* Plain decodes are written beside core_attn_out, but in it where drafts are not apart.
fused_recurrent_kda_packed_decode ==
  /\ laStage = "nonspec-kda" /\ Prefills = {}
  /\ LET states == [k \in NonSpecSeqs |-> Recur("triton", Initial(k), TokensOf(k))]
         rows == AllRows(NonSpecSeqs, states)
     IN /\ slots' = FinalSlots(states)
        /\ attnOut' = IF Sliced THEN Put(attnOut, RowsOf(NonSpecSeqs), rows) ELSE attnOut
        /\ nonSpecOut' = IF Sliced THEN InPlace ELSE rows
  /\ laStage' = "restore"
  /\ UNCHANGED << laEnv, laBackend, done, text, accepted, laStep, specOut, kernels, laSteps >>

\* The parts go back to the order of the step, and everything is normalized at once.
restore ==
  /\ laStage = "restore"
  /\ LET ordered ==
           IF HasSpec /\ NonSpecSeqs # {}
           THEN IF Sliced THEN attnOut
                ELSE Put(Put(attnOut, RowsOf(SpecSeqs), specOut), RowsOf(NonSpecSeqs), nonSpecOut)
           ELSE IF NonSpecSeqs # {}
           THEN IF laBackend.prefill # "flashkda" \/ Prefills = {}
                THEN [i \in DOMAIN attnOut |-> nonSpecOut[i]] ELSE attnOut
           ELSE attnOut
     IN attnOut' = [i \in DOMAIN ordered |-> [ordered[i] EXCEPT !.norms = @ + 1]]
  /\ specOut' = InPlace /\ nonSpecOut' = InPlace
  /\ laStage' = "served"
  /\ UNCHANGED << laEnv, laBackend, slots, done, text, accepted, laStep, kernels, laSteps >>

--------------------------------------------------------------------------------

\* vLLM's sampler, external: at least the first of a speculative step's tokens stands.
AcceptLayer ==
  /\ laStage = "served"
  /\ \E n \in [DOMAIN laStep -> 1 .. LayerContext] :
       /\ \A k \in DOMAIN laStep : n[k] \in IF k \in SpecSeqs THEN 1 .. laStep[k].len ELSE {laStep[k].len}
       /\ LET K(r) == CHOOSE k \in DOMAIN laStep : laStep[k].req = r
              In(r) == \E k \in DOMAIN laStep : laStep[k].req = r
          IN /\ done' = [r \in Reqs |-> IF In(r) THEN done[r] + n[K(r)] ELSE done[r]]
             /\ accepted' = [r \in Reqs |-> IF ~ In(r) THEN accepted[r]
                                            ELSE IF K(r) \in SpecSeqs THEN n[K(r)] ELSE 1]
             /\ text' = [r \in Reqs |-> [p \in DOMAIN text[r] |->
                  IF In(r) /\ p >= done[r] + n[K(r)] /\ p < done[r] + laStep[K(r)].len
                  THEN text[r][p] + 1 ELSE text[r][p]]]
  /\ laStep' = << >> /\ attnOut' = << >> /\ kernels' = {}
  /\ laStage' = "idle"
  /\ UNCHANGED << laEnv, laBackend, slots, specOut, nonSpecOut, laSteps >>

LayerNext ==
  \/ construct_layer \/ ScheduleLayer \/ AcceptLayer
  \/ gdn_spec \/ gdn_decode \/ gdn_prefill \/ gdn_norm
  \/ fused_kda_decode_mega_forward \/ kda_spec \/ kda_prefill
  \/ fused_recurrent_kda_packed_decode \/ restore
  \/ \E r \in Reqs : NextRequest(r)

LayerSpec == LayerInit /\ [][LayerNext]_laVars

--------------------------------------------------------------------------------

Prefix(r, n) == [i \in 1 .. n |-> << r, i - 1, text[r][i - 1] >>]

\* The output of every token of a step is the state of exactly its request's tokens up to
\* it, normalized once, in its own row; between steps the slot a request's next step starts
\* from holds its accepted tokens; nothing a layer accepted at its construction raises.
StateIsOfItsTokens ==
  /\ laStage # "raised"
  /\ laStage = "served" =>
       \A t \in StepTokens(DOMAIN laStep) :
         LET r == laStep[t[1]].req
         IN attnOut[StepRow(t)] = [state |-> Prefix(r, done[r] + t[2]), norms |-> 1]
  /\ laStage = "idle" =>
       \A r \in Reqs : done[r] > 0 =>
         slots[Slot(r, IF InPrompt(r) THEN 1 ELSE accepted[r])]
           = [layout |-> "vk", tokens |-> Prefix(r, done[r])]

\* No kernel runs against the settings.  GDN decodes with PLA only where it was asked to: by
\* name, or by the legacy switch when nothing was named; and always with what was named, but
\* that the native kernel leaves to Triton the batches it cannot take.  GDN's prefill and
\* KDA use PLA only with the switch on, and then only where its kernel was named or none was:
\* a kernel named in additional_config may turn PLA off, and never turns it on.
PlaOnlyWhereAsked ==
  /\ \A k \in kernels : k[1] = "prefill" /\ k[2] # "triton" =>
       laEnv.use_pla /\ laEnv.prefill \in {"auto", "pla"}
  /\ laEnv.kind = "kda" => \A k \in kernels : k[1] = "decode" /\ k[2] # "triton" =>
       laEnv.use_pla /\ laEnv.requested \in {"auto", "pla"}
  /\ laEnv.kind = "gdn" => \A k \in kernels : k[1] = "decode" =>
       CASE laEnv.requested = "pla" -> k[2] \in {"k_last", "k_last_packed"}
         [] laEnv.requested = "cuda" -> k[2] \in {"fused_gdn", "triton"}
         [] laEnv.requested = "triton" -> k[2] = "triton"
         [] laEnv.requested = "auto" -> k[2] \in {"k_last", "k_last_packed"} => laEnv.use_pla

=============================================================================
