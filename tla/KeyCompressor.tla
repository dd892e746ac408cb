---------------------------- MODULE KeyCompressor ----------------------------
(***************************************************************************)
(* The compressed key caches of DeepSeek V4 on PPU: a compressor's forward *)
(* (patch/enhancement/models/deepseek_v4_compressor.py) saves the state of *)
(* each token and then compresses the windows that tokens close, into a    *)
(* paged cache (models/deepseek_v4/ops/indexer.py, cache.py); attention    *)
(* gathers the keys back (cache.py, models/deepseek_v4_cache.py).          *)
(*                                                                         *)
(* A program is a token of a launched kernel; those of one kernel touch    *)
(* rows of their own, and are taken in order.  A token's state is known by *)
(* the token and the part of ape added to it; the numbers written from it  *)
(* are in QuantizedKeys.  The ratios 4 and 128 are scaled down to 2 and 3; *)
(* byte addresses are the source's.                                        *)
(***************************************************************************)
EXTENDS Integers, SequencesExt

CONSTANTS
  CompressorEnvs,      (* which compressor, on which device, how it runs     *)
  CompressorReqs,      (* slots of requests                                  *)
  CompressorContext,   (* bound: tokens of a request                         *)
  CompressorPieces,    (* bound: tokens of a request's first step            *)
  CompressorSteps,     (* bound: forwards                                    *)
  StateBlock,          (* block_size of the state cache                      *)
  KeyBlock             (* and of the key cache                               *)

ASSUME CompressorAssumption ==
  /\ CompressorEnvs \subseteq [kind : {"indexer", "csa", "hca", "other"}, sm80 : BOOLEAN,
                               fp4 : BOOLEAN, preloaded : BOOLEAN, full : BOOLEAN, drafts : Nat]
  /\ CompressorReqs # {} /\ IsFiniteSet(CompressorReqs)
  /\ CompressorReqs = 0 .. Cardinality(CompressorReqs) - 1
  /\ CompressorContext \in Nat /\ StateBlock \in Nat \ {0} /\ KeyBlock \in Nat \ {0}

VARIABLES
  kcEnv,       (* the compressor                                             *)
  written,     (* tokens computed of each request                            *)
  content,     (* which token each of its positions holds                    *)
  stateCache,  (* rows of state, by physical block and offset                *)
  kvCache,     (* bytes of the key cache, by physical block and address      *)
  kcBatch,     (* the tokens of the step: request, position, two slots       *)
  captured,    (* what a full graph captured of forward                      *)
  saving,      (* programs of the save kernel that have not run              *)
  compressing, (* programs of the compress kernel that have not run          *)
  out,         (* what was gathered: by request, by row                      *)
  kcStage, kcSteps

kcVars == << kcEnv, written, content, stateCache, kvCache, kcBatch, captured, saving,
             compressing, out, kcStage, kcSteps >>

Nothing == [token |-> 0]

KeyCompressorInit ==
  /\ kcEnv \in CompressorEnvs
  /\ written = [r \in CompressorReqs |-> 0]
  /\ content = [r \in CompressorReqs |-> [p \in 0 .. CompressorContext - 1 |-> 0]]
  /\ stateCache = << >> /\ kvCache = << >> /\ kcBatch = << >>
  /\ captured = "nothing" /\ saving = {} /\ compressing = {} /\ out = << >>
  /\ kcStage = "construct" /\ kcSteps = 0

--------------------------------------------------------------------------------
(* DeepseekCompressor.__init__                                                 *)

head_dim       == CASE kcEnv.kind = "indexer" -> 128 [] kcEnv.kind = "other" -> 64 [] OTHER -> 512
rope_head_dim  == 64
compress_ratio == IF kcEnv.kind = "hca" THEN 3 ELSE 2
overlapping    == kcEnv.kind # "hca"
coff           == IF overlapping THEN 2 ELSE 1

\* Bytes of a key, and of its scales.
Layout ==
  CASE head_dim = 512 -> [quant_block |-> 64, token_stride |-> (head_dim - rope_head_dim) + rope_head_dim * 2,
                          scale_dim |-> ((head_dim - rope_head_dim) \div 64) + 1]
    [] head_dim = 128 /\ kcEnv.fp4 -> [quant_block |-> 32, token_stride |-> 64, scale_dim |-> 4]
    [] head_dim = 128 /\ ~ kcEnv.fp4 -> [quant_block |-> 128, token_stride |-> 128, scale_dim |-> 4]

construct_compressor ==
  /\ kcStage = "construct"
  /\ kcStage' = IF head_dim \notin {128, 512} \/ (head_dim = 512 /\ kcEnv.fp4) THEN "refused"
                ELSE IF kcEnv.full THEN "capture" ELSE "idle"
  /\ UNCHANGED << kcEnv, written, content, stateCache, kvCache, kcBatch, captured, saving,
                  compressing, out, kcSteps >>

--------------------------------------------------------------------------------
(* Which kernels: the modules that captured vLLM's functions before the patch  *)
(* are given the replacements.                                                 *)

Rebound == {"compressor", "common.ops", "nvidia.flashmla"}
Replaced(consumer) == ~ kcEnv.preloaded \/ consumer \in Rebound

\* PPU 1.0 compiles none of vLLM's kernels that hold a hardware fp8.
compress_norm_rope_store_fn ==
  IF ~ kcEnv.sm80 THEN "upstream"
  ELSE IF ~ Replaced("compressor") THEN "uncompilable"
  ELSE IF head_dim = 128 /\ ~ kcEnv.fp4 THEN "compress_indexer_rope_store_int8"
  ELSE IF head_dim = 512 THEN "compress_mla_rope_store_fp8" ELSE "uncompilable"

\* What the implementations assert of the layout they write.
Accepts ==
  CASE compress_norm_rope_store_fn = "compress_indexer_rope_store_int8" ->
         Layout = [quant_block |-> 128, token_stride |-> 128, scale_dim |-> 4]
    [] compress_norm_rope_store_fn = "compress_mla_rope_store_fp8" ->
         Layout = [quant_block |-> 64, token_stride |-> 576, scale_dim |-> 8]
    [] compress_norm_rope_store_fn = "upstream" -> TRUE
    [] compress_norm_rope_store_fn = "uncompilable" -> FALSE

dequantize_and_gather_k_cache ==
  IF ~ kcEnv.sm80 THEN "upstream"
  ELSE IF Replaced("nvidia.flashmla") THEN "ppu_deepseek_v4_dequant_gather" ELSE "uncompilable"

--------------------------------------------------------------------------------
(* vLLM's scheduler and block tables, external.                                *)

\* Requests have blocks of their own, not in order.
Physical(r, block) == block * Cardinality(CompressorReqs) + r

RowOf(r, p) == << Physical(r, p \div StateBlock), p % StateBlock >>

\* A padded token has no slot; only a token that closes a window has one for its key.
TokenAt(r, p) ==
  [req |-> r, pos |-> p, slot |-> Physical(r, p \div StateBlock) * StateBlock + (p % StateBlock),
   kv_slot |-> IF (p + 1) % compress_ratio # 0 THEN -1
               ELSE LET x == p \div compress_ratio
                    IN Physical(r, x \div KeyBlock) * KeyBlock + (x % KeyBlock)]
Padding == { [req |-> CHOOSE r \in CompressorReqs : TRUE, pos |-> p, slot |-> -1, kv_slot |-> -1] :
               p \in {0, compress_ratio - 1} }

ScheduleTokens ==
  /\ kcStage = "idle" /\ kcSteps < CompressorSteps
  /\ \E R \in (SUBSET CompressorReqs) \ {{}} :
       \E len \in [R -> 1 .. CompressorContext] :
         /\ \A r \in R : len[r] <= CompressorContext - written[r]
                         /\ IF written[r] = 0 THEN len[r] \in CompressorPieces
                            ELSE len[r] <= 1 + kcEnv.drafts
         /\ LET tokens == SetToSeq(UNION { { TokenAt(r, p) : p \in written[r] .. written[r] + len[r] - 1 } :
                                             r \in R })
            IN IF kcEnv.full THEN \E pad \in Padding : kcBatch' = Append(tokens, pad)
               ELSE kcBatch' = tokens
  /\ kcStage' = "forward" /\ kcSteps' = kcSteps + 1
  /\ UNCHANGED << kcEnv, written, content, stateCache, kvCache, captured, saving, compressing, out >>

\* A finished request leaves its blocks, as they are, to the next one.
Recycle(r) ==
  /\ kcStage = "idle" /\ written[r] = CompressorContext /\ kcSteps < CompressorSteps
  /\ written' = [written EXCEPT ![r] = 0]
  /\ content' = [content EXCEPT ![r] = [p \in DOMAIN content[r] |-> content[r][p] + 1]]
  /\ UNCHANGED << kcEnv, stateCache, kvCache, kcBatch, captured, saving, compressing, out,
                  kcStage, kcSteps >>

--------------------------------------------------------------------------------
(* DeepseekCompressor.forward                                                  *)

\* MUTANT: the compress kernel is launched without waiting for the save kernel.
launch_pdl_Overlaps == TRUE

launch_pdl == FALSE

\* No window of 128 is closed, the host knows it, and the graph may branch on it.
SkipsCompress(c128_boundary) ==
  head_dim = 512 /\ kcEnv.kind = "hca" /\ ~ kcEnv.full /\ c128_boundary = "false"

\* The builder of the metadata, external, may not know.
Boundary == { "unknown", IF \E i \in DOMAIN kcBatch : kcBatch[i].kv_slot >= 0 THEN "true" ELSE "false" }

\* A full graph is captured with a dummy batch and replayed whatever the batch.
capture ==
  /\ kcStage = "capture"
  /\ \E boundary \in {"unknown", "true", "false"} :
       captured' = IF SkipsCompress(boundary) THEN "save" ELSE "save and compress"
  /\ kcStage' = IF Accepts THEN "idle" ELSE "raised"
  /\ UNCHANGED << kcEnv, written, content, stateCache, kvCache, kcBatch, saving, compressing,
                  out, kcSteps >>

forward ==
  /\ kcStage = "forward"
  /\ saving' = DOMAIN kcBatch
  /\ IF kcEnv.full
     THEN /\ compressing' = IF captured = "save" THEN {} ELSE DOMAIN kcBatch
          /\ kcStage' = "launched"
     ELSE \E boundary \in Boundary :
            /\ compressing' = IF SkipsCompress(boundary) \/ ~ Accepts THEN {} ELSE DOMAIN kcBatch
            /\ kcStage' = IF SkipsCompress(boundary) \/ Accepts THEN "launched" ELSE "raised"
  /\ UNCHANGED << kcEnv, written, content, stateCache, kvCache, kcBatch, captured, out, kcSteps >>

\* A cache with a value stored at an address of it.
Stored(cache, address, value) ==
  [a \in DOMAIN cache \cup {address} |-> IF a = address THEN value ELSE cache[a]]

\* The kernel is vLLM's: a token's kv and score, with ape, in both halves of its row.
_SAVE_PARTIAL_STATES_KERNEL(i) ==
  /\ kcStage = "launched" /\ i \in saving /\ \A j \in saving : i <= j
  /\ LET t == kcBatch[i]
     IN stateCache' = IF t.slot < 0 THEN stateCache
                      ELSE Stored(stateCache, << t.slot \div StateBlock, t.slot % StateBlock >>,
                                  [token |-> << t.req, t.pos, content[t.req][t.pos] >>,
                                   ape |-> t.pos % compress_ratio])
  /\ saving' = saving \ {i}
  /\ UNCHANGED << kcEnv, written, content, kvCache, kcBatch, captured, compressing, out,
                  kcStage, kcSteps >>

\* The rows of the window that ends at the position: of the second half of the state its
\* own tokens, of the first those of the window before.
Gathered(t) ==
  LET start == t.pos - coff * compress_ratio + 1
      tokens == { n \in 0 .. coff * compress_ratio - 1 : start + n >= 0 }
      row(n) == RowOf(t.req, start + n)
  IN { [half |-> IF n >= compress_ratio THEN 2 ELSE 1,
        state |-> IF row(n) \in DOMAIN stateCache THEN stateCache[row(n)] ELSE Nothing] : n \in tokens }

compressed_pos(position) == (position \div compress_ratio) * compress_ratio

\* The bytes of a key lie in one plane of its block, its scales in another.
KeyAddress(kv_slot)   == << kv_slot \div KeyBlock, (kv_slot % KeyBlock) * Layout.token_stride >>
ScaleAddress(kv_slot) ==
  << kv_slot \div KeyBlock, KeyBlock * Layout.token_stride + (kv_slot % KeyBlock) * Layout.scale_dim >>

\* The kernel's program of a token: compress, norm, rotate, quantize, store.
compress(i) ==
  /\ kcStage = "launched" /\ i \in compressing /\ \A j \in compressing : i <= j
  /\ launch_pdl \/ saving = {}
  /\ LET t == kcBatch[i]
         key == [window |-> Gathered(t), rope |-> compressed_pos(t.pos)]
     IN kvCache' = IF t.slot < 0 \/ (t.pos + 1) % compress_ratio # 0 \/ t.kv_slot < 0 THEN kvCache
                   ELSE Stored(Stored(kvCache, ScaleAddress(t.kv_slot), [scale |-> key]),
                               KeyAddress(t.kv_slot), [bytes |-> key])
  /\ compressing' = compressing \ {i}
  /\ UNCHANGED << kcEnv, written, content, stateCache, kcBatch, captured, saving, out,
                  kcStage, kcSteps >>

--------------------------------------------------------------------------------
(* Attention reads the keys back: the packed ones are gathered.                *)

SeqLenOf(r) == LET P == { kcBatch[i].pos + 1 : i \in { j \in DOMAIN kcBatch : kcBatch[j].req = r
                                                                             /\ kcBatch[j].slot >= 0 } }
               IN IF P = {} THEN written[r] ELSE CHOOSE n \in P : \A o \in P : o <= n

\* Fixed by the gather kernel, whatever wrote the cache.
GatherLayout == [token_stride |-> 448 + 64 * 2, scale_dim |-> 8]
Offset == 1

\* The last gather_len keys of a request, from the row offset; the workers stride them.
_dequantize_and_gather_k_kernel_sm80(r, seq_len, gather_len) ==
  LET start_pos == seq_len - gather_len
      num_workers == 2
      rows == UNION { { i \in 0 .. gather_len - 1 : i % num_workers = w } : w \in 0 .. num_workers - 1 }
      block(i) == Physical(r, (start_pos + i) \div KeyBlock)
      pos_in_block(i) == (start_pos + i) % KeyBlock
      At(a) == IF a \in DOMAIN kvCache THEN kvCache[a] ELSE Nothing
  IN [o \in { Offset + i : i \in rows } |->
        LET i == o - Offset
        IN << At(<< block(i), pos_in_block(i) * GatherLayout.token_stride >>),
              At(<< block(i), KeyBlock * GatherLayout.token_stride
                                + pos_in_block(i) * GatherLayout.scale_dim >>) >>]

dequant_gather ==
  /\ kcStage = "launched" /\ saving = {} /\ compressing = {}
  /\ IF head_dim = 128 THEN out' = << >> /\ kcStage' = "served"
     ELSE IF dequantize_and_gather_k_cache = "uncompilable" THEN out' = << >> /\ kcStage' = "raised"
     ELSE /\ \E short \in BOOLEAN :
               out' = [r \in CompressorReqs |->
                         LET n == SeqLenOf(r) \div compress_ratio
                         IN _dequantize_and_gather_k_kernel_sm80(r, n, IF short /\ n > 0 THEN n - 1 ELSE n)]
          /\ kcStage' = "served"
  /\ UNCHANGED << kcEnv, written, content, stateCache, kvCache, kcBatch, captured, saving,
                  compressing, kcSteps >>

\* vLLM's sampler, external: the drafts after an accepted token may be rejected, and their
\* positions are computed again from other tokens.
AcceptTokens ==
  /\ kcStage = "served"
  /\ \E kept \in [CompressorReqs -> 0 .. CompressorContext] :
       /\ \A r \in CompressorReqs :
            kept[r] \in IF SeqLenOf(r) = written[r] THEN {0}
                        ELSE IF written[r] = 0 THEN {SeqLenOf(r)}
                        ELSE 1 .. SeqLenOf(r) - written[r]
       /\ written' = [r \in CompressorReqs |-> written[r] + kept[r]]
       /\ content' = [r \in CompressorReqs |-> [p \in DOMAIN content[r] |->
            IF p >= written[r] + kept[r] /\ p < SeqLenOf(r) THEN content[r][p] + 1
            ELSE content[r][p]]]
  /\ kcBatch' = << >> /\ out' = << >>
  /\ kcStage' = "idle"
  /\ UNCHANGED << kcEnv, stateCache, kvCache, captured, saving, compressing, kcSteps >>

KeyCompressorNext ==
  \/ construct_compressor \/ capture \/ ScheduleTokens \/ forward \/ dequant_gather \/ AcceptTokens
  \/ \E r \in CompressorReqs : Recycle(r)
  \/ \E i \in DOMAIN kcBatch : _SAVE_PARTIAL_STATES_KERNEL(i) \/ compress(i)

KeyCompressorSpec == KeyCompressorInit /\ [][KeyCompressorNext]_kcVars

--------------------------------------------------------------------------------

\* Once a step's kernels have run, the key of every window a request has closed was made
\* from the state of exactly the window's tokens and of the window before, as they are now,
\* rotated to the window's first position, with its scales beside it, at the address where
\* it is read; and what attention gathered are the last keys of its request, in order.
\* Nothing a supported compressor is given is refused by a kernel.
KeysHoldTheirWindow ==
  /\ kcStage # "raised"
  /\ kcStage = "served" =>
       \A r \in CompressorReqs :
         LET n == SeqLenOf(r) \div compress_ratio
             State(p) == [token |-> << r, p, content[r][p] >>, ape |-> p % compress_ratio]
             Window(x, h) == { [half |-> h, state |-> State(p)] :
                                 p \in x * compress_ratio .. (x + 1) * compress_ratio - 1 }
             Key(x) == [window |-> IF ~ overlapping THEN Window(x, 1)
                                   ELSE Window(x, 2) \cup (IF x > 0 THEN Window(x - 1, 1) ELSE {}),
                        rope |-> x * compress_ratio]
             Slot(x) == Physical(r, x \div KeyBlock) * KeyBlock + (x % KeyBlock)
         IN /\ \A x \in 0 .. n - 1 :
                 /\ {KeyAddress(Slot(x)), ScaleAddress(Slot(x))} \subseteq DOMAIN kvCache
                 /\ kvCache[KeyAddress(Slot(x))] = [bytes |-> Key(x)]
                 /\ kvCache[ScaleAddress(Slot(x))] = [scale |-> Key(x)]
            /\ head_dim = 512 =>
                 /\ \A o \in DOMAIN out[r] :
                      out[r][o] = << [bytes |-> Key(n + o - Offset - Cardinality(DOMAIN out[r]))],
                                     [scale |-> Key(n + o - Offset - Cardinality(DOMAIN out[r]))] >>
                 /\ DOMAIN out[r] = Offset .. Offset + Cardinality(DOMAIN out[r]) - 1

=============================================================================
