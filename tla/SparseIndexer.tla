---------------------------- MODULE SparseIndexer ----------------------------
(***************************************************************************)
(* The sparse attention indexer of DeepSeek V3.2 and V4 on PPU, through    *)
(* the steps of a worker: the builder plans a step (mla_indexer.py), the   *)
(* custom op carries the plan out (attention/ops/mla_sparse.py), and each  *)
(* token is left a row of the keys attention will read for it.             *)
(*                                                                         *)
(* A key is known by its request, its index and the token it was made of;  *)
(* a row of logits by the query, the weights and the keys that entered it. *)
(* Every key of a row is among its top k here.  The block tables, context  *)
(* parallelism, candidate blocks and the padding of captured graphs are    *)
(* left out.  vLLM's helpers are external; so are the kernels.             *)
(***************************************************************************)
EXTENDS Integers, SequencesExt

CONSTANTS
  IndexerEnvs,       (* the models, devices and settings                     *)
  IndexerPrompts,    (* the requests' prompts: a sequence of lengths         *)
  IndexerContext,    (* bound: tokens of a request                           *)
  IndexerSteps,      (* bound: steps of the worker                           *)
  PrefillRows,       (* get_max_prefill_buffer_size                          *)
  LogitsBytes        (* VLLM_SPARSE_INDEXER_MAX_LOGITS_MB, in bytes          *)

\* A setting is DeepSeek V4 or V3.2; the device's sm_89; an indexer_kv_dtype of mxfp4; the
\* speculative tokens; _use_flattening and _supports_native_decode; models whose modules
\* were loaded before the patches; a library.
ASSUME IndexerAssumption ==
  /\ IndexerEnvs \subseteq [v4 : BOOLEAN, sm89 : BOOLEAN, mxfp4 : BOOLEAN, drafts : Nat,
                            use_flattening : BOOLEAN, native : BOOLEAN, preloaded : BOOLEAN,
                            deep_gemm : BOOLEAN]
  /\ IndexerContext \in Nat /\ IndexerPrompts \in Seq(1 .. IndexerContext)
  /\ IndexerSteps \in Nat /\ LogitsBytes \in Nat
  /\ PrefillRows \in Nat /\ PrefillRows >= IndexerContext

VARIABLES
  ixEnv,         (* model, device, cache format, speculation, the builder's modes *)
  progress,      (* tokens computed of each request                          *)
  tokens,        (* which token each of its positions holds                  *)
  lag,           (* rejected drafts of each request the host does not know of *)
  keyCache,      (* the indexer's KV cache: a key by request and index       *)
  batch,         (* the step's requests, in order, and their query lengths   *)
  commonLens,    (* common_attn_metadata.seq_lens                            *)
  decodeLens,    (* decode_seq_lens_buffer                                   *)
  expandedLens,  (* expanded_seq_lens_buffer                                 *)
  chunks,        (* prefill.chunks that are left                             *)
  decode,        (* the decode metadata                                      *)
  workspace,     (* the gathered keys                                        *)
  topk,          (* topk_indices_buffer                                      *)
  ixStage, ixSteps

ixVars == << ixEnv, progress, tokens, lag, keyCache, batch, commonLens, decodeLens,
             expandedLens, chunks, decode, workspace, topk, ixStage, ixSteps >>

Requests == DOMAIN IndexerPrompts
Ratio    == IF ixEnv.v4 THEN 2 ELSE 1
Larger(a, b)  == IF a > b THEN a ELSE b
Smaller(a, b) == IF a < b THEN a ELSE b

\* torch.cumsum behind a zero, and the interval of it that a number lies in.
Cumsum(lens) ==
  LET sum[k \in 0 .. Len(lens)] == IF k = 0 THEN 0 ELSE sum[k - 1] + lens[k] IN sum
Interval(sums, i) == CHOOSE k \in DOMAIN sums \ {0} : sums[k - 1] <= i /\ i < sums[k]

\* A buffer after a kernel wrote some of its rows.
Overwrite(rows, buffer) ==
  [i \in DOMAIN rows \cup DOMAIN buffer |-> IF i \in DOMAIN rows THEN rows[i] ELSE buffer[i]]

NoRow    == [query |-> -1, weights |-> -1, keys |-> {}, read |-> "none"]
NoDecode == [view |-> "none", cols |-> 0, tables |-> << >>, lens |-> << >>, padding |-> FALSE,
             schedule |-> << >>]

IndexerInit ==
  /\ ixEnv \in IndexerEnvs
  /\ progress = [r \in Requests |-> 0]
  /\ tokens = [r \in Requests |-> [p \in 0 .. IndexerContext - 1 |-> 0]]
  /\ lag = [r \in Requests |-> 0]
  /\ keyCache = << >>
  /\ batch = << >> /\ commonLens = << >> /\ decodeLens = << >> /\ expandedLens = << >>
  /\ chunks = << >> /\ decode = NoDecode /\ workspace = << >> /\ topk = << >>
  /\ ixStage = "construct" /\ ixSteps = 0

--------------------------------------------------------------------------------
(* The formats: each of the writer of keys, the writer of queries, the builder *)
(* and the op decides for itself.                                              *)

\* The plugin's choice; vLLM's own knows no PPU.  A mxfp4 cache is refused below sm_89.
dsa_indexer_uses_fp4 == ixEnv.mxfp4
Refused == ixEnv.mxfp4 /\ ~ ixEnv.sm89
UpstreamUsesFp4 == FALSE

\* A module of a model that was loaded before the patches holds vLLM's function, unless
\* it is among those whose aliases are rebound.
_INDEXER_ALIAS_CONSUMERS ==
  [dsa_indexer_uses_fp4 |-> {"deepseek_v2", "deepseek_v4.attention"},
   fused_indexer_q_rope_quant |-> {"deepseek_v4.common.ops", "deepseek_v4.attention"},
   compress_norm_rope_store_triton |-> {"deepseek_v4.compressor"}]
Patched(function, consumer) ==
  ~ ixEnv.preloaded \/ consumer \in _INDEXER_ALIAS_CONSUMERS[function]

UseFp4Cache ==
  IF Patched("dsa_indexer_uses_fp4", IF ixEnv.v4 THEN "deepseek_v4.attention" ELSE "deepseek_v2")
  THEN dsa_indexer_uses_fp4 ELSE UpstreamUsesFp4

\* The int8 kernels of PPU 1.0, where neither the cache nor the device takes fp8.
IndexerFormat(patched) ==
  IF patched /\ ~ ixEnv.sm89 /\ ~ UseFp4Cache THEN "int8"
  ELSE IF UseFp4Cache THEN "fp4" ELSE "fp8"

fused_indexer_q_rope_quant ==
  IndexerFormat(Patched("fused_indexer_q_rope_quant", "deepseek_v4.attention"))

compress_norm_rope_store_triton ==
  IndexerFormat(Patched("compress_norm_rope_store_triton", "deepseek_v4.compressor"))

use_ppu_int8_indexer == ~ ixEnv.sm89

\* V3.2 folds the scale of its query into the weights, V4's fp4 query keeps its own.
q_dtype ==
  IF ixEnv.v4 THEN fused_indexer_q_rope_quant
  ELSE IF use_ppu_int8_indexer THEN "int8" ELSE "fp8"

\* V4's compressor writes the keys before the op, V3.2's op inserts them itself.
key_dtype ==
  IF ixEnv.v4 THEN compress_norm_rope_store_triton
  ELSE IF q_dtype = "int8" THEN "int8" ELSE "fp8"

\* The function of DeepGEMM that reads them, and what it is told of the queries' geometry.
Reader == IF UseFp4Cache THEN "fp4" ELSE q_dtype

get_kv_cache_spec == IF ixEnv.v4 THEN 1 ELSE 0

indexer_n_head == IF dsa_indexer_uses_fp4 THEN get_kv_cache_spec ELSE 0

--------------------------------------------------------------------------------
(* The step's batch, and its tokens.                                           *)

QueryLen(k) == batch[k].len
StartLoc    == Cumsum([k \in DOMAIN batch |-> QueryLen(k)])
Before(k)   == StartLoc[k - 1]
NumTokens   == StartLoc[Len(batch)]
Owner(t)    == Interval(StartLoc, t)
Position(t) == progress[batch[Owner(t)].req] + t - Before(Owner(t))
SeqLen(k)   == progress[batch[k].req] + batch[k].len

\* The host may take drafts for accepted that were not; it knows a prompt's length.
UpperBound(k) == SeqLen(k) + lag[batch[k].req]

\* The keys of the requests so far, as the device and as the host count them.
KeyRows   == Cumsum([k \in DOMAIN batch |-> SeqLen(k) \div Ratio])
UpperRows == Cumsum([k \in DOMAIN batch |-> UpperBound(k) \div Ratio])

VisibleKeys(t) == (Position(t) + 1) \div Ratio

\* What the scheduler may ask for: part of a prompt, or a token and its drafts.
Lengths(r) ==
  IF progress[r] < IndexerPrompts[r] THEN 1 .. IndexerPrompts[r] - progress[r]
  ELSE 1 .. Smaller(1 + ixEnv.drafts, IndexerContext - progress[r])

--------------------------------------------------------------------------------
(* The builder: DeepseekV32IndexerMetadataBuilder.                             *)

decode_threshold == 1 + ixEnv.drafts

\* MUTANT: requests of different lengths are decoded together where the kernel needs one.
RequireUniform_Never == FALSE

RequireUniform == ~ ixEnv.use_flattening

split_decodes_and_prefills ==
  LET Decodes(n) == \A k \in 1 .. n : /\ QueryLen(k) <= decode_threshold
                                      /\ RequireUniform => QueryLen(k) = QueryLen(1)
  IN CHOOSE n \in 0 .. Len(batch) : Decodes(n) /\ (n < Len(batch) => ~ Decodes(n + 1))

bytes_per_elem == IF dsa_indexer_uses_fp4 THEN 2 ELSE 4
max_logits_elems == Larger(1, LogitsBytes \div bytes_per_elem)

\* Rows and keys of the requests s .. e.
ChunkM(s, e) == StartLoc[e] - StartLoc[s - 1]
ChunkN(s, e) == UpperRows[e] - UpperRows[s - 1]

\* The longest run of requests from s that fits the workspace and the logits; one request
\* that does not is split by its queries.
ChunkEnd(s) ==
  LET Fits(e) == /\ ChunkN(s, e) <= PrefillRows
                 /\ ChunkM(s, e) * ChunkN(s, e) <= max_logits_elems
  IN CHOOSE e \in s .. Len(batch) :
       /\ \A x \in s + 1 .. e : Fits(x)
       /\ e > s => Fits(s)
       /\ e < Len(batch) => ~ (Fits(s) /\ Fits(e + 1))

QuerySlices(s, e) ==
  LET m == ChunkM(s, e)
      n == ChunkN(s, e)
      max_q == IF n > 0 THEN Larger(1, max_logits_elems \div n) ELSE Larger(1, m)
  IN [i \in 1 .. (m + max_q - 1) \div max_q |->
        [start |-> (i - 1) * max_q, stop |-> Smaller(i * max_q, m)]]

\* A slice's tokens and rows of the workspace.  The host's bound sizes it, the device's
\* lengths place the keys; the slices after the first find the keys gathered.
build_prefill_chunk_metadata(s, e, slice) ==
  [start |-> Before(s) + slice.start, end |-> Before(s) + slice.stop,
   rows |-> ChunkN(s, e), reqs |-> << s, e >>, skip_kv_gather |-> slice.start > 0]

\* The slices of requests without a key are dropped.
SliceChunks(s, e) ==
  IF ChunkN(s, e) = 0 THEN << >>
  ELSE [i \in DOMAIN QuerySlices(s, e) |-> build_prefill_chunk_metadata(s, e, QuerySlices(s, e)[i])]

_split_indexer_prefill_chunks ==
  LET from[s \in 1 .. Len(batch) + 1] ==
        IF s > Len(batch) THEN << >> ELSE SliceChunks(s, ChunkEnd(s)) \o from[ChunkEnd(s) + 1]
  IN from

PrefillChunks == _split_indexer_prefill_chunks[split_decodes_and_prefills + 1]

\* The decode kernels take as many queries of each request as the step has, or one.
DecodeLens   == [k \in 1 .. split_decodes_and_prefills |-> QueryLen(k)]
MaxDecodeLen == Max({ QueryLen(k) : k \in DOMAIN DecodeLens })
use_native ==
  /\ ~ ixEnv.use_flattening /\ MaxDecodeLen <= 1 + ixEnv.drafts
  /\ MaxDecodeLen <= 1 \/ ixEnv.native

seq_lens_is_buffer_view == ~ use_native \/ ixEnv.drafts > 0

\* Where the decode kernels find the lengths of their rows: in a buffer, as rows of cols.
\* Without the native kernel each token is a row of its own; the native one takes the
\* lengths of drafts as a row of each request, or a single length where it lies.
_prepare_decode_tensors ==
  LET n == split_decodes_and_prefills
      PerToken == [t \in 1 .. Before(n + 1) |-> Position(t - 1) + 1]
      cols == MaxDecodeLen
      PerRow == [i \in 1 .. n * cols |-> SeqLen((i - 1) \div cols + 1) - cols + 1 + ((i - 1) % cols)]
      meta(view, c, tables, lens, padding) ==
        [view |-> view, cols |-> c, tables |-> tables, lens |-> lens, padding |-> padding,
         schedule |-> << >>]
  IN IF ~ use_native
     THEN [buffer |-> PerToken,
           decode |-> meta("decode", 1, [t \in DOMAIN PerToken |-> batch[Owner(t - 1)].req],
                           [t \in DOMAIN PerToken |-> 1], FALSE)]
     ELSE [buffer |-> IF ixEnv.drafts > 0 THEN PerRow ELSE decodeLens,
           decode |-> meta(IF ixEnv.drafts > 0 THEN "decode" ELSE "common",
                           IF ixEnv.drafts > 0 THEN cols ELSE 1,
                           [k \in 1 .. n |-> batch[k].req], DecodeLens,
                           \E k \in 1 .. n : QueryLen(k) # MaxDecodeLen)]

\* In keys, not tokens: in place where the lengths are the builder's own, else in a copy.
Compress(lens) == [i \in DOMAIN lens |-> lens[i] \div Ratio]

CompressedLens(d) ==
  IF Ratio = 1 THEN [common |-> commonLens, decode |-> d.buffer, expanded |-> expandedLens,
                     view |-> d.decode.view]
  ELSE IF seq_lens_is_buffer_view
  THEN [common |-> IF d.decode.view = "common" THEN Compress(commonLens) ELSE commonLens,
        decode |-> IF d.decode.view = "decode" THEN Compress(d.buffer) ELSE d.buffer,
        expanded |-> expandedLens, view |-> d.decode.view]
  ELSE [common |-> commonLens, decode |-> d.buffer, view |-> "expanded",
        expanded |-> Compress(IF d.decode.view = "common" THEN commonLens ELSE d.buffer)]

\* The kernel's schedule is made for the lengths, their shape and the fp4 queries' geometry.
get_paged_mqa_logits_metadata(lens, cols) ==
  [lens |-> lens, cols |-> cols, metadata_extra |-> indexer_n_head > 0]

construct ==
  /\ ixStage = "construct"
  /\ ixStage' = IF Refused THEN "refused" ELSE "idle"
  /\ UNCHANGED << ixEnv, progress, tokens, lag, keyCache, batch, commonLens, decodeLens,
                  expandedLens, chunks, decode, workspace, topk, ixSteps >>

\* vLLM's scheduler, external: any of the requests in any order, prompts in any pieces.
ScheduleStep ==
  /\ ixStage = "idle" /\ ixSteps < IndexerSteps
  /\ \E R \in SUBSET { r \in Requests : progress[r] < IndexerContext } \ {{}} :
       \E order \in SetToSeqs(R), len \in [R -> 1 .. IndexerContext] :
         /\ \A r \in R : len[r] \in Lengths(r)
         /\ batch' = [k \in DOMAIN order |-> [req |-> order[k], len |-> len[order[k]]]]
         /\ commonLens' = [k \in DOMAIN order |-> progress[order[k]] + len[order[k]]]
  /\ ixStage' = "build" /\ ixSteps' = ixSteps + 1
  /\ UNCHANGED << ixEnv, progress, tokens, lag, keyCache, decodeLens, expandedLens, chunks,
                  decode, workspace, topk >>

\* The decode metadata, and what making them leaves in the buffers.
DecodeMetadata ==
  LET prepared == _prepare_decode_tensors
      lens == CompressedLens(prepared)
      view == CASE lens.view = "common" -> lens.common
                [] lens.view = "decode" -> lens.decode
                [] lens.view = "expanded" -> lens.expanded
  IN [lens |-> lens,
      metadata |-> [prepared.decode EXCEPT
        !.view = lens.view,
        !.schedule = IF ixEnv.deep_gemm
                     THEN get_paged_mqa_logits_metadata(view, prepared.decode.cols) ELSE @]]

build ==
  /\ ixStage = "build"
  /\ chunks' = IF split_decodes_and_prefills < Len(batch) THEN PrefillChunks ELSE << >>
  /\ IF split_decodes_and_prefills > 0
     THEN /\ commonLens' = DecodeMetadata.lens.common
          /\ decodeLens' = DecodeMetadata.lens.decode
          /\ expandedLens' = DecodeMetadata.lens.expanded
          /\ decode' = DecodeMetadata.metadata
     ELSE /\ decode' = NoDecode
          /\ UNCHANGED << commonLens, decodeLens, expandedLens >>
  /\ ixStage' = "insert"
  /\ UNCHANGED << ixEnv, progress, tokens, lag, keyCache, batch, workspace, topk, ixSteps >>

--------------------------------------------------------------------------------
(* The op: ppu_sparse_attn_indexer.                                            *)

\* The token that closes a key's window writes it.
Closing == { t \in 0 .. NumTokens - 1 : (Position(t) + 1) % Ratio = 0 }
KeyOf(t) == << batch[Owner(t)].req, (Position(t) + 1) \div Ratio - 1 >>

indexer_k_quant_and_cache ==
  [k \in { KeyOf(t) : t \in Closing } |->
     LET t == CHOOSE t \in Closing : KeyOf(t) = k
     IN [token |-> tokens[batch[Owner(t)].req][Position(t)], dtype |-> key_dtype]]

\* A fp4 cache is not inserted into by the op, and its queries come with a scale.
Asserted == (UseFp4Cache => ixEnv.v4) /\ (q_dtype = "fp4" <=> UseFp4Cache)

insert ==
  /\ ixStage = "insert"
  /\ IF ~ Asserted THEN /\ ixStage' = "raised"
                        /\ UNCHANGED << keyCache, topk >>
     ELSE /\ keyCache' = Overwrite(indexer_k_quant_and_cache, keyCache)
          /\ topk' = [t \in 1 .. NumTokens |-> NoRow]
          /\ ixStage' = "prefill"
  /\ UNCHANGED << ixEnv, progress, tokens, lag, batch, commonLens, decodeLens, expandedLens,
                  chunks, decode, workspace, ixSteps >>

\* The keys of the chunk's requests, one request after the other, as long as they are.
GatheredKeys(c) ==
  LET before == KeyRows[c.reqs[1] - 1]
      Key(row) == LET k == Interval(KeyRows, row) IN << batch[k].req, row - KeyRows[k - 1] >>
  IN [i \in 1 .. KeyRows[c.reqs[2]] - before |-> Key(before + i - 1)]

\* A tail of an earlier chunk's keys is left as it is.
cp_gather_indexer_k_quant_cache(c) ==
  Overwrite([i \in DOMAIN GatheredKeys(c) |-> << GatheredKeys(c)[i], keyCache[GatheredKeys(c)[i]] >>],
            workspace)

\* cu_seqlen_ks: the rows of the requests before the token's own.
FirstRow(c, t) == KeyRows[Owner(t) - 1] - KeyRows[c.reqs[1] - 1]

mqa_logits(c, t, space) ==
  [query |-> t, weights |-> t, read |-> Reader,
   keys |-> { space[FirstRow(c, t) + i] : i \in 1 .. VisibleKeys(t) }]

\* What the profiling run reserved.  A single row may need more.
FitsReserved(c) ==
  c.end - c.start > 1 =>
    (c.end - c.start) * c.rows * (IF UseFp4Cache THEN 2 ELSE 4) <= LogitsBytes

prefill ==
  /\ ixStage = "prefill" /\ chunks # << >>
  /\ LET c == Head(chunks)
         space == IF c.skip_kv_gather THEN workspace ELSE cp_gather_indexer_k_quant_cache(c)
     IN /\ workspace' = space
        /\ IF ~ ixEnv.deep_gemm THEN ixStage' = "raised" /\ topk' = topk
           ELSE /\ ixStage' = IF FitsReserved(c) THEN "prefill" ELSE "oom"
                /\ topk' = [t \in DOMAIN topk |-> IF t - 1 \in c.start .. c.end - 1
                                                  THEN mqa_logits(c, t - 1, space) ELSE topk[t]]
  /\ chunks' = Tail(chunks)
  /\ UNCHANGED << ixEnv, progress, tokens, lag, keyCache, batch, commonLens, decodeLens,
                  expandedLens, decode, ixSteps >>

--------------------------------------------------------------------------------
(* The decode half of the op.                                                  *)

\* The queries as the kernel takes them: packed by request where the lengths differ,
\* with rows of padding, else the tokens as they lie.
DecodeTokens == Cumsum(decode.lens)[Len(decode.lens)]
DecodeCols == IF decode.padding THEN Max(ToSet(decode.lens))
              ELSE DecodeTokens \div Len(decode.lens)
pack_seq ==
  [i \in 1 .. Len(decode.lens) * DecodeCols |->
     LET k == (i - 1) \div DecodeCols + 1  j == (i - 1) % DecodeCols
     IN IF ~ decode.padding THEN i - 1
        ELSE IF j < decode.lens[k] THEN Before(k) + j ELSE -1]

ContextLens == CASE decode.view = "common" -> commonLens
                 [] decode.view = "decode" -> decodeLens
                 [] decode.view = "expanded" -> expandedLens

paged_mqa_logits(i) ==
  LET r == decode.tables[(i - 1) \div DecodeCols + 1]
  IN [query |-> pack_seq[i], weights |-> i - 1, read |-> Reader,
      keys |-> { << << r, x >>, keyCache[<< r, x >>] >> : x \in 0 .. ContextLens[i] - 1 }]

Scheduled == decode.schedule = [lens |-> ContextLens, cols |-> DecodeCols,
                                metadata_extra |-> Reader = "fp4"]

\* A kernel that was given another schedule leaves what it likes.
DecodeRows == [i \in DOMAIN pack_seq |-> IF Scheduled THEN paged_mqa_logits(i) ELSE NoRow]

unpack_seq(rows) ==
  [t \in 1 .. DecodeTokens |->
     LET i == CHOOSE i \in DOMAIN rows : pack_seq[i] = t - 1 IN rows[i]]

decodeRows ==
  /\ ixStage = "prefill" /\ chunks = << >> /\ decode # NoDecode
  /\ IF ~ ixEnv.deep_gemm THEN ixStage' = "raised" /\ UNCHANGED << topk, workspace >>
     ELSE LET written == Overwrite(DecodeRows, topk)
              unpacked == unpack_seq(DecodeRows)
          IN /\ topk' = IF decode.padding
                        THEN [t \in DOMAIN written |-> IF t <= DecodeTokens THEN unpacked[t]
                                                       ELSE written[t]]
                        ELSE written
             /\ workspace' = << >>
             /\ ixStage' = "served"
  /\ UNCHANGED << ixEnv, progress, tokens, lag, keyCache, batch, commonLens, decodeLens,
                  expandedLens, chunks, decode, ixSteps >>

prefillOnly ==
  /\ ixStage = "prefill" /\ chunks = << >> /\ decode = NoDecode
  /\ ixStage' = "served"
  /\ UNCHANGED << ixEnv, progress, tokens, lag, keyCache, batch, commonLens, decodeLens,
                  expandedLens, chunks, decode, workspace, topk, ixSteps >>

\* vLLM's sampler, external: of a token and its drafts at least the token stands.  The
\* host plans the next step before it knows how many did; the workspace goes to others.
Accept ==
  /\ ixStage = "served"
  /\ \E kept \in [DOMAIN batch -> 1 .. IndexerContext] :
       /\ \A k \in DOMAIN batch :
            kept[k] \in (IF progress[batch[k].req] < IndexerPrompts[batch[k].req]
                         THEN {QueryLen(k)} ELSE 1 .. QueryLen(k))
       /\ LET K(r) == CHOOSE k \in DOMAIN batch : batch[k].req = r
              In(r) == \E k \in DOMAIN batch : batch[k].req = r
          IN /\ progress' = [r \in Requests |-> IF In(r) THEN progress[r] + kept[K(r)] ELSE progress[r]]
             /\ lag' = [r \in Requests |-> IF In(r) THEN QueryLen(K(r)) - kept[K(r)] ELSE lag[r]]
             /\ tokens' = [r \in Requests |-> [p \in DOMAIN tokens[r] |->
                  IF In(r) /\ p >= progress[r] + kept[K(r)] /\ p < progress[r] + QueryLen(K(r))
                  THEN tokens[r][p] + 1 ELSE tokens[r][p]]]
  /\ batch' = << >> /\ commonLens' = << >> /\ topk' = << >> /\ decode' = NoDecode
  /\ workspace' = << >>
  /\ ixStage' = "idle"
  /\ UNCHANGED << ixEnv, keyCache, decodeLens, expandedLens, chunks, ixSteps >>

IndexerNext == construct \/ ScheduleStep \/ build \/ insert \/ prefill \/ decodeRows
                 \/ prefillOnly \/ Accept

IndexerSpec == IndexerInit /\ [][IndexerNext]_ixVars

--------------------------------------------------------------------------------

\* Once a step is served, the row of every token was computed from its own query and
\* weights, against exactly the keys of its request that it may see, as they are now and
\* in the format they are read in; the logits fitted what was reserved; and the lengths
\* that attention shares with the builder are still the requests' own.
TopKIsOfItsKeys ==
  /\ ixStage # "oom"
  /\ ixStage = "served" =>
       /\ \A k \in DOMAIN batch : commonLens[k] = SeqLen(k)
       /\ \A t \in 0 .. NumTokens - 1 :
            LET r == batch[Owner(t)].req
                Current(x) == << << r, x >>, [token |-> tokens[r][(x + 1) * Ratio - 1],
                                              dtype |-> topk[t + 1].read] >>
            IN IF VisibleKeys(t) = 0 THEN topk[t + 1].keys = {}
               ELSE /\ topk[t + 1].query = t /\ topk[t + 1].weights = t
                    /\ topk[t + 1].keys = { Current(x) : x \in 0 .. VisibleKeys(t) - 1 }

=============================================================================
