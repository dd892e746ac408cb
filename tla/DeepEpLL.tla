------------------------------ MODULE DeepEpLL ------------------------------
(***************************************************************************)
(* The low-latency all-to-all of an expert layer (prepare_finalize/        *)
(* deepep_ll.py), as the one or two micro-batches of a worker drive it     *)
(* through the layers of a forward pass.  One object serves both: a        *)
(* dispatch leaves its handle by micro-batch, the combine takes it.  A     *)
(* transfer has arrived once its hook ran or its event was waited on.      *)
(*                                                                         *)
(* vLLM's dual-batch overlap is external: one thread runs at a time; a     *)
(* hook is left with the other micro-batch, which runs it before its own   *)
(* next transfer, and the thread yields; at the end of its pass a thread   *)
(* runs what was left with it.                                             *)
(***************************************************************************)
EXTENDS Naturals, FiniteSets

CONSTANT NumLayers   (* bound: expert layers in a forward pass              *)

ASSUME DeepEpAssumption == NumLayers \in Nat \ {0}

\* What the layer computes in, and the block of its activation scales (0: none).
QuantConfigs == { [dtype |-> d, block |-> b] :
                    d \in {"none", "fp8", "int8", "mxfp4", "nvfp4"}, b \in {0, 64, 128} }

VARIABLES
  overlap,     (* dbo_enabled()                                             *)
  sync,        (* without overlap: prepare and finalize, or their async forms *)
  recvHook,    (* VLLM_DEEPEPLL_RECV_HOOK                                   *)
  nvfp4,       (* VLLM_DEEPEPLL_NVFP4_DISPATCH                              *)
  quant,       (* the layer's quant_config                                  *)
  running,     (* dbo_current_ubatch_id() of the thread that runs           *)
  step,        (* where each micro-batch is                                 *)
  moeLayer,    (* and in which layer                                        *)
  handles,     (* self.handles: the dispatch that left each                 *)
  transfer,    (* each micro-batch's last transfer                          *)
  leftHook,    (* recv_hook of each ubatch context: whose transfer it receives *)
  used,        (* the dispatch whose handle the last combine of each took   *)
  experts,     (* what the experts of each were given                       *)
  readEarly    (* a tensor was read before its transfer arrived             *)

epVars == << overlap, sync, recvHook, nvfp4, quant, running, step, moeLayer, handles,
             transfer, leftHook, used, experts, readEarly >>

Batches == {0, 1}
NoBatch == 2
Active  == IF overlap THEN Batches ELSE {0}
Other(u) == 1 - u
None == [kind |-> "none", arrived |-> TRUE, waited |-> 0]

EpInit ==
  /\ overlap \in BOOLEAN /\ sync \in BOOLEAN /\ recvHook \in BOOLEAN /\ nvfp4 \in BOOLEAN
  /\ quant \in QuantConfigs
  /\ overlap => ~ sync
  /\ running = 0
  /\ step = [u \in Batches |-> IF u \in Active THEN "attention" ELSE "done"]
  /\ moeLayer = [u \in Batches |-> 1]
  /\ handles = [u \in Batches |-> << NoBatch, 0 >>]
  /\ transfer = [u \in Batches |-> None]
  /\ leftHook = [u \in Batches |-> NoBatch]
  /\ used = [u \in Batches |-> << u, 0 >>]
  /\ experts = [u \in Batches |-> "nothing"]
  /\ readEarly = FALSE

--------------------------------------------------------------------------------
(* Quantization: what the factory chooses, what the kernel sends, what the    *)
(* receiver does with it.                                                     *)
\* _maybe_make_prepare_finalize_body, on a PPU.
UseFp8   == quant.dtype = "fp8" /\ quant.block \in {0, 128}
UseInt8  == quant.dtype = "int8" /\ quant.block = 0
UseMxfp4 == quant.dtype = "mxfp4"

\* low_latency_dispatch quantizes in its kernel and returns a pair, or sends as it is.
Dispatched ==
  CASE UseFp8                            -> "fp8"
    [] UseInt8                           -> "int8"
    [] UseMxfp4                          -> "mxfp4"
    [] quant.dtype = "nvfp4" /\ nvfp4    -> "nvfp4"
    [] OTHER                             -> "raw"

\* moe_kernel_quantize_input asks for a tensor that is not quantized yet.
Quantize(x, dtype) == IF x # "raw" THEN "twice" ELSE IF dtype = "none" THEN "raw" ELSE dtype

\* MUTANT: int8 in blocks is taken for what the kernel quantizes.
DoQuantInt8Blocks(x) ==
  CASE UseFp8 /\ quant.block \in {0, 128}    -> x
    [] quant.dtype = "int8"                  -> x
    [] UseMxfp4                              -> x
    [] quant.dtype = "nvfp4"                 -> IF nvfp4 THEN x ELSE Quantize(x, "none")
    [] OTHER                                 -> Quantize(x, quant.dtype)

\* _do_quant.  NVFP4 without its dispatch is left to the experts.
DoQuant(x) ==
  CASE UseFp8 /\ quant.block \in {0, 128}    -> x
    [] UseFp8                                -> Quantize("raw", quant.dtype)
    [] UseInt8                               -> x
    [] UseMxfp4                              -> x
    [] quant.dtype = "nvfp4"                 -> IF nvfp4 THEN x ELSE Quantize(x, "none")
    [] OTHER                                 -> Quantize(x, quant.dtype)

--------------------------------------------------------------------------------
\* dbo_maybe_run_recv_hook(): the hook that was left with this micro-batch.
Received(u, t) ==
  [v \in Batches |->
     IF leftHook[u] = v THEN [kind |-> t[v].kind, arrived |-> TRUE, waited |-> t[v].waited + 1]
     ELSE t[v]]

\* A transfer is issued.  It arrives at once; or with the completion that the caller is
\* given, which is left with the other micro-batch or else run now; or never.
Issue(u, kind, atOnce, given) ==
  LET mine(done) == [kind |-> kind, arrived |-> done, waited |-> IF done THEN 1 ELSE 0] IN
  IF overlap /\ given
  THEN /\ transfer' = [Received(u, transfer) EXCEPT ![u] = mine(FALSE)]
       /\ leftHook' = [leftHook EXCEPT ![u] = NoBatch, ![Other(u)] = u]
       /\ running' = IF step[Other(u)] = "done" THEN u ELSE Other(u)
  ELSE /\ transfer' = [Received(u, transfer) EXCEPT ![u] = mine(atOnce \/ given)]
       /\ leftHook' = [leftHook EXCEPT ![u] = NoBatch]
       /\ UNCHANGED running

\* MUTANT: one handle for both micro-batches.
PrepareShared(u) ==
  /\ running = u /\ step[u] = "attention"
  /\ handles' = [v \in Batches |-> << u, moeLayer[u] >>]
  /\ Issue(u, "dispatch", FALSE, TRUE)
  /\ step' = [step EXCEPT ![u] = "dispatched"]
  /\ UNCHANGED << overlap, sync, recvHook, nvfp4, quant, moeLayer, used, experts, readEarly >>

\* prepare_async, and prepare, which calls the hook itself: hook and event are both
\* a completion the caller has.
Prepare(u) ==
  /\ running = u /\ step[u] = "attention"
  /\ handles' = [handles EXCEPT ![u] = << u, moeLayer[u] >>]
  /\ Issue(u, "dispatch", FALSE, TRUE)
  /\ step' = [step EXCEPT ![u] = "dispatched"]
  /\ UNCHANGED << overlap, sync, recvHook, nvfp4, quant, moeLayer, used, experts, readEarly >>

\* The receiver closure: it reads the dispatched tokens and brings them to the
\* experts' format.
Receive(u) ==
  /\ running = u /\ step[u] = "dispatched"
  /\ readEarly' = (readEarly \/ ~ transfer[u].arrived)
  /\ experts' = [experts EXCEPT ![u] = DoQuant(Dispatched)]
  /\ step' = [step EXCEPT ![u] = "experts"]
  /\ UNCHANGED << overlap, sync, recvHook, nvfp4, quant, running, moeLayer, handles, transfer,
                  leftHook, used >>

AsyncPath == overlap \/ ~ sync

\* MUTANT: the synchronous form follows the knob too.
DoRecvHookAlways == recvHook

DoRecvHook == AsyncPath /\ recvHook
AsyncFinish == AsyncPath /\ ~ DoRecvHook

\* The completion that _finalize returns: the hook of the transfer, or "the event is the
\* only completion handle; hand its wait to the caller".  finalize() discards it.
Completion == ~ sync /\ (DoRecvHook \/ AsyncFinish)

\* _finalize, behind finalize_async and finalize.
Finalize(u) ==
  /\ running = u /\ step[u] = "experts"
  /\ handles[u][1] # NoBatch
  /\ used' = [used EXCEPT ![u] = handles[u]]
  /\ Issue(u, "combine", ~ DoRecvHook /\ ~ AsyncFinish, Completion)
  /\ step' = [step EXCEPT ![u] = "combined"]
  /\ UNCHANGED << overlap, sync, recvHook, nvfp4, quant, moeLayer, handles, experts, readEarly >>

\* The layer's output is read by the next layer, or the thread leaves its context: it
\* runs the hook that was left with it and lets the other go on.
Advance(u) ==
  /\ running = u /\ step[u] = "combined"
  /\ readEarly' = (readEarly \/ ~ transfer[u].arrived)
  /\ IF moeLayer[u] < NumLayers
     THEN /\ moeLayer' = [moeLayer EXCEPT ![u] = @ + 1]
          /\ step' = [step EXCEPT ![u] = "attention"]
          /\ UNCHANGED << transfer, leftHook, running >>
     ELSE /\ step' = [step EXCEPT ![u] = "done"]
          /\ transfer' = Received(u, transfer)
          /\ leftHook' = [leftHook EXCEPT ![u] = NoBatch]
          /\ running' = IF overlap THEN Other(u) ELSE u
          /\ UNCHANGED moeLayer
  /\ UNCHANGED << overlap, sync, recvHook, nvfp4, quant, handles, used, experts >>

EpNext == \E u \in Batches : Prepare(u) \/ Receive(u) \/ Finalize(u) \/ Advance(u)

EpSpec == EpInit /\ [][EpNext]_epVars

--------------------------------------------------------------------------------
\* The combine of a micro-batch returns the tokens of its own dispatch in this layer,
\* not those of the other's dispatch that ran in between.
CombineMatchesDispatch ==
  \A u \in Active : step[u] = "combined" => used[u] = << u, moeLayer[u] >>

\* Nothing is read from a transfer whose hook or event nobody has waited for ("an async
\* event issued there would never be waited on", _finalize); no completion is waited for
\* twice, and none is left when the pass ends: with one micro-batch or two.
TransfersAreAwaited ==
  /\ ~ readEarly
  /\ \A u \in Active : transfer[u].waited <= 1
  /\ (\A u \in Active : step[u] = "done") =>
       \A u \in Active : transfer[u].arrived /\ leftHook[u] = NoBatch

\* The tokens are quantized once on their way to the experts, in the kernel or by the
\* receiver, and in the format the layer computes in; NVFP4 without its dispatch goes
\* unquantized, for the experts to quantize.
QuantizedOnce ==
  \A u \in Active : step[u] = "experts" =>
    experts[u] = IF quant.dtype = "none" \/ (quant.dtype = "nvfp4" /\ ~ nvfp4)
                 THEN "raw" ELSE quant.dtype
================================================================================
