# Verification of vllm-sail

vllm-sail is an out-of-tree plugin that makes vLLM run on PPU devices: it replaces functions and methods
of vLLM at run time, registers platforms, models, kernels and quantization back ends, brings its own
mixture-of-experts and attention kernels, and has its own on-demand CI. This directory holds TLA+ modules
that model the parts whose correctness depends on order, concurrency, shared state or failure, the TLC
configurations that check them on small instances, and proofs that TLAPS checks for every value of the
constants. `PROJECT.json` lists runs, mutants, the source lines of every definition, hazards and theorems.

    tlc -config EpScatterMap.cfg MCEpScatter.tla     # a run: a configuration and its module
    tlapm DeepGemmMoeProofs.tla                      # a proof module

Contents: 1 inventory · 2 modules and their correspondence to the code · 3 runs · 4 bounds ·
5 fairness · 6 proofs · 7 findings · 8 remarks on the code · 9 what is not modelled · 10 next

## 1 Inventory

| Part | State it keeps | Operations | What is hard | What makes it correct |
|---|---|---|---|---|
| **DeepGEMM MoE** (`fused_moe/deep_gemm_utils.py`, `experts/deep_gemm_moe.py`) | device buffers: row counters, row labels, permuted activations, inverse permutation, two shared workspaces | scatter_1, scatter_2, two grouped GEMMs, activation and quantization, gather | thousands of programs and lanes add to shared counters; regions without padding; workspaces reused; uninitialized memory | distinct rows in their expert's region; labels and data agree; each token gets the sum of its experts' answers |
| **Patch engine** (`patch/utils.py`) | attributes of vLLM's modules and classes, a marker on every replacement, `PATCH_REGISTRY` | `@patch`, `patch_value`, `original_of`, import of aliases | base and derived classes, aliases copied by `from m import f`, descriptors, one replacement in several slots | the original is always found again |
| **Plugin lifecycle** (`__init__.py`, `compat.py`, `patch/__init__.py`, `registry`, `profiling`, `models`) | process-wide flags, the import cache, vLLM's model table | the stages of `register_out_of_tree` | vLLM calls the hook repeatedly, also after a call that raised; modules are loaded at any time; other plugins | no flag on half-done work; a mutated registry is not retried; models all or none; recovery where possible |
| **CI command controller** (`scripts/ci/ppu_ci_command.py command`, `run-ci-command.yml`) | none of its own: commit statuses, comments, GitHub's list of runs | `/ci run`, `/ci retry`, `/ci cancel` | stateless jobs decide from stale lists while executors work; calls that fail or time out; jobs run again | one run per head and per comment; no command lost |
| **CI executor** (`ppu-pr-ci.yaml`, `validate`, `report`) | the run, the status, the result comment | validate, test, report, cancellation, re-runs | results, answers and retries overwrite one another | never green while tested; the last result is shown; a pending status settles |
| **CI operator tests** (`scripts/ci/ppu_ops_select.py`, `ppu_ops_runner.py`) | the selection artifact, one directory per pod and attempt on a shared mount | selection and its validation, the stages of a pod, expansion, validation of evidence, verdict | a pod is killed between two writes; a rerun meets what an earlier attempt left; the selection widens in the pod | green is earned in the attempt that shows it; dead pods prove nothing; every attempt ends |
| **PLA resolvers** (`attention/pla_prefill.py`, `pla_decode.py`) | two kernel handles, `_resolved`, a lock | the getters | double-checked locking; imports that fail and are tried again | resolved once; a kernel given once is never withdrawn; nobody waits for ever |
| **Native operators** (`native/`) | torch's operator registry, Library objects, sets of loaded modules | extensions, portable and Triton implementations, stubs, strict preflight | registration in two halves, retries, other claimants | what install returns from is complete; a stub hides nothing |
| **DeepEP low latency** (`prepare_finalize/deepep_ll.py`) | one handle per micro-batch, hooks left with the other micro-batch | prepare, receive, finalize | two micro-batches share one object | a combine takes its own dispatch; every transfer is awaited once; quantized once |
| **Profiling** (`profiling/`) | the thread's stack of NVTX ranges, counters, the current batch | wrappers of engine, runner, model, layers, sampler | bodies that raise at any depth, dummy runs | ranges are the calls on the stack |
| **Batched experts** (`experts/batched_deep_gemm_moe.py`) | masked buffers, scales | apply of three classes, three activation kernels | masks, strides, counts, rounding of blocks | every row that counts, with the scale of its own group |
| **Linear kernels** (`registry/linear_kernels`, `kernels/linear/scaled_mm/ppu.py`, `patch/enhancement/dense.py`) | vLLM's candidate lists, the layer's converted weight | registration, selection, loading, call | the library is chosen by the call, the weight's order at loading | the weight is in the order the library takes |
| **Kernel warm-up** (`model_executor/warmup`, `kernel_warmup.py`) | caches of warmed shapes per rank, the node's cache on disk | gate, selection of layers, plans, shares of the ranks | shapes shared by layers, ranks that hold different layers | each count of a plan in one share (its remainder is in none: section 8) |
| **MoE oracles** (`registry/moe_backends`, `mxfp4.py`) | vLLM's oracle functions, aliases of them, the layer's weights | selection, preparation, experts | modules that captured a function before the repair; five tables that must agree | the backend named, an automatic choice within the settings, or a refusal; prepared for that backend |
| **Sparse indexer** (`attention/mla_indexer.py`, `ops/mla_sparse.py`) | the indexer's paged keys, lengths shared with attention | the builder's split and chunks, the custom op | mixed steps, rejected drafts, buffers of fixed size | a token's row is of the keys it may see |
| **Key compressor** (`models/deepseek_v4/…`) | compressor state, paged keys and scales | save, compress, gather; the numbers' encodings | windows closed across steps, reused blocks, drafts | the key of a window is of exactly its tokens; nearest encodings |
| **GDN and KDA layers** (`attention/gdn.py`, `gdn_decode.py`, `kda.py`) | recurrent slots, workspaces | choice of kernels, forward over prompts, decodes and drafts | two layouts of a state, two row orders, slots per draft | each output is the state of exactly its tokens |
| Everything else | — | — | numeric bodies, text generation, build | not modelled; see section 9 |

Interactions. vLLM calls the platform and general-plugin hooks; the lifecycle imports patch modules, whose
decorators call the patch engine; the registry's children patch vLLM's oracles through the same engine and put
kernels first in its lists. A patched MoE layer gets its backend from an oracle and calls the DeepGEMM pipeline, or
the batched experts behind DeepEP, on a device stream; a patched GDN layer asks the PLA resolvers from the threads
of its worker. The CI controller and executor share nothing but what GitHub stores; the pods of the operator tests
share a mount with the job that judges them.

## 2 Modules

    MoeReduce  <= implemented by =  DeepGemmMoe  = extends =>  EpScatter
    PluginLifecycle  = extends =>  PatchEngine
    CiController  = extends =>  CiRuns
    OpsPipeline  = extends =>  OpsSelect
    MCWorker  = extends =>  PlaResolver  NativeOps  DeepEpLL  ProfilingRanges  BatchedExperts  LinearKernels
                            KernelWarmup  MoeOracles  SparseIndexer  KeyCompressor  QuantizedKeys
                            RecurrentAttention

    proofs: DeepGemmMoeProofs  PatchEngineProofs  PluginLifecycleProofs  CiControllerProofs
            OpsPipelineProofs  SparseIndexerProofs
            WorkerStartProofs  = extends =>  PlaResolver  NativeOps  LinearKernels  MoeOracles  KernelWarmup
            ModelStepProofs    = extends =>  DeepEpLL  ProfilingRanges  RecurrentAttention  BatchedExperts
                                             KeyCompressor  QuantizedKeys

**EpScatter** — `ep_scatter` and what the host computes before it. One state is the device between two memory
operations: `expert_start_loc`, `m_indices` (expert_ids), `aq_out`, `aq_scale_out`, `inv_perm` are the buffers,
`pc1`/`pc2` the program counters of the programs of both kernels, `expert_loc` and `dest` the registers of a
lane. `StoreStart`, `LabelRow`, `ExitScatter1` are scatter_1 (one program per expert); `LoadLanes`, `ClaimRow`
(the atomic add of one lane), `StoreIndex` (the barrier), `CopyToken`, `CopyScale` are scatter_2 (one program
per token, as the host launches it). `CountsOf`, `Cumsum`, `RoundUp`, `AlignedM` are the host's arithmetic.
A row's content is the token it was copied from; an uninitialized cell holds `Uninit` or `Junk`. `LaneExpert`
gives the values a masked load without `other` may leave.

**MoeReduce** — the promise of a MoE layer: one step per token that writes the complete set of its terms.

**DeepGemmMoe** — `PPUDeepGemmExperts.apply`: `Permute` is EpScatter's next-state relation, then `Mm1`,
`ActMulQuant`, `Mm2`, `GatherToken`, on two workspaces. A row carries what was applied to it, in order. The
unlabelled rows are computed on as the code computes on them. `ComputesMoe` is the refinement of MoeReduce under
`routing <- the local experts of topk_ids`, `result <- output`.

**PatchEngine** — slots are attributes of vLLM's modules and classes; `attr` is what they hold, `mark` the
`PATCH_MARKER` dictionary of each replacement, `registry` `PATCH_REGISTRY`. `Install` is `@patch`,
`InstallValue` is `patch_value`, `LoadAlias` is the import of a module that copies the function. `Original`,
`AlreadyPatched`, `Build` and `Mismatch` are the helpers of the same purpose in `patch/utils.py`.

**PluginLifecycle** — adds the hook: `stage` is where the running call is, `done` the units that ran to their
end (the import cache and `_installed`), `flags` the process's memory. A unit is a sequence of engine steps, so
an exception leaves the patches that were made and the next run of the unit starts at its first step.

**CiRuns** and **CiController** — one pull request. CiRuns has the executor's jobs, the concurrency group and
what GitHub does (queue, cancellation, re-runs, list of runs); CiController has the command job, whose every call
to GitHub is a step (`pc` of `ctl`), each of which may fail, so that commands, executors, pushes and re-runs
interleave between any two calls.

**OpsSelect** and **OpsPipeline** — OpsSelect is the pure half: `make_selection`, its validation by every consumer,
`runnable_boards`, the groups per board. OpsPipeline is the jobs and the pods: `dir` is a board's directory on the
mount, `pod` the stage of its pod and what it has written, `selArt` the selection artifact by attempt, `verdict`
what the summary job said. A pod may fail in any stage or be killed between two writes; the run is started again
as a whole or by its failed jobs, which keep the artifacts of the others.

The twelve components of a worker do not share state, so MCWorker composes them by a variable `component` that a
behaviour keeps: it exercises one of them, from that component's `Init` by its `Next`, the others at rest.

**PlaResolver** — threads that decide on a layer's kernels and run it. `FastPath`, `Acquire`, `Recheck`,
`ImportSucceeds`/`ImportFails`, `PublishFirst`, `PublishSecond`, `SetResolved`, `Release`, `Read` are the lines
of the resolver and its getter; the two handles are published by two steps.

**NativeOps** — `op` says who owns an operator and whether it has a kernel. The layers of `install()` run in
order; a registration is a `define` and an `impl`, and either may fail; the Library object goes with the exception
unless somebody keeps the exception (`outlives`). Strict preflight, retries and foreign claims come in between.

**DeepEpLL** — `Prepare`, `Receive`, `Finalize` in both forms and vLLM's switching between micro-batches (external).
A transfer is known by micro-batch and layer, by whether it arrived, and by how often it was waited for.

**ProfilingRanges** — `ranges` is torch's stack, `calls` the bodies on the Python stack; each wrapper is a call, a
return and a raise.

**BatchedExperts** — the launches of `apply` and the loops, lanes, masks and stores of the three activation kernels;
a step is one turn of one program's loop. A value is where it was read and which gates its scale was taken over.

**LinearKernels** — registration into vLLM's lists, vLLM's selection, `process_weights_after_loading`, and the call.
A matrix is the names of its dimensions and the order of its memory.

**KernelWarmup** — the gate, the plans of row counts (`plan`), the count and the compile pass, the caches keyed by
shape, and the share each rank takes. The passes over the layers are recursive functions. `WarmAssumption` has layers
that share the shape of a weight choose equally many experts, which is a number of the model: the caches ignore it.

**MoeOracles** — five `select_*`, the tables that prepare weights, sizes and inputs by backend, the aliases that
registration repairs, and the experts' view of what was prepared. `MayServe` says which backends a layer may have. One
that names a backend gets it in either format, or is refused. An automatic choice of the unquantized, FP8 and INT8
oracles never takes a kernel of the plugin whose library `VLLM_SAIL_MOE_BACKEND` excludes, and falls back to vLLM's own
kernels only where no kernel that was asked for can serve the layer; FP8 with `deepgemm` set refuses instead. The
oracles of WNA16 and MXFP4 do not read the variable (section 8), and of their automatic choices only the format and the
preparation are claimed.

**SparseIndexer** — the builder's plan of a step (split, chunks, decode metadata, formats) and the custom op's
insertion, prefill and decode. A key is its request, its index and its token; a row of logits what entered it.

**KeyCompressor** and **QuantizedKeys** — the first has state rows, paged keys, windows and addresses; the second
the bit arithmetic of E4M3 and int8 on the integers of the code.

**RecurrentAttention** — construction of a layer (which kernels it is given), then forward through mixed steps. A layer
is given kernels by the decode kernel that a variable or `additional_config` names (`requested`), the prefill kernel
that `additional_config` names (`prefill`), the legacy switch, and what the process and the model have. A
state is the tokens it absorbed, in order, in one of two layouts; `slots` are a request's rows in the cache. A step
is two parts, the requests that verify drafts and the others; a token has a row among its part's (`RowAmong`) and one
among the step's (`StepRow`), and the kernels write the one or the other.

The other `MC*` modules give the constants their values. Definitions commented `MUTANT` are plausible bugs, each of
which a run must catch; no specification uses them.

## 3 Runs

| Run | Shows | States |
|---|---|---|
| `ep_scatter_map` | under an expert map: lanes never share a row, rows lie in their expert's region and keep their token, labels are final, the launch ends | 8 544 |
| `ep_scatter_masked_load` | violation: an invalid id takes a row (finding 1) | – |
| `deep_gemm_moe` | without a map and with invalid ids: although buffers are overwritten, the layer implements MoeReduce, liveness included | 9 849 |
| `patch_engine` | every sequence of patches of five slots by two replacements: the original is always found again | 275 497 |
| `plugin_lifecycle` | a failure anywhere in a sequence of hook calls: no flag on half-done work, no registry child run twice, models all or none, recovery unless a patch of an unfinished module or a half-made registration is left | 194 252 |
| `ci_commands` | two commands of any kind, a push, a failing call, a re-delivered job: one active run per head, never green while tested, one run per comment | 178 840 |
| `ci_settles` | two failing calls, or a list that lags and re-runs by hand: the last result of each run is shown, pending statuses settle, commands are answered or their job failed | 364 690 |
| `ci_retry` | violation: `/ci retry` finds nothing to retry on a failed head (finding 2) | – |
| `ops_pipeline` | two boards, two attempts, pods that fail or are killed anywhere: a green attempt is earned in that attempt, a dead pod leaves no success, every attempt gets a verdict | 148 198 |
| `worker_process` | the twelve components of a worker, below | 352 977 |
| `batched_channel_scales` | violation: a scale is taken over more than its group (finding 3) | – |
| `int8_asymmetric` | violation: Cutlass is given a row-major weight (finding 4) | – |

What `worker_process` checks, by component:

| Component | Properties |
|---|---|
| PlaResolver | `ResolvedOnce`; `KernelsAreNotLost`, a kernel once given is never withdrawn; `EveryCallReturns` |
| NativeOps | `InstalledIsComplete`, an install that returns left every operator a kernel, also after failures; `StubsShadowNothing` |
| DeepEpLL | `CombineMatchesDispatch`; `TransfersAreAwaited`, nothing is read early, waited for twice or left; `QuantizedOnce`, in the format the layer computes in |
| ProfilingRanges | `RangesFollowCalls`, open ranges are the calls on the stack whatever raised, and a forward has its own batch's label |
| BatchedExperts | `MaskedRowsAreExact`, the second GEMM is given each element with the scale it was quantized with, over its own group, in any order of the programs |
| LinearKernels | `LaunchFitsLayer`, the preferred kernel whoever registered when, the weight in the order the library takes, bias once |
| KernelWarmup | `ShardsCoverPlan`, the shares of the ranks are all of the plan but its last `Len(plan) % size` counts, for every layer all of them hold, none twice |
| MoeOracles | `ServedAsAsked`, the backend the layer names or an automatic choice as `MayServe` allows, in the layer's own format, prepared as its experts read it, or a refusal |
| SparseIndexer | `TopKIsOfItsKeys`, the row of a token is of its own query and exactly the keys it may see, as they are now |
| KeyCompressor | `KeysHoldTheirWindow`, a closed window's key is of exactly its tokens, at the address it is read from |
| QuantizedKeys | `StoredIsNearest`, ties to even across carries and underflow; `LogitIsTheVectors`, within truncation |
| RecurrentAttention | `StateIsOfItsTokens`, through prompts, decodes and rejected drafts; `PlaOnlyWhereAsked`, by name or by the legacy switch, and never where another kernel is named |

A worker component may come to rest (a pass is over, a retry is not made), hence `CHECK_DEADLOCK FALSE` in
`Worker.cfg`; `OpsPipeline.cfg` says so because the last attempt ends.

## 4 Bounds

* EpScatter: two tokens with two choices, two local of three global experts: lanes of one token and of two tokens
  meet at one counter, an expert may get no token, and a token no expert. Row alignment is 1, which is what the
  code uses (`utils/deep_gemm.py`), and 2 in `DeepGemmMoe`, where counts come from the host; the proofs hold
  for any. The gather's grid of 1024 programs is scaled down to one program for two tokens, so that its strided
  loop is taken twice.
* PatchEngine: a method, a subclass that inherits it, a function, an alias of it and a constant; two replacements
  with symmetry. Every rule of the engine relates at most two slots and two replacements.
* PluginLifecycle: `MaxFailures` (1) transient failures, any number of calls. The units are chosen after the real
  modules: base class and subclass in two modules, a constant with a provider and its alias in one, an empty
  child, a strict child, two profiling modules. `Contested` and `ForeignSlots` stand for other plugins.
* CI: `MaxCommands` (2), `MaxRuns`, `MaxAttempts` (2), `MaxHead` (one push), `MaxFaults`, `MaxRedeliveries`;
  `Lag`, `NativeReruns`, `FaultyCalls` switch an environment on. Two commands are what any two-party conflict
  needs. `CiCommands.cfg` has a push, one failing call and one
  re-delivery; `CiSettles.cfg` two failing calls, or a lagging list with re-runs by hand.
* OpsPipeline: two boards, `MaxAttempts` (2), selections of a change without effect, of one that selects a listed
  test on one board, and of a test file. One of the three tests is not listed and needs two devices.
* PlaResolver: three threads, so that one publishes, one fails and one reads; `MaxFailures` (1) imports fail. The
  proofs hold for any number of both.
* NativeOps: two extensions, two portable and one Triton operator, three excluded ones of which two are implemented;
  `MaxNativeFailures` (3) lets each layer fail, or one operator in both its halves and again.
* DeepEpLL: two layers, so that a handle of the first could be taken in the second; two micro-batches are what the
  code allows. Every combination of the environment's switches and quantizations.
* ProfilingRanges: `MaxIterations` (2) steps, so that the second may meet what the first left; `MaxRaises` (2).
* BatchedExperts: up to `MaxRows` (2) rows per expert, of 1, 2, 3 and 5 times 64 elements: below, at, between and
  past the powers of two that the kernels round to; every scheme; two token programs.
* LinearKernels: every environment and layer the predicates tell apart.
* KernelWarmup: three ranks or one, `WarmMaxTokens` (7), `MaxWarmups` (2); stacks with shared shapes, every quantization,
  and no layer at all. Plans have at most 7 counts, so that a share of three has a tail.
* MoeOracles: every value of the variable with what loads, and every kind of layer of five oracles.
* SparseIndexer: prompts of 2 and 3 tokens, `IndexerContext` (5), `IndexerSteps` (4), with a draft accepted or rejected;
  `PrefillRows` (5) and `LogitsBytes` (16) are small enough that a step is cut into chunks.
* KeyCompressor: two requests, a context of 4 in 3 steps, blocks of 2, window ratios 2 (with overlap) and 3 (without)
  for the code's 4 and 128, so that a window closes in a step, at its end, and across two.
* QuantizedKeys: exponents below the smallest number, at the underflow, in the middle and at the largest, mantissas on
  and beside every tie and carry.
* RecurrentAttention: three requests with prompts of 1, 2 and 1, a context of 4, `LayerSteps` (3), a draft of one
  token or none, so that a step mixes a prompt, a decode and a verification in any order of rows, plain decodes beside
  drafts without a prompt included. Fifteen layers name each kernel with the switch on and off: PLA, Triton, one that
  PPU does not have, or none.

## 5 Fairness

* EpScatter, DeepGemmMoe: the device runs every launched program and every lane to its end, and a stream runs its
  launches in order. Nothing is assumed about the order of lanes or programs of a launch.
* PluginLifecycle: a call that vLLM made runs to its end or raises, and a process that needs the plugin calls the
  hook until it succeeds. Failures, module loads and other plugins are unfair.
* CI: GitHub finds a runner for what is queued, jobs end, the next controller job of the pull request starts.
  Commands, pushes, re-runs, re-deliveries and the refresh of the list of runs are unfair; failures too.
* OpsPipeline: the selection job runs, a board's job and its pod go on or are ended by their time limit, and the
  summary runs, which the workflow does `always()`. Kills and starting the run again are unfair.
* PlaResolver: a running thread goes on, an import ends, and a lock that stays free is obtained. Weak fairness
  is enough: each holder either resolves for good or uses up a failure. It is the only fairness of `worker_process`.

## 6 Proofs

Every theorem holds for all values of the constants that satisfy the named assumptions of its module.

**DeepGemmMoeProofs** — the scatter first: `TypeCorrect`, `RowsAreDistinct`, `RowsAreInTheirRegion`: any number of tokens,
choices, experts, any routing and alignment, under `DefinedLanes` (with an expert map there are no invalid ids: finding 1
shows the theorems false without it). That the counters never collide is not inductive by itself. `ScatterInv`
adds that scatter_2 starts after scatter_1 (`KernelBoundary`), that a published counter is its region's start
plus the number of lanes that claimed a row (`CounterCountsClaims`), that a loaded lane holds its id's expert
(`LanesLoaded`), and that a claimed row lies below its counter (`RowsTaken`). A claim is therefore a new row; it
stays in its region because the lanes that can claim it are those the count counted. `RegionsFit` says the last
region ends inside the buffer. The cumulative sum is a recursive function: its equation is proved from the
existence of a solution, by least counterexample.
The contents of the rows (`DataInvariant`, `RowsKeepTheirToken`, `LabelsStay`) rest on that. The labelled rows are
the first ones of each region, as many as the expert's program has gone through (`RowsLabelled`); regions are
disjoint, so the row labelled next has no label yet. What scatter_2 has written stays (`RowsCopied`), because the
rows of different lanes are different: the programs copy without looking at one another.
Then the layer: `LayerInvariant` and `LayerImplementsMoe`, under `DefinedLanes`: every step of the layer maps
to a step of MoeReduce or to a stutter, without the fairness (`ApplySafe`, `MoeSafe`). `LaunchOrder` says where each
launch finds the routed rows and what they have gone through, which the reuse of the two workspaces could break;
`TokensAhead`, that the gather's programs go through disjoint classes of tokens and none has been written early.

**PatchEngineProofs** — `EngineIsSound`, `HeapTypeCorrect`, `OriginalsAreKept`. The invariant `EngineInv`
distinguishes slots: an unrecorded one is as vLLM left it, or an alias loaded later that holds what vLLM defined or
a marked replacement; a recorded one holds a replacement marked at that very slot with what a lookup found
there before. The second case of aliases is why `OriginalsKept` alone is not inductive: a provider's
replacement arrives in a slot that was never patched, and only its mark keeps it from being taken for an original.

**PluginLifecycleProofs** — the three safety properties of the lifecycle, for any units, models, calls, failures and
modules loaded meanwhile. Calls (`CallsInOrder`, `RegistryAlwaysRunsOnce`): where a call stands agrees with what the
flags remember, and a registry child that began has ended, runs now, or has failed for good. Models
(`ModelsStayTogether`, `FailedCallAlwaysKeepsModels`): between two steps of `register_model` the required entries are
the plugin's up to the current one and can be put back from `previous`. Patches (`StepsStayInEffect`,
`FlagsAlwaysMeanInstalled`): a flag speaks of steps that were made long before, so the invariant follows every step
that was made. A provider is replaced once (`ProvidersReplacedOnce`), an alias holds what it copied or what its
provider holds (`AliasesFollow`), and a step of a unit that ended, or that the running unit has behind it, is in
effect (`UnitsInEffect`), whatever is loaded or fails later. `StepAssumption` says what each kind of step is applied
to: no alias is patched, `patch_value` is for constants, a rebinding is of an alias whose provider the unit has
patched before. The modules under `patch/` are of that form.

**OpsPipelineProofs** — `PipelineIsSound`, `GreenIsAlwaysEarned`, `DeadPodsNeverProve`, `MadeSelectionIsAccepted`,
`ChangedTestsAlwaysPassed`, for any catalogue, change, boards and number of attempts. Green in an attempt is a
statement about pods that are long gone, so the invariant carries it along: a directory's probe is of this attempt
and its evidence of tests that did pass in it (`DirectoriesAreHonest`), a summary that says success is the last thing
a pod writes (`SuccessIsLast`), and an uploaded proof stands for a plan that passed in its own attempt, however often
the run was started again (`ProofsAreOfTheirAttempt`). `MadeSelectionIsAccepted` is about the pure half: what
`make_selection` writes passes the validation of every consumer. `ChangedTestsAlwaysPassed` puts both together: a green
attempt ran every operator test whose own file the change touched, on every board that can run it.
`PipelineAssumption` says only that absence is neither a selection nor a success.

**WorkerStartProofs** — what a worker makes ready before it computes.
The resolvers (`ResolverIsSound`, `ResolverTypeCorrect`, `ResolvesOnce`, `KernelsStay`): the lock excludes
(`HolderInside`), what is published is complete or in the hands of the lock's holder (`Published`), and a thread
which was given a handle reads again only what is complete (`GivenSound`).
The native operators (`LayersAreSound`, `NoStubShadows`, `InstalledOpsAreComplete`), for any lists of operators, any
claims of other libraries and any number of failures: `LayersInOrder` says what the layers before the present stage
have provided. `outlives` is excepted in both properties, and the reason is in section 8.
The dense layers (`LayersGetTheirKernel`, `LaunchAlwaysFits`), for any libraries, settings and candidates of others:
the weight is put in order when it is loaded and the library chosen when it is called. Between the two the
invariant keeps what the layer's kernel is (`KernelIsChosen`, the first of the candidates that can take it, and the
plugin's come first once it has registered) and that the weight is in the order of the library that its calls will
choose (`WeightsFitKernel`).
The MoE layers (`OraclesAreSound`, `AlwaysServedAsAsked`), for any layers, libraries, values of the variable and moment
at which the consumer module is imported: the invariant says which of the functions that module holds are repaired at
each point of the registration (`AliasesKnown`), that a selection answers as `MayServe` allows and in the layer's own
format (`AsAsked`), and what a layer is prepared for at each stage of its loading (`LayerPrepared`), so that the tables of
formats, which are five, agree with what the backend's experts read. That an automatic choice leaves no usable kernel
aside is about the order of the lists: each of the plugin's kernels precedes every kernel of vLLM's that could serve the
layer (`CandidatesLead`), and the first that passes is not behind one that does (`FirstIsLeast`).
The warm-up (`WarmUpIsSound`, `SharesAlwaysCover`), for any layers, number of tokens and layout of the ranks: three
passes over the layers have to agree, those that count, those that compile, and those of the other ranks. What a rank
has launched is its share of the plan of every shape its caches have and of nothing else (`SoundState`), and one that
has returned has every shape of a plan that is not empty (`Covered`), since a group whose count is zero has nothing
its caches lack. As a shape has one plan (`PlanIsOfShape`), the shares are parts of the same plan, which do not
overlap (`PartsPartition`). The recursions have a solution by least counterexample, as the cumulative sum has.

**ModelStepProofs** — what happens in a step of the model.
The low-latency exchange (`ExchangeIsSound`, `CombinesMatch`, `EveryTransferIsAwaited`, `TokensAreQuantizedOnce`), for
any number of layers. A handle is written only by its own micro-batch (`HandlesAreOwn`). That nothing is read early
is about how two micro-batches take turns: `Turns` counts the progress of both, the first one transfer ahead or level,
with the transfer under way and its hook left at the other. Without the count, both could wait at the same time.
Profiling (`ProfilingIsSound`, `RangesAlwaysFollowCalls`), for any iterations and exceptions: the stack of NVTX is that
of the calls that opened a range, in order. The invariant adds which call may run in which, and whose batch is
stashed while `execute_model` runs, as the label of a forward pass is taken from there.
Linear attention (`KernelsAreAsked`, `PlaIsAsked`), for any requests and settings, the kernels named for decode and
prefill among them: what a layer chose when it was built is what its settings ask for, one that could not have it is
never called (`ChoiceStands`), and every function the plugin replaces chooses within that.
Its states (`StatesAreOfTokens`), for any prompts, drafts, orders and steps: a token's output is the state of its
request's tokens up to it, and a request goes on from what it accepted. Three things are carried along, by the stage of
the step (`TokensInv`). What the slots hold (`SlotsHold`): first every request's accepted tokens, then a state for each
token of the drafts' requests, then the last state of the others; verifying and storing touch nobody else's slots,
because rows of slots do not overlap (`SlotsApart`). Where the outputs are (`RowsHold`): in the step's buffer or in
that of a part, and `restore` believes the same of it as the kernel that wrote it (`WrittenInPlace`). And that every
row of a part is of one token (`RowsAreTokens`). That a kernel has what it was compiled for, and that no KDA layer
raises, comes from `ChoiceStands`.
The masked activation of the batched experts (`BatchedRowsAreSound`, `MaskedRowsAlwaysExact`), for any hidden sizes,
counts and number of programs: a program stays on the rows of its own residue (`CursorsStride`), and what the programs
have passed is exact whatever the others write beside it (`PassedIsExact`), because the addresses of two elements
differ.
The compressed keys (`CompressorIsSound`, `KeysAlwaysHoldTheirWindow`), for any number of requests, tokens, drafts and
steps and any sizes of blocks. Between two steps every row and every key up to what is written is in place; within a
step one that is missing, or of other tokens, has its program still to run (`StatesHeld`, `KeysHeld`), and the batch
has that program because it takes the tokens from the first that is not written (`BatchIsOfStep`). A rejected draft
takes nothing that is claimed away, as the claim ends at what was accepted, and a recycled block is claimed for
nothing until it is written again. The compress kernel reads states only after the last of them is saved, which is
what the missing overlap of the two launches is for, and the addresses of two keys and of their scales differ.
`SupportedCompressors` excludes fp4 keys of the indexer on PPU 1.0, which the patch leaves to a kernel of vLLM's that
is not compiled there.
The numbers of the caches (`StoredAlwaysNearest`, `LogitsAreTheVectors`), for any exponents and mantissas of a float,
any magnitudes of an entry and the two weights of `QuantizedInit`. The encoder's two paths are both a rounding of the
mantissa to a multiple of a power of two, to even on a tie (`NearestMultiple`); a carry makes the next byte in either
(`NormalByte`), so that the bytes next to one are the next multiples, and nearer than both is nearest. The smallest
scale that holds a block leaves its largest float within the normal numbers (`ScaleOfBlock`), where the clamp cuts
eight units of the last place at most (`ScaledWithin`).

**SparseIndexerProofs** — `IndexerIsSound` and `TopKAlwaysOfItsKeys`, for any settings, prompts, orders, query lengths,
workspace and budget of logits, and any number of steps. What a kernel reads was placed by three others, so the
invariant follows it through the stages of a step (`IndexerInv`). The cache has every key of the tokens that stand,
and once inserted those of the step (`Written`): the tokens of a step close every window between a request's progress
and its length, a rejected draft's keys lie beyond the progress, and are written again before they count. The chunks
cover the tokens behind the decoded ones, each is of consecutive requests and fits what was reserved, and one that
does not gather follows one of the same requests (`ChunksOk`), so the workspace still holds their keys where `FirstRow`
looks (`Holds`, `Gathers`). The decode plan has each token's request, its visible keys and the schedule of just those
lengths (`PlanRight`), in each of the modes: flattened, native with one length, native with drafts, and compressed in
place or in a copy, which leaves the lengths attention shares alone. Because a step without flattening decodes requests
of one length, no plan is padded. Writer and reader agree on the format wherever the op does not refuse (`FormatsAgree`).
The prefix sums, the split and the slices are recursive functions, and their equations are proved by least
counterexample.

**CiControllerProofs** — `ControllerIsSound`, `OneRunAtATime`, `GreenWaitsForTheRun`, for any number of commands,
pushes, re-delivered jobs and failing calls, under `Supervised`: the list shows every run, and nobody uses GitHub's
own re-run. (TLC checks both properties in the environments of `CiCommands.cfg`, which are supervised too.) A job
decides from what it read some calls ago. `JobKnows` says what is still so when it asks for a run: no run of its head
is active, and a run to retry is the newest. That rests on `NewestIsActive`, as only the newest run can be, and on
`QueueIsOfQueued`, by which the concurrency group starts nothing but queued runs, each once.
The comments (`CommentsAreSound`) need neither assumption. `LastResultAlwaysShown` holds in every environment, with a
lagging list and re-runs by hand: a report replaces only an answer to its own command (`FoundIsOwn`), and no two runs
have one command (`OwnersDiffer`). `OneRunForAComment` assumes that at most one call fails, as section 8 shows that two
can break it. The only memory of what a comment has started is the answer below it, so while at most one call failed
either that answer is written or the job that owes it is still at work and can no longer fail (`OwnersAnswer`); a
job that went on past the check of its comment has therefore no run yet (`JobsStartAnew`).

Every invariant and action property of a passing run is proved. Only model-checked: all liveness, the fairness half
of the refinement of MoeReduce included, which is out of the prover's reach. The type invariants of PatchEngine and of
the resolvers are proved, and not run.

## 7 Findings

1. `deep_gemm_utils.py:283` — scatter_2 loads the expert map with a mask and no `other`; the lane of an invalid id is
   undefined under an expert map, and may take a row. Without a map, or without invalid ids, nothing is wrong.
2. `ppu_ci_command.py:397` — `/ci retry` looks at the newest run, the status shows the attempt that reported last;
   after an older run was re-run by hand and failed, there is nothing to retry on a failed head.
3. `batched_deep_gemm_moe.py:323` — the Triton activation kernel masks with `cols < BLOCK`, which is always true, where
   `cols < GROUP_SIZE` is needed; a channel-wise row that is not a power of two gets scales over its neighbours, and
   the last token of a full expert writes into the next expert's rows. `MaskedRowsAreExact` covers the groups that
   fill their block.
4. `kernels/linear/scaled_mm/ppu.py:339` — with asymmetric int8 activations Cutlass is given the weight as kept, which
   is row-major whenever DeepGEMM or acext is used. `LaunchFitsLayer` covers the symmetric layers.

## 8 Remarks on the code

Met while modelling; they contradict no property the runs check, or need a reader's judgement.

* Profiling: when a profiling module fails, patches of those imported before it stay, while the warning says that
  profiling is disabled (`profiling/__init__.py:75`). `profiling/linear.py` opens its range unguarded and leaves it
  open when the layer raises (`leaks` in ProfilingRanges), although `nvtx.py:14` says profiling cannot crash the engine.
* Patch engine: `patch_value` leaves no marker, so that a second patch of the attribute would not be refused. The
  repository has no such pair (`DataSlots`).
* Native operators: a Triton registration that fails destroys its library; a failed extension import is tried again
  by a strict preflight, and not otherwise. A kept exception keeps a half-made schema (`outlives`).
* CI: one failing call cannot make a comment start two runs (`OneRunPerComment`), two can: the controller's comment
  about the run and that of the fallback are lost, the head is pushed, and the job is run again before the first run
  has reported. Nothing tells it of that run.
* Warm-up: block FP8 is never selected, as `get_mk_alignment_for_contiguous_layout()` answers [1, 1] by default; the
  last `len(plan) % size` counts are compiled by no rank, though `deep_gemm_warmup.py:279-280` says the full mode warms
  all token sizes; with pipeline parallelism, shapes that only some ranks hold are warmed in part; the batched experts of
  fp8, int8 and bf16 are never warmed; the compile mode is not restored on an exception; nodes with different numbers
  of ranks raise a TypeError; caches keyed by shape ignore top_k.
* Oracles: wna16 and mxfp4 ignore `VLLM_SAIL_MOE_BACKEND`, which `configuration.md:32` lists for MoE; an explicit
  `ppu_acext` where acext did not load ends in a NameError at the first batch; unquantized and int8 layers fall back to
  Triton where fp8 raises. `ServedAsAsked` says nothing of the first, names the second as the only
  layer built in vain, and allows the fallback only where no kernel that was asked for can serve the layer.
* Sparse indexer: padded decode rows would overwrite prefill rows, and weights are not packed for them; only uniform
  batches, which have no padding, reach that code today.
* KDA: the purely speculative branch of `_forward` would read an undefined `spec_slice` if the metadata gave a
  `spec_token_start` there; vLLM's metadata does not.
* `utils/deep_gemm.py`: `_lazy_init` skips the lock once any symbol is bound; nothing calls it concurrently today.

## 9 What is not modelled

* MoE: the arithmetic of quantization and GEMMs, and the variants of scatter_2 the host switches off. The sum of a
  token is the set of its terms, so the order of floating-point addition is not modelled. The Triton experts are numeric.
* Patch engine: validation of patch metadata, capture of source text, attributes that cannot be set.
* Lifecycle: the platform hook; the many patch modules are a few representative units. A lenient rebinding may
  leave an alias that another plugin's function got into (`LeftBehind`), which `FlagsMeanInstalled` excepts.
* CI: reactions, `notify`, wording, the reuse of wheels, the rules of `authorize` (any command may be refused),
  time limits of jobs. The conclusion of a cancelled run whose jobs all succeeded is left open. `PendingSettles`
  is claimed for failures of calls other than the write of a status itself. Operator tests: JSON shapes and formats,
  the contents of a node report, timings.
* PLA: the kernel switch is constantly on (off, every call answers None); an `OSError` of the prefill import, which
  the resolver does not catch.
* Attention: block tables, context parallelism, candidate blocks, the padding of captured graphs in the indexer; the
  softmax, norm and rotation of the compressor; RecoverSSM, FlashInfer, CuTeDSL and ROCm paths, which PPU never takes
  (a prefill or KDA kernel of that kind that `additional_config` names is taken for one that is not there: Triton or a
  refusal); plain decodes of a request that accepted more than one token, whose state vLLM moves first;
  the bodies of MLA and flash attention, which call external kernels.
* Warm-up: a failing lookup of the world group, for which `_get_local_rank_and_size` answers (0, 1), is not an action
  of its own: such a process is a node of one rank.
* Platform predicates, environment lookups, quantization layers: pure, or without state between calls; where a
  modelled component asks them, the answer is part of its environment.
* Model-runner and sampler patches: bodies of vLLM with small changes, over globals that are not in this repository.
* Kernel porting, generated kernels, packaging, drift checks, benchmarks: text in and text out, static analysis, or
  copies.

`PROJECT.json` repeats the reason at each component, and names what a partly modelled one leaves out.

## 10 Next

Models of the choice of DeepGEMM configurations in `utils/deep_gemm.py`, of the Triton MoE's configuration cache, and
of the insertion of resampled tokens in `patch/enhancement/runtime.py`.
