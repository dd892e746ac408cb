---------------------------- MODULE PluginLifecycle ----------------------------
(***************************************************************************)
(* The general-plugin hook of vllm_sail, register_out_of_tree, as vLLM     *)
(* calls it in one process: possibly several times, possibly after a call  *)
(* that raised, with modules of vLLM loaded at any moment.                 *)
(*                                                                         *)
(* A call goes through the stages compat, patch, registry, profiling and   *)
(* models.  The stages patch, registry and profiling run units: a patch    *)
(* module, a registry child, a profiling module.  A unit is a sequence of  *)
(* patches and of rebindings of aliases; it is remembered as done (cached  *)
(* by the import system, or by its _installed flag) only at its end, and   *)
(* is run again from its first step when it raised before.                 *)
(***************************************************************************)
EXTENDS PatchEngine, FiniteSets, SequencesExt

CONSTANTS
  PatchUnits,      (* the modules of the patch categories, in import order *)
  RegistryUnits,   (* the children of vllm_sail.registry, in order         *)
  ProfilingUnits,  (* the modules of vllm_sail.profiling, in order         *)
  Steps,           (* unit -> its steps [op, slot, additive]               *)
  StrictUnits,     (* the units that refuse an unexpected alias            *)
  ForeignSlots,    (* providers another plugin may have replaced before    *)
  TheValue,        (* what the patch_value steps install                   *)
  Required,        (* required model architectures, in order               *)
  Optional,        (* optional ones, in order                              *)
  Contested,       (* architectures another plugin registers too           *)
  MaxFailures      (* bound: transient failures of imports and calls       *)

Units    == Range(PatchUnits) \cup Range(RegistryUnits) \cup Range(ProfilingUnits)
Archs    == Range(Required) \cup Range(Optional)
Stages   == {"idle", "compat", "patch", "registry", "profiling", "models"}

ASSUME UnitAssumption ==
  /\ \A units \in {PatchUnits, RegistryUnits, ProfilingUnits} : units \in Seq(Units)
  /\ Range(RegistryUnits) \cap (Range(PatchUnits) \cup Range(ProfilingUnits)) = {}
  /\ Required \in Seq(Archs) /\ Optional \in Seq(Archs)
  /\ Steps \in [Units -> Seq([op : {"patch", "value", "rebind"}, slot : Slots,
                              additive : BOOLEAN])]
  /\ StrictUnits \subseteq Units
  /\ ForeignSlots \subseteq Slots
  /\ Contested \subseteq Archs
  /\ MaxFailures \in Nat

\* Data is installed by patch_value, functions by @patch; only an alias is rebound,
\* in the unit that patched its provider before.  Every run of a module defines its
\* functions anew.
ASSUME StepAssumption ==
  /\ TheValue \in Values
  /\ \A s \in Slots, n \in 0 .. MaxFailures : << s, n >> \in Replacements
  /\ \A u \in Units : \A k \in DOMAIN Steps[u] :
       LET st == Steps[u][k] IN
       CASE st.op = "patch"  -> ~ IsAlias(st.slot) /\ st.slot \notin DataSlots
         [] st.op = "value"  -> st.slot \in DataSlots
         [] st.op = "rebind" -> /\ IsAlias(st.slot)
                                /\ \E j \in 1 .. k - 1 : /\ Steps[u][j].op = "patch"
                                                         /\ Steps[u][j].slot = Source[st.slot]

VARIABLES
  stage,               (* what the running call is at                      *)
  step,                (* step of the unit being run; 0 before its first   *)
  done,                (* units that ran to their end                      *)
  flags,               (* what the process remembers of its calls:         *)
                       (*   checked             compat._checked            *)
                       (*   patches_applied     _PATCHES_APPLIED           *)
                       (*   registered          registry._registered       *)
                       (*   registration_error  the one of the registry    *)
                       (*   registries_applied  _REGISTRIES_APPLIED        *)
                       (*   profiling_disabled  that warning was logged    *)
                       (*   models_registered   _MODELS_REGISTERED         *)
  models,              (* ModelRegistry.models: who owns each architecture *)
  previous,            (* the required entries when registering started    *)
  outcome,             (* of the last call                                 *)
  began,               (* how often the body of a registry child began     *)
  found,               (* ModelRegistry.models when the call was made      *)
  failures

Flags == {"checked", "patches_applied", "registered", "registration_error",
          "registries_applied", "profiling_disabled", "models_registered"}

model   == << models, previous >>
history == << outcome, began, found >>
lvars   == << pristine, heap, stage, step, done, flags, model, history, failures >>

--------------------------------------------------------------------------------
(* Units.                                                                   *)

UnitsOf(st) == CASE st = "patch"     -> PatchUnits
                 [] st = "registry"  -> RegistryUnits
                 [] st = "profiling" -> ProfilingUnits
                 [] OTHER            -> << >>

\* The places of the units a stage has still to run, and the first of them.
Pending(st) == {i \in DOMAIN UnitsOf(st) : UnitsOf(st)[i] \notin done}
Current     == UnitsOf(stage)[Min(Pending(stage))]

\* The function that a run of a patch step defines: a new object in every run.
New(s) == [kind |-> "function", impl |-> << s, failures >>, rest |-> Nil]

\* What the provider of alias s holds, and what it held before.
Replacement(s)  == attr[Source[s]]
ReplacedOf(s)   == mark[Replacement(s).impl][Source[s]]

\* A rebinding raises, in a strict unit, on an alias it does not expect.
Unexpected(u, s) ==
  /\ u \in StrictUnits
  /\ attr[s] \notin {Unloaded, Replacement(s), ReplacedOf(s)}

\* Only a loaded alias that still holds the original is patched.
Rebind(s) ==
  IF attr[s] = ReplacedOf(s)
  THEN Install(s, Replacement(s), FALSE)
  ELSE UNCHANGED heap

Raises(u, k) ==
  LET st == Steps[u][k] IN
  CASE st.op = "patch"  -> Refused(st.slot, New(st.slot), st.additive)
    [] st.op = "value"  -> ValueRefused(st.slot, TheValue)
    [] st.op = "rebind" -> Unexpected(u, st.slot)

Perform(u, k) ==
  LET st == Steps[u][k] IN
  CASE st.op = "patch"  -> Install(st.slot, New(st.slot), st.additive)
    [] st.op = "value"  -> InstallValue(st.slot, TheValue)
    [] st.op = "rebind" -> Rebind(st.slot)

\* The registry runs no unit once it registered or failed.
MayRun == /\ Pending(stage) # {}
          /\ stage = "registry" => ~ flags["registered"] /\ ~ flags["registration_error"]

BeginUnit ==
  /\ MayRun
  /\ step = 0
  /\ step' = 1
  /\ began' = [u \in Range(RegistryUnits) |-> began[u] + IF u = Current THEN 1 ELSE 0]
  /\ UNCHANGED << pristine, heap, stage, done, flags, model, outcome, found, failures >>

RunStep ==
  /\ MayRun
  /\ step \in 1 .. Len(Steps[Current])
  /\ ~ Raises(Current, step)
  /\ Perform(Current, step)
  /\ step' = step + 1
  /\ UNCHANGED << pristine, stage, done, flags, model, history, failures >>

\* MUTANT: a unit is remembered as done when its last step begins.
EndUnitEarly ==
  /\ MayRun
  /\ step = Len(Steps[Current])
  /\ done' = done \cup {Current}
  /\ step' = 0
  /\ UNCHANGED << pristine, heap, stage, flags, model, history, failures >>

EndUnit ==
  /\ MayRun
  /\ step = Len(Steps[Current]) + 1
  /\ done' = done \cup {Current}
  /\ step' = 0
  /\ UNCHANGED << pristine, heap, stage, flags, model, history, failures >>

--------------------------------------------------------------------------------
(* Exceptions.                                                              *)

EndCall(result) ==
  /\ stage' = "idle"
  /\ outcome' = result

\* MUTANT: a failed registration is forgotten.
RaiseForgiving ==
  /\ step' = 0
  /\ IF stage = "profiling"
     THEN /\ flags' = [flags EXCEPT !["profiling_disabled"] = TRUE,
                                    !["registries_applied"] = TRUE]
          /\ stage' = "models"
          /\ UNCHANGED outcome
     ELSE /\ EndCall("raised")
          /\ UNCHANGED flags

\* An exception in a unit leaves what its patches did.  It ends the call; the
\* registry remembers it; profiling swallows it, warns and is not tried again.
Raise ==
  /\ step' = 0
  /\ \/ stage = "patch" /\ EndCall("raised") /\ UNCHANGED flags
     \/ /\ stage = "registry"
        /\ flags' = [flags EXCEPT !["registration_error"] = TRUE]
        /\ EndCall("raised")
     \/ /\ stage = "profiling"
        /\ flags' = [flags EXCEPT !["profiling_disabled"] = TRUE,
                                  !["registries_applied"] = TRUE]
        /\ stage' = "models"
        /\ UNCHANGED outcome

\* A step is refused by the engine, or by a strict rebinding.
StepRaises ==
  /\ MayRun
  /\ step \in 1 .. Len(Steps[Current])
  /\ Raises(Current, step)
  /\ Raise
  /\ UNCHANGED << pristine, heap, done, model, began, found, failures >>

\* A transient failure: an import, a missing file, a call into vLLM.
UnitFails ==
  /\ MayRun
  /\ step > 0
  /\ failures < MaxFailures
  /\ failures' = failures + 1
  /\ Raise
  /\ UNCHANGED << pristine, heap, done, model, began, found >>

--------------------------------------------------------------------------------
(* The stages of register_out_of_tree.                                      *)

Call ==
  /\ stage = "idle"
  /\ stage' = "compat"
  /\ found' = models
  /\ UNCHANGED << pristine, heap, step, done, flags, model, outcome, began, failures >>

\* The stage after st: finished stages are skipped.
StageAfter(st) ==
  IF st = "compat" /\ ~ flags["patches_applied"] THEN "patch"
  ELSE IF flags["registries_applied"] THEN "models" ELSE "registry"

\* check_vllm_compatibility, whose positive answer is cached.
CompatPasses ==
  /\ stage = "compat"
  /\ flags' = [flags EXCEPT !["checked"] = TRUE]
  /\ stage' = StageAfter("compat")
  /\ UNCHANGED << pristine, heap, step, done, model, history, failures >>

CompatFails ==
  /\ stage = "compat"
  /\ ~ flags["checked"]
  /\ failures < MaxFailures
  /\ failures' = failures + 1
  /\ EndCall("raised")
  /\ UNCHANGED << pristine, heap, step, done, flags, model, began, found >>

PatchesDone ==
  /\ stage = "patch"
  /\ Pending("patch") = {}
  /\ flags' = [flags EXCEPT !["patches_applied"] = TRUE]
  /\ stage' = StageAfter("patch")
  /\ UNCHANGED << pristine, heap, step, done, model, history, failures >>

\* `import vllm_sail.ops`, an import of registry.register before its try, an
\* optional package of profiling that does not fail with ImportError, or vLLM's
\* model registry.
ImportFails ==
  /\ stage \in {"registry", "profiling", "models"}
  /\ step = 0
  /\ ~ flags["registration_error"] /\ ~ flags["models_registered"]
  /\ Pending(stage) = DOMAIN UnitsOf(stage)
  /\ failures < MaxFailures
  /\ failures' = failures + 1
  /\ EndCall("raised")
  /\ UNCHANGED << pristine, heap, step, done, flags, model, began, found >>

\* A registration that failed before is not retried in this process.
RegistryRefuses ==
  /\ stage = "registry"
  /\ flags["registration_error"]
  /\ EndCall("raised")
  /\ UNCHANGED << pristine, heap, step, done, flags, model, began, found, failures >>

RegistryDone ==
  /\ stage = "registry"
  /\ ~ flags["registration_error"]
  /\ flags["registered"] \/ Pending("registry") = {}
  /\ flags' = [flags EXCEPT !["registered"] = TRUE]
  /\ stage' = "profiling"
  /\ UNCHANGED << pristine, heap, step, done, model, history, failures >>

\* Profiling was not requested, its packages are missing, or it is installed.
ProfilingDone ==
  /\ stage = "profiling"
  /\ step = 0
  /\ Pending("profiling") \in {DOMAIN ProfilingUnits, {}}
  /\ flags' = [flags EXCEPT !["registries_applied"] = TRUE]
  /\ stage' = "models"
  /\ UNCHANGED << pristine, heap, step, done, model, history, failures >>

--------------------------------------------------------------------------------
(* models.register_model: required models all or none, optional ones one by *)
(* one.                                                                     *)

Snapshot ==
  /\ stage = "models"
  /\ ~ flags["models_registered"]
  /\ step = 0
  /\ step' = 1
  /\ previous' = models
  /\ UNCHANGED << pristine, heap, stage, done, flags, models, history, failures >>

RegisterRequired ==
  /\ stage = "models"
  /\ step \in 1 .. Len(Required)
  /\ models' = [models EXCEPT ![Required[step]] = "ppu"]
  /\ step' = step + 1
  /\ UNCHANGED << pristine, heap, stage, done, flags, previous, history, failures >>

\* MUTANT: an entry that did not exist before is left in place.
RequiredFailsKeepingNew ==
  /\ stage = "models"
  /\ step \in 1 .. Len(Required)
  /\ failures < MaxFailures
  /\ failures' = failures + 1
  /\ models' = [a \in Archs |-> IF a \in Range(Required) /\ previous[a] # "missing"
                                THEN previous[a] ELSE models[a]]
  /\ EndCall("raised")
  /\ step' = 0
  /\ UNCHANGED << pristine, heap, done, flags, previous, began, found >>

\* Every required entry is put back, and an entry that did not exist removed.
RequiredFails ==
  /\ stage = "models"
  /\ step \in 1 .. Len(Required)
  /\ failures < MaxFailures
  /\ failures' = failures + 1
  /\ models' = [a \in Archs |-> IF a \in Range(Required) THEN previous[a] ELSE models[a]]
  /\ EndCall("raised")
  /\ step' = 0
  /\ UNCHANGED << pristine, heap, done, flags, previous, began, found >>

\* An optional model that cannot be registered is only logged.
RegisterOptional ==
  /\ stage = "models"
  /\ step - Len(Required) \in 1 .. Len(Optional)
  /\ \/ models' = [models EXCEPT ![Optional[step - Len(Required)]] = "ppu"]
     \/ UNCHANGED models
  /\ step' = step + 1
  /\ UNCHANGED << pristine, heap, stage, done, flags, previous, history, failures >>

ModelsDone ==
  /\ stage = "models"
  /\ flags["models_registered"] \/ step = Len(Required) + Len(Optional) + 1
  /\ flags' = [flags EXCEPT !["models_registered"] = TRUE]
  /\ EndCall("ok")
  /\ step' = 0
  /\ UNCHANGED << pristine, heap, done, model, began, found, failures >>

--------------------------------------------------------------------------------
(* vLLM and the other plugins.                                              *)

LoadModule ==
  /\ \E s \in Slots : LoadAlias(s)
  /\ UNCHANGED << pristine, stage, step, done, flags, model, history, failures >>

\* Another plugin registers its implementation of an architecture.
OtherRegisters ==
  /\ stage = "idle"
  /\ ~ flags["models_registered"]
  /\ \E a \in Contested : models' = [models EXCEPT ![a] = "other"]
  /\ UNCHANGED << pristine, heap, stage, step, done, flags, previous, history, failures >>

--------------------------------------------------------------------------------
ForeignFunction == [kind |-> "function", impl |-> Foreign, rest |-> Nil]

\* Another plugin may have replaced providers already; a module that was loaded
\* before that keeps what vLLM defines.
LInit ==
  /\ \E foreign \in SUBSET ForeignSlots,
        stale \in SUBSET {s \in Slots : IsAlias(s)},
        absent \in SUBSET {s \in Slots : IsAlias(s)} :
       /\ stale \subseteq {s \in Slots : Source[s] \in foreign} \ absent
       /\ pristine = [s \in Slots |->
            IF s \in absent THEN Unloaded
            ELSE IF IsAlias(s)
            THEN IF Source[s] \in foreign /\ s \notin stale
                 THEN ForeignFunction ELSE Pristine(Source[s])
            ELSE IF s \in foreign THEN ForeignFunction
            ELSE IF s \in DataSlots \/ Base[s] # NoSlot THEN Missing
            ELSE Pristine(s)]
  /\ HeapInit
  /\ stage = "idle"
  /\ step = 0
  /\ done = {}
  /\ flags = [f \in Flags |-> FALSE]
  /\ \E new \in SUBSET Range(Required) :
       models = [a \in Archs |-> IF a \in new THEN "missing" ELSE "vllm"]
  /\ previous = models
  /\ outcome = "none"
  /\ began = [u \in Range(RegistryUnits) |-> 0]
  /\ found = models
  /\ failures = 0

Progress ==
  \/ CompatPasses
  \/ BeginUnit \/ RunStep \/ EndUnit \/ StepRaises
  \/ PatchesDone \/ RegistryRefuses \/ RegistryDone \/ ProfilingDone
  \/ Snapshot \/ RegisterRequired \/ RegisterOptional \/ ModelsDone

Failure == CompatFails \/ UnitFails \/ ImportFails \/ RequiredFails

LNext == Call \/ Progress \/ Failure \/ LoadModule \/ OtherRegisters

LSpec == LInit /\ [][LNext]_lvars

\* A call that vLLM made runs to its end, and a process that needs the plugin
\* calls the hook until it succeeds.
LFairSpec == LSpec /\ WF_lvars(Progress) /\ WF_lvars(Call)

--------------------------------------------------------------------------------
\* A lenient rebinding leaves an alias that another plugin's replacement of the
\* provider had already left behind.
LeftBehind(u, s) ==
  u \notin StrictUnits /\ pristine[s] \notin {Unloaded, pristine[Source[s]]}

InEffect(u) ==
  \A k \in DOMAIN Steps[u] :
    LET s == Steps[u][k].slot IN
    CASE Steps[u][k].op = "patch"  -> attr[s].impl \in Replacements
      [] Steps[u][k].op = "value"  -> attr[s] = Value(TheValue)
      [] Steps[u][k].op = "rebind" ->
           attr[s] \in {Unloaded, Replacement(s)} \/ LeftBehind(u, s)

\* "Incomplete work must not be marked successful": once a flag says that the
\* patches, or the registries, are in place, every replacement is installed and
\* every loaded alias holds what its provider holds, whatever failed before,
\* and so does every alias loaded later.
FlagsMeanInstalled ==
  /\ flags["patches_applied"] => \A u \in Range(PatchUnits) : InEffect(u)
  /\ flags["registered"] => \A u \in Range(RegistryUnits) : InEffect(u)

\* "A mutated global registry must not be presented as safely retryable": the
\* body of a registry child runs at most once in a process, and after a failure
\* no other child runs either.
RegistryRunsOnce ==
  /\ \A u \in Range(RegistryUnits) : began[u] <= 1
  /\ flags["registration_error"] => ~ flags["registered"] /\ outcome # "ok"

\* A failed call leaves the required models as it found them: there is no state
\* in which some of them are the plugin's and the others vLLM's.
FailedCallKeepsModels ==
  stage = "idle" =>
    \/ \A a \in Range(Required) : models[a] = "ppu"
    \/ \A a \in Range(Required) : models[a] \in {found[a], "other"} \ {"ppu"}

\* The failures a process cannot recover from: a half-made registration, or a
\* patch module that raised after one of its patches.
Poisoned ==
  \/ flags["registration_error"]
  \/ \E u \in Range(PatchUnits) \ done : \E k \in DOMAIN Steps[u] :
       Steps[u][k].op = "patch" /\ Steps[u][k].slot \in PatchedSlots

\* The hook recovers from every failure that left no patch of an unfinished
\* module and no half-made registration: a failed compatibility check, import,
\* model or profiling module does not keep later calls from succeeding.
Recovers == <>(outcome = "ok") \/ <>[](stage = "idle" => Poisoned)
================================================================================
