------------------------- MODULE PluginLifecycleProofs -------------------------
(***************************************************************************)
(* Theorems about the plugin hook, for any units and steps, any models,    *)
(* any number of calls and failures and any modules loaded meanwhile: a    *)
(* flag is never set on half-done work, a registry child runs once, and a  *)
(* failed call leaves the models as it found them.                         *)
(***************************************************************************)
EXTENDS PluginLifecycle, WellFoundedInduction, TLAPS

Owners   == {"missing", "vllm", "ppu", "other"}
Children == Range(RegistryUnits)

TypeOK ==
  /\ stage \in Stages /\ step \in Nat /\ done \subseteq Units
  /\ flags \in [Flags -> BOOLEAN]
  /\ outcome \in {"none", "raised", "ok"}
  /\ began \in [Children -> Nat]
  /\ models \in [Archs -> Owners] /\ previous \in [Archs -> Owners]
  /\ found \in [Archs -> Owners]
  /\ failures \in 0 .. MaxFailures

\* Where a call stands, and what the flags say of the stages behind it.
CallInOrder ==
  /\ step > 0 => MayRun \/ stage = "models"
  /\ stage \in {"profiling", "models"} => flags["registered"]
  /\ flags["registries_applied"] => flags["registered"]
  /\ flags["registered"] => ~ flags["registration_error"]
  /\ flags["registration_error"] => outcome # "ok"

\* A registry child that began has ended, or is the one that runs, or failed.
ChildrenBeganOnce ==
  \A u \in Children :
    \/ began[u] = 0
    \/ /\ began[u] = 1
       /\ \/ u \in done \/ flags["registration_error"]
          \/ stage = "registry" /\ step > 0 /\ u = Current

CallInv == TypeOK /\ CallInOrder /\ ChildrenBeganOnce

--------------------------------------------------------------------------------
\* Until the plugin's models are all registered, the required entries are those
\* the call found, or they can be put back.
AllOurs   == \A a \in Range(Required) : models[a] = "ppu"
NoneOurs  == \A a \in Range(Required) : models[a] \in {found[a], "other"} \ {"ppu"}
AsFound   == \A a \in Range(Required) : models[a] = found[a] /\ found[a] # "ppu"

ModelsAllOrNone ==
  /\ flags["models_registered"] => AllOurs
  /\ flags["models_registered"] /\ stage = "models" => step = 0
  /\ ~ flags["models_registered"] =>
       /\ stage = "idle" => NoneOurs
       /\ stage # "idle" /\ (stage # "models" \/ step = 0) => AsFound
       /\ stage = "models" /\ step > 0 =>
            /\ \A a \in Range(Required) : previous[a] = found[a] /\ found[a] # "ppu"
            /\ \A i \in DOMAIN Required : i < step => models[Required[i]] = "ppu"

--------------------------------------------------------------------------------
\* A provider is replaced once, and its marker leads back to what vLLM, or
\* another plugin, had put there.
ProvidersReplacedOnce ==
  \A p \in Providers :
    /\ pristine[p] \in Attributes /\ pristine[p].impl \notin Replacements
    /\ attr[p] \in Attributes
    /\ \/ attr[p] = pristine[p]
       \/ attr[p].impl \in Replacements /\ mark[attr[p].impl][p] = pristine[p]

\* An alias holds what it copied when it was loaded, or what its provider holds.
AliasesFollow ==
  \A s \in Slots : IsAlias(s) =>
    attr[s] \in {Unloaded, pristine[s], pristine[Source[s]], attr[Source[s]]}

HeapShape == /\ attr \in [Slots -> Attributes \cup {Missing, Unloaded}]
             /\ mark \in [Replacements -> [Slots -> Attributes \cup {Missing, Unset}]]
             /\ \A s \in Slots : attr[s] = Unloaded => IsAlias(s)

\* Step k of unit u is in effect.
StepInEffect(u, k) ==
  LET s == Steps[u][k].slot IN
  CASE Steps[u][k].op = "patch"  -> attr[s].impl \in Replacements
    [] Steps[u][k].op = "value"  -> attr[s] = Value(TheValue)
    [] Steps[u][k].op = "rebind" -> /\ attr[Source[s]].impl \in Replacements
                                    /\ \/ attr[s] \in {Unloaded, Replacement(s)}
                                       \/ LeftBehind(u, s)

UnitsInEffect ==
  /\ \A u \in done : \A k \in DOMAIN Steps[u] : StepInEffect(u, k)
  /\ MayRun => \A k \in 1 .. step - 1 : /\ k \in DOMAIN Steps[Current]
                                          /\ StepInEffect(Current, k)
  /\ flags["patches_applied"] => Range(PatchUnits) \subseteq done
  /\ flags["registered"] => Children \subseteq done

SlotsInv == HeapShape /\ ProvidersReplacedOnce /\ AliasesFollow
HeapInv  == SlotsInv /\ UnitsInEffect

--------------------------------------------------------------------------------
(* The unit that is run.                                                       *)

\* Every set of naturals that has an element has a least one, which is its Min.
LEMMA MinIsLeast ==
  ASSUME NEW T, T \subseteq Nat, T # {}
  PROVE  Min(T) \in T
<1>1. PICK x \in T : \A y \in T : ~ (<< y, x >> \in OpToRel(<, Nat))
  BY NatLessThanWellFounded, WFMin
<1>2. ASSUME NEW m \in T PROVE x <= m
  <2>1. x \in Nat /\ m \in Nat
    OBVIOUS
  <2>2. ~ (<< m, x >> \in {ss \in Nat \X Nat : ss[1] < ss[2]})
    BY <1>1 DEF OpToRel
  <2>3. ~ (m < x)
    BY <2>1, <2>2
  <2>4. QED
    BY <2>3, <2>1
<1>3. \E n \in T : \A m \in T : n <= m
  BY <1>2
<1>4. QED
  BY <1>3 DEF Min

Working == {"patch", "registry", "profiling"}

LEMMA NoUnitsOutside ==
  ASSUME NEW st, st \notin Working
  PROVE  Pending(st) = {}
<1>1. UnitsOf(st) = << >>
  BY DEF UnitsOf, Working
<1>2. QED
  BY <1>1 DEF Pending

LEMMA UnitsAreKnown ==
  ASSUME NEW st \in Working
  PROVE  /\ UnitsOf(st) \in Seq(Units)
         /\ DOMAIN UnitsOf(st) \subseteq Nat
         /\ \A i \in DOMAIN UnitsOf(st) : /\ UnitsOf(st)[i] \in Units
                                          /\ UnitsOf(st)[i] \in Children <=> st = "registry"
<1>1. /\ st = "patch" => UnitsOf(st) = PatchUnits
      /\ st = "registry" => UnitsOf(st) = RegistryUnits
      /\ st = "profiling" => UnitsOf(st) = ProfilingUnits
  BY DEF UnitsOf
<1>2. UnitsOf(st) \in Seq(Units)
  BY <1>1, UnitAssumption DEF Working
<1>3. DOMAIN UnitsOf(st) \subseteq Nat /\ \A i \in DOMAIN UnitsOf(st) : UnitsOf(st)[i] \in Units
  BY <1>2
<1>4. ASSUME NEW i \in DOMAIN UnitsOf(st)
      PROVE  UnitsOf(st)[i] \in Children <=> st = "registry"
  BY <1>1, UnitAssumption DEF Working, Children, Range
<1>5. QED
  BY <1>2, <1>3, <1>4

\* The unit that is run is one of its stage that has not ended.
LEMMA CurrentIsPending ==
  ASSUME Pending(stage) # {}
  PROVE  /\ stage \in Working /\ Current \in Units /\ Current \notin done
         /\ Current \in Children <=> stage = "registry"
<1>1. stage \in Working
  BY NoUnitsOutside
<1>2. Min(Pending(stage)) \in Pending(stage)
  BY <1>1, UnitsAreKnown, MinIsLeast DEF Pending
<1>3. QED
  BY <1>1, <1>2, UnitsAreKnown DEF Current, Pending

LEMMA SameUnit ==
  ASSUME UNCHANGED << stage, done >>
  PROVE  Pending(stage)' = Pending(stage) /\ Current' = Current
<1>1. Pending(stage)' = Pending(stage)
  BY DEF Pending, UnitsOf
<1>2. QED
  BY <1>1 DEF Current, UnitsOf

\* No unit is pending once all of a stage have ended.
LEMMA NonePending ==
  /\ Pending("patch") = {} <=> Range(PatchUnits) \subseteq done
  /\ Pending("registry") = {} <=> Children \subseteq done
<1>1. UnitsOf("patch") = PatchUnits /\ UnitsOf("registry") = RegistryUnits
  BY DEF UnitsOf
<1>2. QED
  BY <1>1 DEF Pending, Range, Children

--------------------------------------------------------------------------------
(* Calls and registry children.                                                *)

LEMMA InitCall == LInit => CallInv
<1> SUFFICES ASSUME LInit PROVE CallInv
  OBVIOUS
<1>1. TypeOK
  <2>1. models \in [Archs -> Owners]
    BY DEF LInit, Owners
  <2>2. QED
    BY <2>1, UnitAssumption DEF LInit, TypeOK, Stages, Children
<1>2. CallInOrder /\ ChildrenBeganOnce
  BY DEF LInit, CallInOrder, ChildrenBeganOnce, Children, Flags
<1>3. QED
  BY <1>1, <1>2 DEF CallInv

\* The steps of the units.
LEMMA UnitSteps ==
  ASSUME CallInv, BeginUnit \/ RunStep \/ EndUnit
  PROVE  CallInv'
<1> USE DEF CallInv
<1>1. /\ MayRun /\ UNCHANGED << stage, flags, models, previous, outcome, found, failures >>
  BY DEF BeginUnit, RunStep, EndUnit, model, history
<1>2. Pending(stage) # {} /\ (stage = "registry" => ~ flags["registered"] /\ ~ flags["registration_error"])
  BY <1>1 DEF MayRun
<1>3. stage \in Working /\ Current \in Units /\ Current \notin done
      /\ (Current \in Children <=> stage = "registry")
  BY <1>2, CurrentIsPending
<1>4. step \in Nat /\ began \in [Children -> Nat]
  BY DEF TypeOK
<1>5. CASE BeginUnit
  <2>1. /\ step = 0 /\ step' = 1 /\ done' = done
        /\ began' = [u \in Children |-> began[u] + IF u = Current THEN 1 ELSE 0]
    BY <1>5 DEF BeginUnit, Children
  <2>2. MayRun' /\ Current' = Current
    BY <1>1, <2>1, SameUnit DEF MayRun
  <2>3. TypeOK'
    BY <1>1, <1>4, <2>1 DEF TypeOK
  <2>4. CallInOrder'
    BY <1>1, <2>2 DEF CallInOrder
  <2>5. ChildrenBeganOnce'
    <3> SUFFICES ASSUME NEW u \in Children
                 PROVE  \/ began'[u] = 0
                        \/ /\ began'[u] = 1
                           /\ \/ u \in done \/ flags["registration_error"]
                              \/ stage = "registry" /\ step' > 0 /\ u = Current
      BY <1>1, <2>1, <2>2 DEF ChildrenBeganOnce
    <3>1. CASE u = Current
      <4>1. began[u] = 0
        BY <1>2, <1>3, <2>1, <3>1 DEF ChildrenBeganOnce
      <4>2. QED
        BY <1>3, <2>1, <3>1, <4>1
    <3>2. CASE u # Current
      BY <1>4, <2>1, <3>2 DEF ChildrenBeganOnce
    <3>3. QED
      BY <3>1, <3>2
  <2>6. QED
    BY <2>3, <2>4, <2>5
<1>6. CASE RunStep
  <2>1. step > 0 /\ step' = step + 1 /\ done' = done /\ began' = began
    BY <1>4, <1>6 DEF RunStep, history
  <2>2. MayRun' /\ Current' = Current
    BY <1>1, <2>1, SameUnit DEF MayRun
  <2>3. TypeOK'
    BY <1>1, <1>4, <2>1 DEF TypeOK
  <2>4. CallInOrder' /\ ChildrenBeganOnce'
    BY <1>1, <1>4, <2>1, <2>2 DEF CallInOrder, ChildrenBeganOnce
  <2>5. QED
    BY <2>3, <2>4
<1>7. CASE EndUnit
  <2>1. step' = 0 /\ done' = done \cup {Current} /\ began' = began
    BY <1>7 DEF EndUnit, history
  <2>2. TypeOK'
    BY <1>1, <1>3, <2>1 DEF TypeOK
  <2>3. CallInOrder' /\ ChildrenBeganOnce'
    BY <1>1, <1>3, <2>1 DEF CallInOrder, ChildrenBeganOnce
  <2>4. QED
    BY <2>2, <2>3
<1>8. QED
  BY <1>5, <1>6, <1>7

\* An exception in a unit.
LEMMA UnitRaises ==
  ASSUME CallInv, StepRaises \/ UnitFails
  PROVE  CallInv'
<1> USE DEF CallInv
<1>1. /\ MayRun /\ Raise /\ step > 0
      /\ UNCHANGED << done, models, previous, began, found >>
      /\ failures' \in 0 .. MaxFailures
  BY UnitAssumption DEF StepRaises, UnitFails, model, TypeOK
<1>2. stage = "registry" => ~ flags["registered"] /\ ~ flags["registration_error"]
  BY <1>1 DEF MayRun
<1>3. flags \in [Flags -> BOOLEAN] /\ step' = 0
  BY <1>1 DEF TypeOK, Raise
<1>4. CASE stage = "patch"
  <2>1. stage' = "idle" /\ outcome' = "raised" /\ flags' = flags
    BY <1>1, <1>4 DEF Raise, EndCall
  <2>2. TypeOK'
    BY <1>1, <1>3, <2>1 DEF TypeOK, Stages
  <2>3. CallInOrder' /\ ChildrenBeganOnce'
    BY <1>1, <1>3, <1>4, <2>1 DEF CallInOrder, ChildrenBeganOnce
  <2>4. QED
    BY <2>2, <2>3
<1>5. CASE stage = "registry"
  <2>1. /\ stage' = "idle" /\ outcome' = "raised"
        /\ flags' = [flags EXCEPT !["registration_error"] = TRUE]
    BY <1>1, <1>5 DEF Raise, EndCall
  <2>2. /\ flags' \in [Flags -> BOOLEAN] /\ flags'["registration_error"]
        /\ ~ flags'["registered"] /\ ~ flags'["registries_applied"]
    BY <1>2, <1>3, <1>5, <2>1 DEF Flags, CallInOrder
  <2>3. TypeOK'
    BY <1>1, <1>3, <2>1, <2>2 DEF TypeOK, Stages
  <2>4. CallInOrder' /\ ChildrenBeganOnce'
    BY <1>1, <1>3, <1>5, <2>1, <2>2 DEF CallInOrder, ChildrenBeganOnce
  <2>5. QED
    BY <2>3, <2>4
<1>6. CASE stage = "profiling"
  <2>1. /\ stage' = "models" /\ outcome' = outcome
        /\ flags' = [flags EXCEPT !["profiling_disabled"] = TRUE,
                                  !["registries_applied"] = TRUE]
    BY <1>1, <1>6 DEF Raise
  <2>2. /\ flags' \in [Flags -> BOOLEAN] /\ flags'["registered"] = flags["registered"]
        /\ flags'["registration_error"] = flags["registration_error"]
    BY <1>3, <2>1 DEF Flags
  <2>3. TypeOK'
    BY <1>1, <1>3, <2>1, <2>2 DEF TypeOK, Stages
  <2>4. CallInOrder' /\ ChildrenBeganOnce'
    BY <1>1, <1>3, <1>6, <2>1, <2>2 DEF CallInOrder, ChildrenBeganOnce
  <2>5. QED
    BY <2>3, <2>4
<1>7. QED
  BY <1>1, <1>4, <1>5, <1>6 DEF Raise

\* The stages between the units: nothing runs, so no step is under way.
StageSteps == \/ Call \/ CompatPasses \/ CompatFails \/ PatchesDone \/ ImportFails
              \/ RegistryRefuses \/ RegistryDone \/ ProfilingDone

LEMMA StageStepsAreBetweenUnits ==
  ASSUME CallInv, StageSteps
  PROVE  /\ step = 0 /\ step' = 0
         /\ UNCHANGED << pristine, heap, done, models, previous, began >>
         /\ stage' # stage
         /\ failures' \in 0 .. MaxFailures
<1> USE DEF CallInv
<1>1. step' = step /\ UNCHANGED << pristine, heap, done, models, previous, began >> /\ stage' # stage
  BY DEF StageSteps, Call, CompatPasses, CompatFails, PatchesDone, ImportFails, RegistryRefuses,
         RegistryDone, ProfilingDone, EndCall, StageAfter, model, history
<1>2. step = 0
  <2>1. stage \notin Working => ~ MayRun
    BY NoUnitsOutside DEF MayRun
  <2>2. CASE Call \/ CompatPasses \/ CompatFails
    BY <2>1, <2>2 DEF Call, CompatPasses, CompatFails, CallInOrder, TypeOK, Working
  <2>3. CASE PatchesDone
    BY <2>3 DEF PatchesDone, CallInOrder, TypeOK, MayRun
  <2>4. CASE ImportFails \/ ProfilingDone
    BY <2>4 DEF ImportFails, ProfilingDone
  <2>5. CASE RegistryRefuses \/ RegistryDone
    BY <2>5 DEF RegistryRefuses, RegistryDone, CallInOrder, TypeOK, MayRun
  <2>6. QED
    BY <2>2, <2>3, <2>4, <2>5 DEF StageSteps
<1>3. failures' \in 0 .. MaxFailures
  BY UnitAssumption DEF StageSteps, Call, CompatPasses, CompatFails, PatchesDone, ImportFails,
     RegistryRefuses, RegistryDone, ProfilingDone, TypeOK
<1>4. QED
  BY <1>1, <1>2, <1>3

LEMMA StageStepsKeepCall ==
  ASSUME CallInv, StageSteps
  PROVE  CallInv'
<1> USE DEF CallInv
<1>1. /\ step = 0 /\ step' = 0 /\ UNCHANGED << done, models, previous, began >>
      /\ failures' \in 0 .. MaxFailures
  BY StageStepsAreBetweenUnits
<1>2. flags \in [Flags -> BOOLEAN]
  BY DEF TypeOK
<1>3. /\ stage' \in Stages /\ outcome' \in {outcome, "raised"}
      /\ found' \in [Archs -> Owners]
  BY DEF StageSteps, Call, CompatPasses, CompatFails, PatchesDone, ImportFails, RegistryRefuses,
         RegistryDone, ProfilingDone, EndCall, StageAfter, history, TypeOK, Stages
<1>4. /\ flags' \in [Flags -> BOOLEAN]
      /\ flags'["registration_error"] = flags["registration_error"]
      /\ stage' \in {"profiling", "models"} => flags'["registered"]
      /\ flags'["registries_applied"] => flags'["registered"]
      /\ flags'["registered"] => ~ flags["registration_error"]
  <2>1. CASE Call \/ CompatFails \/ ImportFails \/ RegistryRefuses
    <3>1. UNCHANGED flags /\ stage' \notin {"profiling", "models"}
      BY <2>1 DEF Call, CompatFails, ImportFails, RegistryRefuses, EndCall
    <3>2. QED
      BY <1>2, <2>1, <3>1 DEF CallInOrder
  <2>2. CASE CompatPasses
    <3>1. /\ flags' = [flags EXCEPT !["checked"] = TRUE]
          /\ stage' \in {"profiling", "models"} => flags["registries_applied"]
      BY <2>2 DEF CompatPasses, StageAfter
    <3>2. QED
      BY <1>2, <3>1 DEF CallInOrder, Flags
  <2>3. CASE PatchesDone
    <3>1. /\ flags' = [flags EXCEPT !["patches_applied"] = TRUE]
          /\ stage' \in {"profiling", "models"} => flags["registries_applied"]
      BY <2>3 DEF PatchesDone, StageAfter
    <3>2. QED
      BY <1>2, <3>1 DEF CallInOrder, Flags
  <2>4. CASE RegistryDone
    BY <1>2, <2>4 DEF RegistryDone, CallInOrder, Flags
  <2>5. CASE ProfilingDone
    BY <1>2, <2>5 DEF ProfilingDone, CallInOrder, Flags
  <2>6. QED
    BY <2>1, <2>2, <2>3, <2>4, <2>5
       DEF StageSteps
<1>5. TypeOK'
  BY <1>1, <1>3, <1>4 DEF TypeOK
<1>6. CallInOrder'
  BY <1>1, <1>3, <1>4 DEF CallInOrder
<1>7. ChildrenBeganOnce'
  BY <1>1, <1>4 DEF ChildrenBeganOnce
<1>8. QED
  BY <1>5, <1>6, <1>7

\* The registration of the models.
ModelSteps == Snapshot \/ RegisterRequired \/ RequiredFails \/ RegisterOptional \/ ModelsDone

LEMMA ModelStepsKeepCall ==
  ASSUME CallInv, ModelSteps
  PROVE  CallInv'
<1> USE DEF CallInv
<1>1. stage = "models" /\ UNCHANGED << pristine, heap, done, began, found >>
  BY DEF ModelSteps, Snapshot, RegisterRequired, RequiredFails, RegisterOptional, ModelsDone, history, model
<1>2. /\ models \in [Archs -> Owners] /\ previous \in [Archs -> Owners]
      /\ flags \in [Flags -> BOOLEAN] /\ step \in Nat
  BY DEF TypeOK
<1>3. models' \in [Archs -> Owners] /\ previous' \in [Archs -> Owners]
  BY <1>2 DEF ModelSteps, Snapshot, RegisterRequired, RequiredFails, RegisterOptional, ModelsDone,
     model, Owners
<1>4. /\ step' \in Nat /\ (step' > 0 => stage' = "models")
      /\ stage' \in {"idle", "models"}
      /\ failures' \in 0 .. MaxFailures
  BY <1>1, <1>2, UnitAssumption
     DEF ModelSteps, Snapshot, RegisterRequired, RequiredFails, RegisterOptional, ModelsDone,
         EndCall, history, TypeOK
<1>5. /\ flags' \in [Flags -> BOOLEAN]
      /\ \A f \in Flags \ {"models_registered"} : flags'[f] = flags[f]
      /\ outcome' \in {outcome, "raised", "ok"}
  BY <1>2 DEF ModelSteps, Snapshot, RegisterRequired, RequiredFails, RegisterOptional, ModelsDone,
     EndCall, history, Flags
<1>6. flags["registered"] /\ ~ flags["registration_error"]
  BY <1>1 DEF CallInOrder
<1>7. TypeOK'
  BY <1>1, <1>3, <1>4, <1>5 DEF TypeOK, Stages
<1>8. CallInOrder'
  BY <1>4, <1>5, <1>6 DEF CallInOrder, Flags
<1>9. ChildrenBeganOnce'
  BY <1>1, <1>5 DEF ChildrenBeganOnce, Flags
<1>10. QED
  BY <1>7, <1>8, <1>9

LEMMA OthersKeepCall ==
  ASSUME CallInv, LoadModule \/ OtherRegisters \/ UNCHANGED lvars
  PROVE  CallInv'
<1> USE DEF CallInv
<1>1. UNCHANGED << stage, step, done, flags, previous, outcome, began, found, failures >>
  BY DEF LoadModule, OtherRegisters, lvars, model, history
<1>2. models' \in [Archs -> Owners]
  BY UnitAssumption DEF LoadModule, OtherRegisters, lvars, model, TypeOK, Owners
<1>3. MayRun' = MayRun /\ Current' = Current
  BY <1>1, SameUnit DEF MayRun
<1>4. TypeOK'
  BY <1>1, <1>2 DEF TypeOK
<1>5. CallInOrder' /\ ChildrenBeganOnce'
  BY <1>1, <1>3 DEF CallInOrder, ChildrenBeganOnce
<1>6. QED
  BY <1>4, <1>5

LEMMA NextCall == CallInv /\ [LNext]_lvars => CallInv'
BY UnitSteps, UnitRaises, StageStepsKeepCall, ModelStepsKeepCall, OthersKeepCall
   DEF LNext, Progress, Failure, StageSteps, ModelSteps

\* The inductive invariant of the calls and the registry (vllm_sail.register_out_of_tree
\* and registry.register): where a call stands agrees with what the flags remember.
THEOREM CallsInOrder == LSpec => []CallInv
BY InitCall, NextCall, PTL DEF LSpec

\* The body of a registry child runs at most once in a process, and none runs after a
\* failure (registry.register keeps _registration_error).
THEOREM RegistryAlwaysRunsOnce == LSpec => []RegistryRunsOnce
<1>1. CallInv => RegistryRunsOnce
  BY DEF CallInv, CallInOrder, ChildrenBeganOnce, RegistryRunsOnce, Children
<1>2. QED
  BY <1>1, CallsInOrder, PTL

--------------------------------------------------------------------------------
(* The models.                                                                 *)

LEMMA InitModels == LInit => ModelsAllOrNone
<1> SUFFICES ASSUME LInit PROVE ModelsAllOrNone
  OBVIOUS
<1>1. /\ ~ flags["models_registered"] /\ stage = "idle" /\ found = models
      /\ \A a \in Archs : models[a] # "ppu"
  BY DEF LInit, Flags
<1>2. Range(Required) \subseteq Archs
  BY DEF Archs
<1>3. QED
  BY <1>1, <1>2 DEF ModelsAllOrNone, NoneOurs

LEMMA RequiredAt ==
  /\ Range(Required) \subseteq Archs
  /\ \A i \in DOMAIN Required : Required[i] \in Range(Required)
  /\ DOMAIN Required = 1 .. Len(Required) /\ Len(Required) \in Nat
  /\ \A i \in 1 .. Len(Optional) : Optional[i] \in Archs
  /\ Len(Optional) \in Nat
<1>1. Required \in Seq(Archs) /\ Optional \in Seq(Archs)
  BY UnitAssumption
<1>2. QED
  BY <1>1 DEF Archs, Range

\* The units and the stages before the models leave the entries alone.
LEMMA UnitsKeepModels ==
  ASSUME CallInv, ModelsAllOrNone,
         BeginUnit \/ RunStep \/ EndUnit \/ StepRaises \/ UnitFails
  PROVE  ModelsAllOrNone'
<1>1. /\ MayRun /\ UNCHANGED << models, previous, found >>
      /\ flags'["models_registered"] = flags["models_registered"]
      /\ stage' \in {stage, "idle", "models"} /\ (stage' = "models" => step' = 0)
  <2>1. MayRun /\ UNCHANGED << models, previous, found >>
    BY DEF BeginUnit, RunStep, EndUnit, StepRaises, UnitFails, model, history
  <2>2. stage \in Working
    BY <2>1, CurrentIsPending DEF MayRun
  <2>3. flags \in [Flags -> BOOLEAN]
    BY DEF CallInv, TypeOK
  <2>4. CASE BeginUnit \/ RunStep \/ EndUnit
    BY <2>1, <2>2, <2>4 DEF BeginUnit, RunStep, EndUnit, Working
  <2>5. CASE StepRaises \/ UnitFails
    <3>1. Raise
      BY <2>5 DEF StepRaises, UnitFails
    <3>2. QED
      BY <2>1, <2>2, <2>3, <3>1 DEF Raise, EndCall, Flags, Working
  <2>6. QED
    BY <2>4, <2>5
<1>2. stage \in Working
  BY <1>1, CurrentIsPending DEF MayRun
<1>3. AsFound => NoneOurs
  BY DEF AsFound, NoneOurs
<1>4. AsFound' = AsFound /\ NoneOurs' = NoneOurs /\ AllOurs' = AllOurs
  BY <1>1 DEF AsFound, NoneOurs, AllOurs
<1>5. ~ flags["models_registered"] => AsFound
  BY <1>2 DEF ModelsAllOrNone, Working
<1>6. CASE flags["models_registered"]
  BY <1>1, <1>2, <1>4, <1>6 DEF ModelsAllOrNone, Working
<1>7. CASE ~ flags["models_registered"]
  <2>1. ~ flags'["models_registered"] /\ AsFound' /\ NoneOurs'
    BY <1>1, <1>3, <1>4, <1>5, <1>7
  <2>2. stage' = "models" /\ step' > 0 => FALSE
    BY <1>1, <1>2 DEF Working
  <2>3. QED
    BY <2>1, <2>2 DEF ModelsAllOrNone
<1>8. QED
  BY <1>6, <1>7

LEMMA StageStepsKeepModels ==
  ASSUME CallInv, ModelsAllOrNone, StageSteps
  PROVE  ModelsAllOrNone'
<1>1. /\ step = 0 /\ step' = 0 /\ UNCHANGED << models, previous >>
  BY StageStepsAreBetweenUnits
<1>2. flags'["models_registered"] = flags["models_registered"]
  <2>1. flags \in [Flags -> BOOLEAN]
    BY DEF CallInv, TypeOK
  <2>2. QED
    BY <2>1 DEF StageSteps, Call, CompatPasses, CompatFails, PatchesDone, ImportFails,
       RegistryRefuses, RegistryDone, ProfilingDone, Flags, history
<1>3. AllOurs' = AllOurs
  BY <1>1 DEF AllOurs
<1>4. CASE flags["models_registered"]
  BY <1>1, <1>2, <1>3, <1>4 DEF ModelsAllOrNone
<1>5. CASE ~ flags["models_registered"] /\ Call
  <2>1. NoneOurs /\ found' = models /\ stage' = "compat"
    BY <1>5 DEF ModelsAllOrNone, Call
  <2>2. AsFound'
    BY <1>1, <2>1 DEF NoneOurs, AsFound
  <2>3. QED
    BY <1>1, <1>2, <1>5, <2>1, <2>2 DEF ModelsAllOrNone
<1>6. CASE ~ flags["models_registered"] /\ ~ Call
  <2>1. stage # "idle" /\ found' = found
    BY <1>6 DEF StageSteps, CompatPasses, CompatFails, PatchesDone, ImportFails, RegistryRefuses,
       RegistryDone, ProfilingDone, history
  <2>2. AsFound'
    <3>1. AsFound
      BY <1>1, <1>6, <2>1 DEF ModelsAllOrNone
    <3>2. QED
      BY <1>1, <2>1, <3>1 DEF AsFound
  <2>3. NoneOurs'
    BY <2>2 DEF AsFound, NoneOurs
  <2>4. QED
    BY <1>1, <1>2, <1>6, <2>2, <2>3 DEF ModelsAllOrNone
<1>7. QED
  BY <1>4, <1>5, <1>6

LEMMA ModelStepsKeepModels ==
  ASSUME CallInv, ModelsAllOrNone, ModelSteps
  PROVE  ModelsAllOrNone'
<1>1. stage = "models" /\ found' = found
  BY DEF ModelSteps, Snapshot, RegisterRequired, RequiredFails, RegisterOptional, ModelsDone, history
<1>2. /\ models \in [Archs -> Owners] /\ flags \in [Flags -> BOOLEAN] /\ step \in Nat
  BY DEF CallInv, TypeOK
<1>3. CASE Snapshot
  <2>1. /\ ~ flags["models_registered"] /\ step = 0 /\ step' = 1 /\ previous' = models
        /\ UNCHANGED << stage, flags, models >>
    BY <1>3 DEF Snapshot, history
  <2>2. AsFound
    BY <1>1, <2>1 DEF ModelsAllOrNone
  <2>3. \A i \in DOMAIN Required : ~ (i < 1)
    BY RequiredAt
  <2>4. QED
    BY <1>1, <2>1, <2>2, <2>3 DEF ModelsAllOrNone, AsFound
<1>4. CASE RegisterRequired
  <2>1. /\ step \in 1 .. Len(Required) /\ step' = step + 1
        /\ models' = [models EXCEPT ![Required[step]] = "ppu"]
        /\ UNCHANGED << stage, flags, previous >>
    BY <1>4 DEF RegisterRequired, history
  <2>2. step > 0 /\ ~ flags["models_registered"] /\ step' > 0
    BY <1>1, <1>2, <2>1 DEF ModelsAllOrNone
  <2>3. \A i \in DOMAIN Required : i < step => models[Required[i]] = "ppu"
    BY <1>1, <2>2 DEF ModelsAllOrNone
  <2>4. \A a \in Archs : models'[a] = IF a = Required[step] THEN "ppu" ELSE models[a]
    BY <1>2, <2>1
  <2>5. ASSUME NEW i \in DOMAIN Required, i < step'
        PROVE  models'[Required[i]] = "ppu"
    <3>1. i < step \/ i = step
      BY <2>1, <2>5, RequiredAt
    <3>2. QED
      BY <2>3, <2>4, <3>1, RequiredAt
  <2>6. QED
    BY <1>1, <2>1, <2>2, <2>5 DEF ModelsAllOrNone
<1>5. CASE RequiredFails
  <2>1. /\ step \in 1 .. Len(Required) /\ stage' = "idle" /\ flags' = flags
        /\ models' = [a \in Archs |-> IF a \in Range(Required) THEN previous[a] ELSE models[a]]
    BY <1>5 DEF RequiredFails, EndCall
  <2>2. ~ flags["models_registered"] /\ step > 0
    BY <1>1, <1>2, <2>1 DEF ModelsAllOrNone
  <2>3. \A a \in Range(Required) : previous[a] = found[a] /\ found[a] # "ppu"
    BY <1>1, <2>2 DEF ModelsAllOrNone
  <2>4. NoneOurs'
    BY <1>1, <2>1, <2>3, RequiredAt DEF NoneOurs
  <2>5. QED
    BY <2>1, <2>2, <2>4 DEF ModelsAllOrNone
<1>6. CASE RegisterOptional
  <2>1. /\ step - Len(Required) \in 1 .. Len(Optional) /\ step' = step + 1
        /\ UNCHANGED << stage, flags, previous >>
        /\ \A a \in Archs : models'[a] \in {models[a], "ppu"}
    BY <1>2, <1>6, RequiredAt DEF RegisterOptional, history
  <2>2. step > 0 /\ step' > 0 /\ step > Len(Required)
    BY <1>2, <2>1, RequiredAt
  <2>3. ~ flags["models_registered"]
    BY <1>1, <1>2, <2>2 DEF ModelsAllOrNone
  <2>4. \A i \in DOMAIN Required : models'[Required[i]] = "ppu"
    <3>1. \A i \in DOMAIN Required : i < step
      BY <1>2, <2>2, RequiredAt
    <3>2. \A i \in DOMAIN Required : models[Required[i]] = "ppu"
      BY <1>1, <2>2, <2>3, <3>1 DEF ModelsAllOrNone
    <3>3. QED
      BY <2>1, <3>2, RequiredAt
  <2>5. QED
    BY <1>1, <2>1, <2>2, <2>3, <2>4 DEF ModelsAllOrNone
<1>7. CASE ModelsDone
  <2>1. /\ flags' = [flags EXCEPT !["models_registered"] = TRUE]
        /\ stage' = "idle" /\ models' = models
        /\ flags["models_registered"] \/ step = Len(Required) + Len(Optional) + 1
    BY <1>7 DEF ModelsDone, EndCall, model
  <2>2. flags'["models_registered"]
    BY <1>2, <2>1 DEF Flags
  <2>3. AllOurs
    <3>1. CASE flags["models_registered"]
      BY <3>1 DEF ModelsAllOrNone
    <3>2. CASE ~ flags["models_registered"]
      <4>1. step > 0 /\ \A i \in DOMAIN Required : i < step
        BY <2>1, <3>2, RequiredAt
      <4>2. \A i \in DOMAIN Required : models[Required[i]] = "ppu"
        BY <1>1, <3>2, <4>1 DEF ModelsAllOrNone
      <4>3. QED
        BY <4>2 DEF AllOurs, Range
    <3>3. QED
      BY <3>1, <3>2
  <2>4. QED
    BY <2>1, <2>2, <2>3 DEF ModelsAllOrNone, AllOurs
<1>8. QED
  BY <1>3, <1>4, <1>5, <1>6, <1>7 DEF ModelSteps

LEMMA OthersKeepModels ==
  ASSUME CallInv, ModelsAllOrNone, LoadModule \/ OtherRegisters \/ UNCHANGED lvars
  PROVE  ModelsAllOrNone'
<1>1. CASE LoadModule \/ UNCHANGED lvars
  <2>1. UNCHANGED << stage, step, flags, models, previous, found >>
    BY <1>1 DEF LoadModule, lvars, model, history
  <2>2. QED
    BY <2>1 DEF ModelsAllOrNone, AllOurs, NoneOurs, AsFound
<1>2. CASE OtherRegisters
  <2>1. /\ stage = "idle" /\ ~ flags["models_registered"]
        /\ UNCHANGED << stage, step, flags, found >>
        /\ \A a \in Archs : models'[a] \in {models[a], "other"}
    BY <1>2 DEF OtherRegisters, history, CallInv, TypeOK
  <2>2. NoneOurs
    BY <2>1 DEF ModelsAllOrNone
  <2>3. NoneOurs'
    BY <2>1, <2>2, RequiredAt DEF NoneOurs
  <2>4. QED
    BY <2>1, <2>3 DEF ModelsAllOrNone
<1>3. QED
  BY <1>1, <1>2

\* The required entries of ModelRegistry are the plugin's all together, or as the
\* call found them, between any two steps of models.register_model.
THEOREM ModelsStayTogether == LSpec => []ModelsAllOrNone
<1>1. CallInv /\ ModelsAllOrNone /\ [LNext]_lvars => ModelsAllOrNone'
  BY UnitsKeepModels, StageStepsKeepModels, ModelStepsKeepModels, OthersKeepModels
     DEF LNext, Progress, Failure, StageSteps, ModelSteps
<1>2. QED
  BY <1>1, InitModels, CallsInOrder, PTL DEF LSpec

\* A call that failed, wherever it failed, left the required models as it found them
\* (models.register_model).
THEOREM FailedCallAlwaysKeepsModels == LSpec => []FailedCallKeepsModels
<1>1. ModelsAllOrNone => FailedCallKeepsModels
  BY DEF ModelsAllOrNone, FailedCallKeepsModels, AllOurs, NoneOurs
<1>2. QED
  BY <1>1, ModelsStayTogether, PTL

--------------------------------------------------------------------------------
(* The slots.                                                                  *)

LEMMA AliasShape ==
  ASSUME NEW s \in Slots, IsAlias(s)
  PROVE  /\ Source[s] \in Slots /\ Source[s] \in Providers /\ ~ IsAlias(Source[s])
         /\ Source[s] \notin ClassSlots \cup DataSlots
         /\ s \notin ClassSlots \cup DataSlots
BY SlotAssumption DEF Providers, IsAlias

LEMMA ProviderShape ==
  ASSUME NEW p \in Providers
  PROVE  p \in Slots /\ ~ IsAlias(p) /\ p \notin ClassSlots \cup DataSlots /\ Base[p] = NoSlot
<1>1. PICK s \in Slots : IsAlias(s) /\ p = Source[s]
  BY DEF Providers
<1>2. p \in Slots /\ ~ IsAlias(p) /\ p \notin ClassSlots \cup DataSlots
  BY <1>1, AliasShape
<1>3. QED
  BY <1>2, SlotAssumption

LEMMA StepShape ==
  ASSUME NEW u \in Units, NEW k \in DOMAIN Steps[u]
  PROVE  LET st == Steps[u][k] IN
         /\ st.slot \in Slots /\ st.additive \in BOOLEAN
         /\ st.op \in {"patch", "value", "rebind"}
         /\ st.op = "patch" => ~ IsAlias(st.slot) /\ st.slot \notin DataSlots
         /\ st.op = "value" => st.slot \in DataSlots
         /\ st.op = "rebind" =>
              /\ IsAlias(st.slot)
              /\ \E j \in 1 .. k - 1 : Steps[u][j].op = "patch"
                                       /\ Steps[u][j].slot = Source[st.slot]
<1> DEFINE StepRecords == [op : {"patch", "value", "rebind"}, slot : Slots, additive : BOOLEAN]
<1>1. Steps[u] \in Seq(StepRecords)
  BY UnitAssumption
<1>2. Steps[u][k] \in StepRecords
  <2> HIDE DEF StepRecords
  <2> QED BY <1>1
<1>3. QED
  BY <1>2, StepAssumption

LEMMA NewFunction ==
  ASSUME failures \in 0 .. MaxFailures, NEW s \in Slots
  PROVE  New(s) \in Attributes /\ New(s).impl \in Replacements
BY StepAssumption DEF New, Attributes, Kinds

LEMMA TheValueIsData ==
  Value(TheValue) \in Attributes /\ Value(TheValue) # Missing
<1>1. Value(TheValue) \in Attributes
  BY StepAssumption DEF Value, Attributes, Kinds
<1>2. QED
  BY <1>1, ObjectAssumption

\* What a step, or the loading of a module, does to the slots: it changes one of
\* them, and a provider only from what it was before the plugin.
SlotChange(s) ==
  /\ UNCHANGED pristine
  /\ \A t \in Slots \ {s} : attr'[t] = attr[t]
  /\ \/ attr'[s] = attr[s]
     \/ IsAlias(s) /\ attr'[s] = attr[Source[s]]
     \/ s \in DataSlots /\ attr'[s] = Value(TheValue)
     \/ /\ ~ IsAlias(s) /\ s \notin DataSlots
        /\ attr'[s].impl \in Replacements
        /\ s \in Providers => attr[s] = pristine[s]

\* A patch step changes its slot; what it replaces in a provider was never replaced.
LEMMA PatchInstalls ==
  ASSUME SlotsInv, UNCHANGED pristine, failures \in 0 .. MaxFailures,
         NEW s \in Slots, ~ IsAlias(s), s \notin DataSlots,
         NEW additive \in BOOLEAN, Install(s, New(s), additive)
  PROVE  SlotsInv' /\ SlotChange(s) /\ attr'[s].impl \in Replacements
<1> USE DEF SlotsInv
<1> DEFINE a == New(s)
           original == Original(s, additive)
           new == Build(s, original, a)
<1>1. a \in Attributes /\ a.impl \in Replacements
  BY NewFunction
<1>2. /\ attr \in [Slots -> Attributes \cup {Missing, Unloaded}]
      /\ mark \in [Replacements -> [Slots -> Attributes \cup {Missing, Unset}]]
  BY DEF HeapShape
<1>3. /\ ~ Refused(s, a, additive)
      /\ mark' = [mark EXCEPT ![a.impl][s] = original]
      /\ attr' = [attr EXCEPT ![s] = new]
  BY DEF Install
<1>4. original \in Attributes \cup {Missing}
  <2>1. attr[s] \in Attributes \cup {Missing}
    BY <1>2 DEF HeapShape
  <2>2. Base[s] # NoSlot => attr[Base[s]] \in Attributes \cup {Missing}
    BY <1>2, SlotAssumption DEF HeapShape
  <2>3. QED
    BY <2>1, <2>2 DEF Original, Static
<1>5. new \in Attributes /\ new.impl = a.impl
  <2>1. CASE original = Missing \/ s \notin ClassSlots
    BY <1>1, <2>1 DEF Build
  <2>2. CASE original # Missing /\ s \in ClassSlots
    <3>1. original \in Attributes
      BY <1>4, <2>2
    <3>2. new = [kind |-> original.kind, impl |-> a.impl, rest |-> original.rest]
      BY <2>2 DEF Build
    <3> HIDE DEF new, original, a
    <3>3. QED
      BY <1>1, <3>1, <3>2 DEF Attributes
  <2>3. QED
    BY <2>1, <2>2
<1> HIDE DEF new, a
<1>6. attr'[s] = new /\ \A t \in Slots \ {s} : attr'[t] = attr[t]
  BY <1>2, <1>3
<1>7. \A r \in Replacements, t \in Slots \ {s} : mark'[r][t] = mark[r][t]
  BY <1>1, <1>2, <1>3
<1>8. mark'[a.impl][s] = original
  BY <1>1, <1>2, <1>3
<1>9. s \in Providers => original = attr[s] /\ attr[s] = pristine[s]
  <2> SUFFICES ASSUME s \in Providers
               PROVE  original = attr[s] /\ attr[s] = pristine[s]
    OBVIOUS
  <2>1. attr[s] \in Attributes /\ Base[s] = NoSlot /\ attr[s] # Missing
    BY ProviderShape, ObjectAssumption DEF ProvidersReplacedOnce
  <2>2. original = attr[s]
    BY <2>1 DEF Original, Static
  <2>3. ~ Marked(attr[s].impl)
    BY <1>3, <2>1, <2>2 DEF Refused, AlreadyPatched
  <2>4. ~ (attr[s].impl \in Replacements /\ mark[attr[s].impl][s] = pristine[s])
    BY <2>3, ObjectAssumption DEF Marked, ProvidersReplacedOnce
  <2>5. QED
    BY <2>2, <2>4 DEF ProvidersReplacedOnce
<1> HIDE DEF original
<1>10. HeapShape'
  <2>1. attr' \in [Slots -> Attributes \cup {Missing, Unloaded}]
    BY <1>2, <1>3, <1>5
  <2>2. mark' \in [Replacements -> [Slots -> Attributes \cup {Missing, Unset}]]
    <3> DEFINE row == [mark[a.impl] EXCEPT ![s] = original]
    <3>1. row \in [Slots -> Attributes \cup {Missing, Unset}]
      BY <1>1, <1>2, <1>4
    <3>2. mark' = [mark EXCEPT ![a.impl] = row]
      BY <1>3
    <3> HIDE DEF row
    <3>3. QED
      BY <1>1, <1>2, <3>1, <3>2
  <2>3. \A t \in Slots : attr'[t] = Unloaded => IsAlias(t)
    BY <1>5, <1>6, ObjectAssumption DEF HeapShape
  <2>4. QED
    BY <2>1, <2>2, <2>3 DEF HeapShape
<1>11. ProvidersReplacedOnce'
  <2> SUFFICES ASSUME NEW p \in Providers
               PROVE  /\ pristine[p] \in Attributes /\ pristine[p].impl \notin Replacements
                      /\ attr'[p] \in Attributes
                      /\ \/ attr'[p] = pristine[p]
                         \/ attr'[p].impl \in Replacements /\ mark'[attr'[p].impl][p] = pristine[p]
    BY DEF ProvidersReplacedOnce, Providers
  <2>1. CASE p = s
    BY <1>1, <1>5, <1>6, <1>8, <1>9, <2>1 DEF ProvidersReplacedOnce
  <2>2. CASE p # s
    BY <1>6, <1>7, <2>2, ProviderShape DEF ProvidersReplacedOnce
  <2>3. QED
    BY <2>1, <2>2
<1>12. AliasesFollow'
  <2> SUFFICES ASSUME NEW t \in Slots, IsAlias(t)
               PROVE  attr'[t] \in {Unloaded, pristine[t], pristine[Source[t]], attr'[Source[t]]}
    BY DEF AliasesFollow
  <2>1. attr'[t] = attr[t] /\ Source[t] \in Slots /\ Source[t] \in Providers
    BY <1>6, AliasShape
  <2>2. attr'[Source[t]] = attr[Source[t]] \/ attr[Source[t]] = pristine[Source[t]]
    BY <1>6, <1>9, <2>1
  <2>3. attr[t] \in {Unloaded, pristine[t], pristine[Source[t]], attr[Source[t]]}
    BY DEF AliasesFollow
  <2>4. QED
    BY <2>1, <2>2, <2>3
<1>13. QED
  BY <1>1, <1>5, <1>6, <1>9, <1>10, <1>11, <1>12 DEF SlotChange

\* A slot of data is no provider and no alias, and inherits nothing.
LEMMA DataShape ==
  ASSUME NEW s \in DataSlots
  PROVE  s \in Slots /\ ~ IsAlias(s) /\ s \notin Providers /\ Base[s] = NoSlot
<1>1. s \in Slots /\ ~ IsAlias(s) /\ Base[s] = NoSlot
  BY SlotAssumption DEF IsAlias
<1>2. s \notin Providers
  BY ProviderShape
<1>3. QED
  BY <1>1, <1>2

\* A value step leaves its slot with the value, which the slot may have held before.
LEMMA ValueInstalls ==
  ASSUME SlotsInv, UNCHANGED pristine, NEW s \in DataSlots, InstallValue(s, TheValue)
  PROVE  SlotsInv' /\ SlotChange(s) /\ attr'[s] = Value(TheValue)
<1> USE DEF SlotsInv
<1>1. s \in Slots /\ ~ IsAlias(s) /\ s \notin Providers /\ Static(s) = attr[s]
  BY DataShape DEF Static
<1>2. attr \in [Slots -> Attributes \cup {Missing, Unloaded}]
  BY DEF HeapShape
<1>3. mark' = mark /\ attr' = [attr EXCEPT ![s] = Value(TheValue)]
  <2>1. CASE attr[s] = Missing
    BY <1>1, <2>1 DEF InstallValue
  <2>2. CASE attr[s] # Missing
    <3>1. attr[s] = Value(TheValue) /\ attr' = attr /\ mark' = mark
      BY <1>1, <2>2 DEF InstallValue, ValueRefused
    <3>2. QED
      BY <1>1, <1>2, <3>1
  <2>3. QED
    BY <2>1, <2>2
<1>4. attr'[s] = Value(TheValue) /\ \A t \in Slots \ {s} : attr'[t] = attr[t]
  BY <1>1, <1>2, <1>3
<1>5. HeapShape'
  BY <1>1, <1>2, <1>3, <1>4, TheValueIsData, ObjectAssumption DEF HeapShape
<1>6. ProvidersReplacedOnce'
  BY <1>1, <1>3, <1>4, ProviderShape DEF ProvidersReplacedOnce, Providers
<1>7. AliasesFollow'
  BY <1>1, <1>4, AliasShape DEF AliasesFollow
<1>8. QED
  BY <1>1, <1>4, <1>5, <1>6, <1>7 DEF SlotChange

\* What an alias holds is changed by its rebinding, and by the loading of its
\* module, only to what its provider holds; markers of providers are left alone.
LEMMA AliasFollows ==
  ASSUME SlotsInv, UNCHANGED pristine, NEW s \in Slots, IsAlias(s),
         attr' = [attr EXCEPT ![s] = attr[Source[s]]],
         mark' \in [Replacements -> [Slots -> Attributes \cup {Missing, Unset}]],
         \A r \in Replacements, t \in Slots \ {s} : mark'[r][t] = mark[r][t]
  PROVE  SlotsInv' /\ SlotChange(s)
<1> USE DEF SlotsInv
<1>1. Source[s] \in Slots /\ Source[s] \in Providers /\ ~ IsAlias(Source[s]) /\ Source[s] # s
  BY AliasShape
<1>2. attr \in [Slots -> Attributes \cup {Missing, Unloaded}]
  BY DEF HeapShape
<1>3. attr'[s] = attr[Source[s]] /\ \A t \in Slots \ {s} : attr'[t] = attr[t]
  BY <1>2
<1>4. attr[Source[s]] \in Attributes
  BY <1>1 DEF ProvidersReplacedOnce
<1>5. HeapShape'
  <2>1. attr' \in [Slots -> Attributes \cup {Missing, Unloaded}]
    BY <1>2, <1>4
  <2>2. QED
    BY <1>3, <2>1 DEF HeapShape
<1>6. ProvidersReplacedOnce'
  <2> SUFFICES ASSUME NEW p \in Providers
               PROVE  /\ pristine[p] \in Attributes /\ pristine[p].impl \notin Replacements
                      /\ attr'[p] \in Attributes
                      /\ \/ attr'[p] = pristine[p]
                         \/ attr'[p].impl \in Replacements /\ mark'[attr'[p].impl][p] = pristine[p]
    BY DEF ProvidersReplacedOnce, Providers
  <2>1. p \in Slots \ {s}
    BY ProviderShape
  <2>2. QED
    BY <1>3, <2>1 DEF ProvidersReplacedOnce
<1>7. AliasesFollow'
  BY <1>1, <1>3, AliasShape DEF AliasesFollow
<1>8. QED
  BY <1>3, <1>5, <1>6, <1>7 DEF SlotChange

\* A module is loaded.
LEMMA LoadsAlias ==
  ASSUME SlotsInv, UNCHANGED pristine, NEW s \in Slots, LoadAlias(s)
  PROVE  SlotsInv' /\ SlotChange(s)
<1>1. IsAlias(s) /\ mark' = mark /\ attr' = [attr EXCEPT ![s] = attr[Source[s]]]
  BY DEF LoadAlias, SlotsInv, HeapShape
<1>2. mark' \in [Replacements -> [Slots -> Attributes \cup {Missing, Unset}]]
  BY <1>1 DEF SlotsInv, HeapShape
<1>3. QED
  BY <1>1, <1>2, AliasFollows

\* After a rebinding that was not refused, the alias of a replaced provider holds the
\* replacement, is not loaded, or was left behind before the plugin came.
LEMMA RebindInstalls ==
  ASSUME SlotsInv, UNCHANGED pristine, NEW s \in Slots, IsAlias(s), NEW u,
         attr[Source[s]].impl \in Replacements, ~ Unexpected(u, s), Rebind(s)
  PROVE  /\ SlotsInv' /\ SlotChange(s)
         /\ attr'[s] \in {Unloaded, Replacement(s)'} \/ LeftBehind(u, s)'
<1> USE DEF SlotsInv
<1>1. Source[s] \in Slots /\ Source[s] \in Providers /\ Source[s] # s
      /\ s \notin ClassSlots \cup DataSlots /\ Base[s] = NoSlot
  BY AliasShape, SlotAssumption
<1>2. /\ attr \in [Slots -> Attributes \cup {Missing, Unloaded}]
      /\ mark \in [Replacements -> [Slots -> Attributes \cup {Missing, Unset}]]
  BY DEF HeapShape
<1>3. ReplacedOf(s) = pristine[Source[s]]
  BY <1>1 DEF ReplacedOf, Replacement, ProvidersReplacedOnce
<1>4. CASE attr[s] = ReplacedOf(s)
  <2>1. Install(s, attr[Source[s]], FALSE)
    BY <1>4 DEF Rebind, Replacement
  <2>2. Original(s, FALSE) = attr[s]
    BY <1>1 DEF Original, Static
  <2>3. Build(s, Original(s, FALSE), attr[Source[s]]) = attr[Source[s]]
    BY <1>1 DEF Build
  <2>4. attr' = [attr EXCEPT ![s] = attr[Source[s]]]
        /\ mark' = [mark EXCEPT ![attr[Source[s]].impl][s] = attr[s]]
    BY <2>1, <2>2, <2>3 DEF Install
  <2>5. attr[s] \in Attributes
    BY <1>1, <1>3, <1>4 DEF ProvidersReplacedOnce
  <2>6. /\ mark' \in [Replacements -> [Slots -> Attributes \cup {Missing, Unset}]]
        /\ \A r \in Replacements, t \in Slots \ {s} : mark'[r][t] = mark[r][t]
    <3> DEFINE row == [mark[attr[Source[s]].impl] EXCEPT ![s] = attr[s]]
    <3>1. row \in [Slots -> Attributes \cup {Missing, Unset}]
          /\ \A t \in Slots \ {s} : row[t] = mark[attr[Source[s]].impl][t]
      BY <1>2, <2>5
    <3>2. mark' = [mark EXCEPT ![attr[Source[s]].impl] = row]
      BY <2>4
    <3> HIDE DEF row
    <3>3. QED
      BY <1>2, <3>1, <3>2
  <2>7. SlotsInv' /\ SlotChange(s)
    BY <2>4, <2>6, AliasFollows
  <2>8. attr'[s] = Replacement(s)'
    BY <1>1, <1>2, <2>4 DEF Replacement
  <2>9. QED
    BY <2>7, <2>8
<1>5. CASE attr[s] # ReplacedOf(s)
  <2>1. UNCHANGED << attr, mark >>
    BY <1>5 DEF Rebind, heap
  <2>2. SlotsInv' /\ SlotChange(s)
    BY <2>1 DEF HeapShape, ProvidersReplacedOnce, AliasesFollow, SlotChange
  <2>3. attr[s] \in {Unloaded, pristine[s], attr[Source[s]]}
    BY <1>3, <1>5 DEF AliasesFollow
  <2>4. CASE attr[s] \in {Unloaded, attr[Source[s]]}
    BY <2>1, <2>2, <2>4 DEF Replacement
  <2>5. CASE attr[s] \notin {Unloaded, attr[Source[s]]}
    <3>1. u \notin StrictUnits
      BY <1>5, <2>5 DEF Unexpected, Replacement
    <3>2. pristine[s] \notin {Unloaded, pristine[Source[s]]}
      BY <1>3, <1>5, <2>3, <2>5
    <3>3. QED
      BY <2>2, <3>1, <3>2 DEF LeftBehind
  <2>6. QED
    BY <2>4, <2>5
<1>6. QED
  BY <1>4, <1>5

\* A step that is in effect stays in effect, whatever else changes.
LEMMA StaysInEffect ==
  ASSUME SlotsInv, NEW s \in Slots, SlotChange(s),
         NEW u \in Units, NEW k \in DOMAIN Steps[u], StepInEffect(u, k)
  PROVE  StepInEffect(u, k)'
<1> DEFINE st == Steps[u][k]
           t == st.slot
<1>1. /\ t \in Slots /\ st.op \in {"patch", "value", "rebind"}
      /\ st.op = "patch" => ~ IsAlias(t) /\ t \notin DataSlots
      /\ st.op = "value" => t \in DataSlots
      /\ st.op = "rebind" => IsAlias(t)
  BY StepShape
<1>2. pristine' = pristine
  BY DEF SlotChange
<1>3. CASE st.op = "patch"
  <2>1. attr[t].impl \in Replacements
    BY <1>3 DEF StepInEffect
  <2>2. attr'[t].impl \in Replacements
    BY <1>1, <1>3, <2>1 DEF SlotChange
  <2>3. QED
    BY <1>3, <2>2 DEF StepInEffect
<1>4. CASE st.op = "value"
  <2>1. attr[t] = Value(TheValue)
    BY <1>4 DEF StepInEffect
  <2>2. ~ IsAlias(t)
    BY <1>1, <1>4, DataShape
  <2>3. attr'[t] = Value(TheValue)
    BY <1>1, <1>4, <2>1, <2>2 DEF SlotChange
  <2>4. QED
    BY <1>4, <2>3 DEF StepInEffect
<1>5. CASE st.op = "rebind"
  <2>1. /\ attr[Source[t]].impl \in Replacements
        /\ attr[t] \in {Unloaded, attr[Source[t]]} \/ LeftBehind(u, t)
    BY <1>5 DEF StepInEffect, Replacement
  <2>2. /\ Source[t] \in Slots /\ Source[t] \in Providers /\ ~ IsAlias(Source[t])
        /\ Source[t] \notin DataSlots /\ t \notin DataSlots /\ IsAlias(t)
    BY <1>1, <1>5, AliasShape
  <2>3. attr'[Source[t]] = attr[Source[t]]
    BY <2>1, <2>2 DEF SlotChange, SlotsInv, ProvidersReplacedOnce
  <2>4. attr'[t] \in {Unloaded, attr'[Source[t]]} \/ LeftBehind(u, t)
    BY <1>1, <2>1, <2>2, <2>3 DEF SlotChange
  <2>5. LeftBehind(u, t)' = LeftBehind(u, t)
    BY <1>2 DEF LeftBehind
  <2>6. QED
    BY <1>5, <2>1, <2>3, <2>4, <2>5 DEF StepInEffect, Replacement
<1>6. QED
  BY <1>1, <1>3, <1>4, <1>5

--------------------------------------------------------------------------------
(* What the flags say.                                                         *)

LEMMA InitHeap == LInit => HeapInv
<1> SUFFICES ASSUME LInit PROVE HeapInv
  OBVIOUS
<1>1. PICK foreign \in SUBSET ForeignSlots,
           stale \in SUBSET {s \in Slots : IsAlias(s)},
           absent \in SUBSET {s \in Slots : IsAlias(s)} :
        pristine = [s \in Slots |->
          IF s \in absent THEN Unloaded
          ELSE IF IsAlias(s)
          THEN IF Source[s] \in foreign /\ s \notin stale
               THEN ForeignFunction ELSE Pristine(Source[s])
          ELSE IF s \in foreign THEN ForeignFunction
          ELSE IF s \in DataSlots \/ Base[s] # NoSlot THEN Missing
          ELSE Pristine(s)]
  BY DEF LInit
<1>2. attr = pristine /\ mark = [r \in Replacements |-> [s \in Slots |-> Unset]]
  BY DEF LInit, HeapInit
<1>3. /\ ForeignFunction \in Attributes /\ ForeignFunction.impl \notin Replacements
      /\ \A s \in Slots : Pristine(s) \in Attributes /\ Pristine(s).impl \notin Replacements
  BY ObjectAssumption DEF ForeignFunction, Pristine, Attributes, Kinds, Upstream
<1>4. \A s \in Slots :
        /\ IsAlias(s) => pristine[s] \in {Unloaded, ForeignFunction, Pristine(Source[s])}
        /\ ~ IsAlias(s) => pristine[s] \in {ForeignFunction, Missing, Pristine(s)}
        /\ ~ IsAlias(s) /\ s \notin DataSlots /\ Base[s] = NoSlot
             => pristine[s] \in {ForeignFunction, Pristine(s)}
  <2> SUFFICES ASSUME NEW s \in Slots
      PROVE /\ IsAlias(s) => pristine[s] \in {Unloaded, ForeignFunction, Pristine(Source[s])}
            /\ ~ IsAlias(s) => pristine[s] \in {ForeignFunction, Missing, Pristine(s)}
            /\ ~ IsAlias(s) /\ s \notin DataSlots /\ Base[s] = NoSlot
                 => pristine[s] \in {ForeignFunction, Pristine(s)}
    OBVIOUS
  <2> HIDE DEF ForeignFunction, Pristine
  <2>1. CASE IsAlias(s)
    BY <1>1, <2>1
  <2>2. CASE ~ IsAlias(s)
    <3>1. s \notin absent
      BY <2>2
    <3>2. QED
      BY <1>1, <2>2, <3>1
  <2>3. QED
    BY <2>1, <2>2
<1>5. \A s \in Slots : pristine[s] \in Attributes \cup {Missing, Unloaded}
  <2> SUFFICES ASSUME NEW s \in Slots PROVE pristine[s] \in Attributes \cup {Missing, Unloaded}
    OBVIOUS
  <2> HIDE DEF ForeignFunction, Pristine
  <2>1. CASE IsAlias(s)
    <3>1. Pristine(Source[s]) \in Attributes
      BY <1>3, <2>1, AliasShape
    <3>2. QED
      BY <1>3, <1>4, <2>1, <3>1
  <2>2. CASE ~ IsAlias(s)
    BY <1>3, <1>4, <2>2
  <2>3. QED
    BY <2>1, <2>2
<1>6. HeapShape
  <2>1. attr \in [Slots -> Attributes \cup {Missing, Unloaded}]
    BY <1>1, <1>2, <1>5
  <2>2. \A s \in Slots : ~ IsAlias(s) => attr[s] # Unloaded
    BY <1>2, <1>3, <1>4, ObjectAssumption
  <2>3. QED
    BY <1>2, <2>1, <2>2 DEF HeapShape
<1>7. ProvidersReplacedOnce
  BY <1>2, <1>3, <1>4, ProviderShape DEF ProvidersReplacedOnce
<1>8. AliasesFollow
  BY <1>2 DEF AliasesFollow
<1>9. UnitsInEffect
  BY DEF LInit, UnitsInEffect, Flags
<1>10. QED
  BY <1>6, <1>7, <1>8, <1>9 DEF HeapInv, SlotsInv

\* A step of a unit is in effect after it was run.
LEMMA StepInstalls ==
  ASSUME SlotsInv, UNCHANGED pristine, failures \in 0 .. MaxFailures,
         NEW u \in Units, NEW k \in DOMAIN Steps[u],
         \A j \in 1 .. k - 1 : j \in DOMAIN Steps[u] /\ StepInEffect(u, j),
         ~ Raises(u, k), Perform(u, k)
  PROVE  SlotsInv' /\ StepInEffect(u, k)' /\ \E s \in Slots : SlotChange(s)
<1> DEFINE st == Steps[u][k]
           s == st.slot
<1>1. /\ s \in Slots /\ st.additive \in BOOLEAN
      /\ st.op \in {"patch", "value", "rebind"}
      /\ st.op = "patch" => ~ IsAlias(s) /\ s \notin DataSlots
      /\ st.op = "value" => s \in DataSlots
      /\ st.op = "rebind" =>
           /\ IsAlias(s)
           /\ \E j \in 1 .. k - 1 : Steps[u][j].op = "patch" /\ Steps[u][j].slot = Source[s]
  BY StepShape
<1>2. CASE st.op = "patch"
  <2>1. Install(s, New(s), st.additive)
    BY <1>2 DEF Perform
  <2>2. SlotsInv' /\ SlotChange(s) /\ attr'[s].impl \in Replacements
    <3> HIDE DEF st, s
    <3>1. QED
      BY <1>1, <1>2, <2>1, PatchInstalls
  <2>3. StepInEffect(u, k)'
    BY <1>2, <2>2 DEF StepInEffect
  <2>4. QED
    BY <1>1, <2>2, <2>3
<1>3. CASE st.op = "value"
  <2>1. InstallValue(s, TheValue)
    BY <1>3 DEF Perform
  <2>2. SlotsInv' /\ SlotChange(s) /\ attr'[s] = Value(TheValue)
    <3> HIDE DEF st, s
    <3>1. QED
      BY <1>1, <1>3, <2>1, ValueInstalls
  <2>3. StepInEffect(u, k)'
    BY <1>3, <2>2 DEF StepInEffect
  <2>4. QED
    BY <1>1, <2>2, <2>3
<1>4. CASE st.op = "rebind"
  <2>1. Rebind(s) /\ ~ Unexpected(u, s)
    BY <1>4 DEF Perform, Raises
  <2>2. PICK j \in 1 .. k - 1 : Steps[u][j].op = "patch" /\ Steps[u][j].slot = Source[s]
    BY <1>1, <1>4
  <2>3. attr[Source[s]].impl \in Replacements
    BY <2>2 DEF StepInEffect
  <2>4. /\ SlotsInv' /\ SlotChange(s)
        /\ attr'[s] \in {Unloaded, Replacement(s)'} \/ LeftBehind(u, s)'
    <3> HIDE DEF st, s
    <3>1. QED
      BY <1>1, <1>4, <2>1, <2>3, RebindInstalls
  <2>5. attr'[Source[s]].impl \in Replacements
    <3>1. Source[s] \in Slots \ {s}
      BY <1>1, <1>4, AliasShape
    <3>2. QED
      BY <2>3, <2>4, <3>1 DEF SlotChange
  <2>6. StepInEffect(u, k)'
    BY <1>4, <2>4, <2>5 DEF StepInEffect
  <2>7. QED
    BY <1>1, <2>4, <2>6
<1>5. QED
  BY <1>1, <1>2, <1>3, <1>4

\* The steps of the units that ended, and those behind the running one, stay in effect.
LEMMA UnitsStayInEffect ==
  ASSUME SlotsInv, \E s \in Slots : SlotChange(s), NEW u \in Units, NEW k \in DOMAIN Steps[u],
         StepInEffect(u, k)
  PROVE  StepInEffect(u, k)'
BY StaysInEffect

LEMMA RunStepKeepsHeap ==
  ASSUME CallInv, HeapInv, RunStep
  PROVE  HeapInv'
<1>1. /\ MayRun /\ step \in 1 .. Len(Steps[Current]) /\ ~ Raises(Current, step)
      /\ Perform(Current, step) /\ step' = step + 1
      /\ UNCHANGED << pristine, stage, done, flags, failures >>
  BY DEF RunStep
<1>2. Current \in Units
  BY <1>1, CurrentIsPending DEF MayRun
<1>3. PICK u \in Units : u = Current
  BY <1>2
<1>4. Steps[u] \in Seq([op : {"patch", "value", "rebind"}, slot : Slots, additive : BOOLEAN])
  BY UnitAssumption
<1>5. PICK k \in DOMAIN Steps[u] : k = step
  BY <1>1, <1>3, <1>4
<1>6. /\ ~ Raises(u, k) /\ Perform(u, k)
      /\ \A j \in 1 .. k - 1 : j \in DOMAIN Steps[u] /\ StepInEffect(u, j)
  BY <1>1, <1>3, <1>5 DEF HeapInv, UnitsInEffect
<1>7. SlotsInv' /\ StepInEffect(u, k)' /\ \E s \in Slots : SlotChange(s)
  BY <1>1, <1>6, StepInstalls DEF HeapInv, CallInv, TypeOK
<1>8. Current' = u /\ MayRun'
  BY <1>1, <1>3, SameUnit DEF MayRun
<1>9. \A v \in done : \A j \in DOMAIN Steps[v] : StepInEffect(v, j)'
  BY <1>7, UnitsStayInEffect DEF HeapInv, UnitsInEffect, CallInv, TypeOK
<1>10. \A j \in 1 .. k : j \in DOMAIN Steps[u] /\ StepInEffect(u, j)'
  <2> SUFFICES ASSUME NEW j \in 1 .. k PROVE j \in DOMAIN Steps[u] /\ StepInEffect(u, j)'
    OBVIOUS
  <2>1. CASE j = k
    BY <1>7, <2>1
  <2>2. CASE j # k
    <3>1. j \in 1 .. k - 1
      BY <1>1, <1>5, <2>2
    <3>2. j \in DOMAIN Steps[u] /\ StepInEffect(u, j)
      BY <1>6, <3>1
    <3>3. QED
      BY <1>7, <3>2, UnitsStayInEffect DEF HeapInv
  <2>3. QED
    BY <2>1, <2>2
<1>11. step' - 1 = k
  BY <1>1, <1>5
<1>12. UnitsInEffect'
  <2>1. \A v \in done' : \A j \in DOMAIN Steps[v] : StepInEffect(v, j)'
    BY <1>1, <1>9
  <2>2. \A j \in 1 .. step' - 1 : j \in DOMAIN Steps[u] /\ StepInEffect(u, j)'
    BY <1>10, <1>11
  <2>3. QED
    BY <1>1, <1>8, <2>1, <2>2 DEF UnitsInEffect, HeapInv
<1>13. QED
  BY <1>7, <1>12 DEF HeapInv

\* Where the slots are left alone, so is what is in effect; a flag needs its units.
LEMMA QuietKeepsHeap ==
  ASSUME HeapInv, UNCHANGED << pristine, heap, done >>,
         MayRun' => step' \in {0, 1} \/ (MayRun /\ UNCHANGED << stage, step >>),
         flags'["patches_applied"] =>
           flags["patches_applied"] \/ Range(PatchUnits) \subseteq done,
         flags'["registered"] => flags["registered"] \/ Children \subseteq done
  PROVE  HeapInv'
<1>1. SlotsInv'
  BY DEF HeapInv, SlotsInv, HeapShape, ProvidersReplacedOnce, AliasesFollow, heap
<1>2. ASSUME NEW u, NEW k, StepInEffect(u, k) PROVE StepInEffect(u, k)'
  BY <1>2 DEF StepInEffect, LeftBehind, Replacement, heap
<1>3. MayRun' => \A k \in 1 .. step' - 1 : /\ k \in DOMAIN Steps[Current']
                                           /\ StepInEffect(Current, k)'
  <2>1. CASE step' \in {0, 1}
    <3>1. CASE step' = 0
      BY <3>1
    <3>2. CASE step' = 1
      BY <3>2
    <3>3. QED
      BY <2>1, <3>1, <3>2
  <2>2. CASE MayRun /\ UNCHANGED << stage, step >>
    <3>1. Current' = Current
      BY <2>2, SameUnit
    <3>2. PICK u : u = Current
      OBVIOUS
    <3>3. \A k \in 1 .. step - 1 : k \in DOMAIN Steps[u] /\ StepInEffect(u, k)'
      BY <1>2, <2>2, <3>2 DEF HeapInv, UnitsInEffect
    <3>4. QED
      BY <2>2, <3>1, <3>2, <3>3
  <2>3. QED
    BY <2>1, <2>2
<1>4. UnitsInEffect'
  BY <1>2, <1>3 DEF HeapInv, UnitsInEffect
<1>5. QED
  BY <1>1, <1>4 DEF HeapInv

LEMMA EndUnitKeepsHeap ==
  ASSUME CallInv, HeapInv, EndUnit
  PROVE  HeapInv'
<1>1. /\ MayRun /\ step = Len(Steps[Current]) + 1 /\ step' = 0
      /\ done' = done \cup {Current} /\ UNCHANGED << pristine, heap, stage, flags >>
  BY DEF EndUnit
<1>2. Current \in Units
  BY <1>1, CurrentIsPending DEF MayRun
<1>3. PICK u \in Units : u = Current
  BY <1>2
<1>4. \A k \in DOMAIN Steps[u] : StepInEffect(u, k)
  <2>1. DOMAIN Steps[u] = 1 .. step - 1
    <3>1. Steps[u] \in Seq([op : {"patch", "value", "rebind"}, slot : Slots, additive : BOOLEAN])
      BY UnitAssumption
    <3>2. DOMAIN Steps[u] = 1 .. Len(Steps[u]) /\ Len(Steps[u]) \in Nat
      BY <3>1
    <3>3. QED
      BY <1>1, <1>3, <3>2
  <2>2. QED
    BY <1>1, <1>3, <2>1 DEF HeapInv, UnitsInEffect
<1>5. SlotsInv'
  BY <1>1 DEF HeapInv, SlotsInv, HeapShape, ProvidersReplacedOnce, AliasesFollow, heap
<1>6. ASSUME NEW v, NEW k, StepInEffect(v, k) PROVE StepInEffect(v, k)'
  BY <1>1, <1>6 DEF StepInEffect, LeftBehind, Replacement, heap
<1>7. \A v \in done' : \A k \in DOMAIN Steps[v] : StepInEffect(v, k)'
  BY <1>1, <1>3, <1>4, <1>6 DEF HeapInv, UnitsInEffect
<1>8. \A k \in 1 .. step' - 1 : FALSE
  BY <1>1
<1>9. UnitsInEffect'
  BY <1>1, <1>7, <1>8 DEF HeapInv, UnitsInEffect
<1>10. QED
  BY <1>5, <1>9 DEF HeapInv

LEMMA LoadKeepsHeap ==
  ASSUME CallInv, HeapInv, LoadModule
  PROVE  HeapInv'
<1>1. /\ UNCHANGED << pristine, stage, step, done, flags >>
      /\ SlotsInv' /\ \E s \in Slots : SlotChange(s)
  BY LoadsAlias DEF LoadModule, HeapInv
<1>2. \A u \in Units : \A k \in DOMAIN Steps[u] : StepInEffect(u, k) => StepInEffect(u, k)'
  BY <1>1, UnitsStayInEffect DEF HeapInv
<1>3. \A u \in done' : \A k \in DOMAIN Steps[u] : StepInEffect(u, k)'
  BY <1>1, <1>2 DEF HeapInv, UnitsInEffect, CallInv, TypeOK
<1>4. MayRun' => \A k \in 1 .. step' - 1 : /\ k \in DOMAIN Steps[Current']
                                           /\ StepInEffect(Current, k)'
  <2> SUFFICES ASSUME MayRun'
               PROVE  \A k \in 1 .. step' - 1 : /\ k \in DOMAIN Steps[Current']
                                                /\ StepInEffect(Current, k)'
    OBVIOUS
  <2>1. MayRun /\ Current' = Current
    BY <1>1, SameUnit DEF MayRun
  <2>2. PICK u \in Units : u = Current
    BY <2>1, CurrentIsPending DEF MayRun
  <2>3. \A k \in 1 .. step - 1 : k \in DOMAIN Steps[u] /\ StepInEffect(u, k)'
    BY <1>2, <2>1, <2>2 DEF HeapInv, UnitsInEffect
  <2>4. QED
    BY <1>1, <2>1, <2>2, <2>3
<1>5. UnitsInEffect'
  BY <1>1, <1>3, <1>4 DEF HeapInv, UnitsInEffect
<1>6. QED
  BY <1>1, <1>5 DEF HeapInv

\* Every other step leaves the slots alone.
LEMMA StepsKeepHeap ==
  ASSUME CallInv, HeapInv, [LNext]_lvars
  PROVE  HeapInv'
<1>1. flags \in [Flags -> BOOLEAN] /\ step \in Nat
  BY DEF CallInv, TypeOK
<1>2. CASE BeginUnit
  BY <1>2, QuietKeepsHeap DEF BeginUnit
<1>3. CASE RunStep
  BY <1>3, RunStepKeepsHeap
<1>4. CASE EndUnit
  BY <1>4, EndUnitKeepsHeap
<1>5. CASE LoadModule
  BY <1>5, LoadKeepsHeap
<1>6. CASE StepRaises \/ UnitFails
  <2>1. Raise /\ UNCHANGED << pristine, heap, done >>
    BY <1>6 DEF StepRaises, UnitFails
  <2>2. /\ step' = 0
        /\ flags'["patches_applied"] = flags["patches_applied"]
        /\ flags'["registered"] = flags["registered"]
    BY <1>1, <2>1 DEF Raise, Flags
  <2>3. QED
    BY <2>1, <2>2, QuietKeepsHeap
<1>7. CASE StageSteps
  <2>1. step' = 0 /\ UNCHANGED << pristine, heap, done >>
    BY <1>7, StageStepsAreBetweenUnits
  <2>2. CASE PatchesDone
    <3>1. Range(PatchUnits) \subseteq done /\ flags'["registered"] = flags["registered"]
      BY <1>1, <2>2, NonePending DEF PatchesDone, Flags
    <3>2. QED
      BY <2>1, <3>1, QuietKeepsHeap
  <2>3. CASE RegistryDone
    <3>1. /\ flags["registered"] \/ Children \subseteq done
          /\ flags'["patches_applied"] = flags["patches_applied"]
      BY <1>1, <2>3, NonePending DEF RegistryDone, Flags
    <3>2. QED
      BY <2>1, <3>1, QuietKeepsHeap
  <2>4. CASE ~ PatchesDone /\ ~ RegistryDone
    <3>1. /\ flags'["patches_applied"] = flags["patches_applied"]
          /\ flags'["registered"] = flags["registered"]
      BY <1>1, <1>7, <2>4 DEF StageSteps, Call, CompatPasses, CompatFails, ImportFails,
         RegistryRefuses, ProfilingDone, Flags
    <3>2. QED
      BY <2>1, <3>1, QuietKeepsHeap
  <2>5. QED
    BY <2>2, <2>3, <2>4
<1>8. CASE ModelSteps
  <2>1. /\ UNCHANGED << pristine, heap, done >> /\ stage' \in {"models", "idle"}
        /\ flags'["patches_applied"] = flags["patches_applied"]
        /\ flags'["registered"] = flags["registered"]
    BY <1>1, <1>8 DEF ModelSteps, Snapshot, RegisterRequired, RequiredFails, RegisterOptional,
       ModelsDone, EndCall, Flags
  <2>2. ~ MayRun'
    BY <2>1 DEF MayRun, Pending, UnitsOf
  <2>3. QED
    BY <2>1, <2>2, QuietKeepsHeap
<1>9. CASE OtherRegisters \/ UNCHANGED lvars
  <2>1. UNCHANGED << pristine, heap, stage, step, done, flags >>
    BY <1>9 DEF OtherRegisters, lvars
  <2>2. MayRun' => MayRun
    BY <2>1, SameUnit DEF MayRun
  <2>3. QED
    BY <2>1, <2>2, QuietKeepsHeap
<1>10. QED
  BY <1>2, <1>3, <1>4, <1>5, <1>6, <1>7, <1>8, <1>9
     DEF LNext, Progress, Failure, StageSteps, ModelSteps

\* Providers are replaced once, aliases follow them, and every step of a unit that ended,
\* or that the running unit has behind it, is in effect.
THEOREM StepsStayInEffect == LSpec => []HeapInv
<1>1. CallInv /\ HeapInv /\ [LNext]_lvars => HeapInv'
  BY StepsKeepHeap
<1>2. QED
  BY <1>1, InitHeap, CallsInOrder, PTL DEF LSpec

\* "Incomplete work must not be marked successful": a set flag means that every patch
\* is installed and that every loaded alias follows its provider, whatever failed before
\* and whatever modules were loaded meanwhile.
THEOREM FlagsAlwaysMeanInstalled == LSpec => []FlagsMeanInstalled
<1>1. CallInv /\ HeapInv => FlagsMeanInstalled
  <2> SUFFICES ASSUME CallInv, HeapInv PROVE FlagsMeanInstalled
    OBVIOUS
  <2>1. ASSUME NEW u \in done PROVE InEffect(u)
    <3>1. \A k \in DOMAIN Steps[u] : StepInEffect(u, k)
      BY <2>1 DEF HeapInv, UnitsInEffect
    <3>2. \A k \in DOMAIN Steps[u] : Steps[u][k].op \in {"patch", "value", "rebind"}
      BY <2>1, StepShape DEF CallInv, TypeOK
    <3>3. QED
      BY <3>1, <3>2 DEF InEffect, StepInEffect
  <2>2. QED
    BY <2>1 DEF FlagsMeanInstalled, HeapInv, UnitsInEffect, Children
<1>2. QED
  BY <1>1, CallsInOrder, StepsStayInEffect, PTL
================================================================================
