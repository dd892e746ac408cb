--------------------------- MODULE WorkerStartProofs ---------------------------
(***************************************************************************)
(* Theorems about what a worker process makes ready.  The lazy resolvers   *)
(* of the PLA kernels, for any number of threads, any number of failing    *)
(* imports and both reactions to a missing package.  The layers of         *)
(* native.install(), for any lists of operators and any number of          *)
(* failures: while no exception outlives its call, a stub never stands     *)
(* where another layer has an implementation, and a call that returns has  *)
(* provided every operator.  The kernels of the dense layers, for any      *)
(* libraries and settings and whoever else registers kernels: a layer gets *)
(* the kernel the plugin prefers, and a call finds the weight in the order *)
(* of the library it goes to.  The oracles of the MoE layers, for any      *)
(* configuration: a layer is prepared for the backend that was asked for,  *)
(* whenever the module that builds it was imported.                        *)
(* The warm-up of the JIT kernels, for any layers and any number of        *)
(* tokens: the shares that the ranks of a node compile make up the plan.   *)
(***************************************************************************)
EXTENDS PlaResolver, NativeOps, LinearKernels, MoeOracles, KernelWarmup,
        SequenceTheorems, FiniteSetTheorems, WellFoundedInduction, TLAPS

--------------------------------------------------------------------------------
(* The resolvers of the PLA kernels.                                           *)

Holding == {"check", "import", "first", "second", "flag", "release"}

\* Mutual exclusion: a thread inside the lock is its holder.
HolderInside == \A t \in Threads : pc[t] \in Holding => lock = t

\* What has been published, and by whom.
Published ==
  /\ resolved => handle[1] = "kernel" /\ handle[2] = "kernel"
  /\ \A h \in Handles :
       handle[h] = "kernel" =>
         resolved \/ (lock \in Threads /\ pc[lock] \in {"second", "flag"})
  /\ imports <= 1
  /\ imports # 0 => resolved \/ (lock \in Threads /\ pc[lock] \in {"first", "second", "flag"})
  /\ \A t \in Threads :
       /\ pc[t] \in {"import", "first", "second", "flag"} => resolved = FALSE
       /\ pc[t] \in {"second", "flag"} => handle[1] = "kernel"
       /\ pc[t] = "flag" => handle[2] = "kernel"
       /\ pc[t] = "release" => resolved = TRUE

\* What a thread was given is published, and a thread that was given a handle
\* reads again only what is complete.
GivenSound ==
  \A t \in Threads, h \in Handles :
    got[t][h] = "kernel" => /\ handle[h] = "kernel"
                            /\ pc[t] = "read" => resolved = TRUE

ResolverInv == ResolverTypeOK /\ HolderInside /\ Published /\ GivenSound

--------------------------------------------------------------------------------
LEMMA InitInv == Init => ResolverInv
<1> SUFFICES ASSUME Init PROVE ResolverInv
  OBVIOUS
<1> USE DEF Init, Handles
<1>1. ResolverTypeOK
  <2>1. imports \in Nat /\ failures \in 0 .. MaxFailures
    BY ResolverAssumption
  <2>2. /\ handle \in [Handles -> {"none", "kernel"}]
        /\ got \in [Threads -> [Handles -> {"unknown", "none", "kernel"}]]
    OBVIOUS
  <2>3. QED
    BY <2>1, <2>2 DEF ResolverTypeOK
<1>2. HolderInside /\ GivenSound
  BY DEF HolderInside, Holding, GivenSound
<1>3. Published
  BY DEF Published
<1>4. QED
  BY <1>1, <1>2, <1>3 DEF ResolverInv

\* A thread whose import is at work was given nothing: the handles are published
\* by the holder of the lock only.
LEMMA ImporterHasNothing ==
  ASSUME ResolverInv, NEW t \in Threads, pc[t] = "import"
  PROVE  \A h \in Handles : got[t][h] # "kernel"
BY DEF ResolverInv, HolderInside, Holding, Published, GivenSound

LEMMA AskInv ==
  ASSUME ResolverInv, NEW t \in Threads, NEW h \in Handles, Ask(t, h)
  PROVE  ResolverInv'
<1>1. ResolverTypeOK'
  BY DEF ResolverInv, ResolverTypeOK, Ask, Goto, shared, Handles
<1>2. HolderInside' /\ Published' /\ GivenSound'
  BY ResolverAssumption
     DEF ResolverInv, ResolverTypeOK, HolderInside, Holding, Published, GivenSound, Ask, Goto,
         shared
<1>3. QED
  BY <1>1, <1>2 DEF ResolverInv

\* The steps up to the import, which publish and answer nothing.
LEMMA SearchInv ==
  ASSUME ResolverInv, NEW t \in Threads,
         FastPath(t) \/ Acquire(t) \/ Recheck(t) \/ Release(t)
  PROVE  ResolverInv'
<1> USE DEF Goto, shared
<1>1. ResolverTypeOK'
  BY DEF ResolverInv, ResolverTypeOK, FastPath, Acquire, Recheck, Release
<1>2. HolderInside'
  BY ResolverAssumption
     DEF ResolverInv, ResolverTypeOK, HolderInside, Holding, FastPath, Acquire, Recheck, Release
<1>3. Published'
  <2> USE ResolverAssumption DEF ResolverInv, ResolverTypeOK, HolderInside, Holding, Published
  <2>1. CASE FastPath(t)
    BY <2>1 DEF FastPath
  <2>2. CASE Acquire(t)
    BY <2>2 DEF Acquire
  <2>3. CASE Recheck(t)
    BY <2>3 DEF Recheck
  <2>4. CASE Release(t)
    BY <2>4 DEF Release
  <2>5. QED
    BY <2>1, <2>2, <2>3, <2>4
<1>4. GivenSound'
  BY DEF ResolverInv, ResolverTypeOK, Published, GivenSound, FastPath, Acquire, Recheck, Release
<1>5. QED
  BY <1>1, <1>2, <1>3, <1>4 DEF ResolverInv

\* The steps of a successful import.
LEMMA PublishInv ==
  ASSUME ResolverInv, NEW t \in Threads,
         ImportSucceeds(t) \/ PublishFirst(t) \/ PublishSecond(t) \/ SetResolved(t)
  PROVE  ResolverInv'
<1> USE DEF Goto, shared, Handles
<1>1. ResolverTypeOK'
  <2> USE DEF ResolverInv, ResolverTypeOK
  <2>1. CASE ImportSucceeds(t)
    BY <2>1 DEF ImportSucceeds
  <2>2. CASE PublishFirst(t)
    BY <2>2 DEF PublishFirst
  <2>3. CASE PublishSecond(t)
    BY <2>3 DEF PublishSecond
  <2>4. CASE SetResolved(t)
    BY <2>4 DEF SetResolved
  <2>5. QED
    BY <2>1, <2>2, <2>3, <2>4
<1>2. HolderInside'
  BY DEF ResolverInv, ResolverTypeOK, HolderInside, Holding, ImportSucceeds, PublishFirst,
         PublishSecond, SetResolved
<1>3. Published'
  <2> USE DEF ResolverInv, ResolverTypeOK, HolderInside, Holding, Published
  <2>1. CASE ImportSucceeds(t)
    BY <2>1 DEF ImportSucceeds
  <2>2. CASE PublishFirst(t)
    BY <2>2 DEF PublishFirst
  <2>3. CASE PublishSecond(t)
    BY <2>3 DEF PublishSecond
  <2>4. CASE SetResolved(t)
    BY <2>4 DEF SetResolved
  <2>5. QED
    BY <2>1, <2>2, <2>3, <2>4
<1>4. GivenSound'
  BY DEF ResolverInv, ResolverTypeOK, GivenSound, ImportSucceeds, PublishFirst, PublishSecond,
         SetResolved
<1>5. QED
  BY <1>1, <1>2, <1>3, <1>4 DEF ResolverInv

\* A failed import: nobody was given what it could not import.
LEMMA FailInv ==
  ASSUME ResolverInv, NEW t \in Threads, ImportFails(t)
  PROVE  ResolverInv'
<1> USE DEF Goto, Handles, Answer
<1>1. \A h \in Handles : got[t][h] # "kernel"
  BY ImporterHasNothing DEF ImportFails
<1>2. ResolverTypeOK'
  BY ResolverAssumption, SMTT(40) DEF ResolverInv, ResolverTypeOK, ImportFails
<1>3. HolderInside'
  BY ResolverAssumption DEF ResolverInv, ResolverTypeOK, HolderInside, Holding, ImportFails
<1>4. Published'
  BY ResolverAssumption
     DEF ResolverInv, ResolverTypeOK, HolderInside, Holding, Published, ImportFails
<1>5. GivenSound'
  BY <1>1 DEF ResolverInv, ResolverTypeOK, GivenSound, ImportFails
<1>6. QED
  BY <1>2, <1>3, <1>4, <1>5 DEF ResolverInv

LEMMA ReadInv ==
  ASSUME ResolverInv, NEW t \in Threads, Read(t)
  PROVE  ResolverInv'
<1> USE DEF Goto, shared, Handles, Answer
<1>1. ResolverTypeOK'
  BY DEF ResolverInv, ResolverTypeOK, Read
<1>2. HolderInside'
  BY DEF ResolverInv, ResolverTypeOK, HolderInside, Holding, Read
<1>3. Published'
  BY DEF ResolverInv, ResolverTypeOK, HolderInside, Holding, Published, Read
<1>4. GivenSound'
  BY DEF ResolverInv, ResolverTypeOK, GivenSound, Read
<1>5. QED
  BY <1>1, <1>2, <1>3, <1>4 DEF ResolverInv

LEMMA NextInv == ResolverInv /\ [Next]_vars => ResolverInv'
<1> SUFFICES ASSUME ResolverInv, [Next]_vars PROVE ResolverInv'
  OBVIOUS
<1>1. ASSUME NEW t \in Threads, Resolve(t) PROVE ResolverInv'
  BY <1>1, SearchInv, PublishInv, FailInv, ReadInv DEF Resolve
<1>2. ASSUME NEW t \in Threads, NEW h \in Handles, Ask(t, h) PROVE ResolverInv'
  BY <1>2, AskInv
<1>3. CASE UNCHANGED vars
  BY <1>3
     DEF ResolverInv, ResolverTypeOK, HolderInside, Published, GivenSound, vars, shared
<1>4. QED
  BY <1>1, <1>2, <1>3 DEF Next

--------------------------------------------------------------------------------
\* The inductive invariant: the lock excludes, what is published is complete or in
\* the hands of the lock's holder, and what a thread was given is published.
THEOREM ResolverIsSound == Spec => []ResolverInv
BY InitInv, NextInv, PTL DEF Spec

\* Type correctness of the module's globals and of the threads.
THEOREM ResolverTypeCorrect == Spec => []ResolverTypeOK
<1>1. ResolverInv => ResolverTypeOK
  BY DEF ResolverInv
<1>2. QED
  BY <1>1, ResolverIsSound, PTL

\* Concurrent calls import the package with success once.
THEOREM ResolvesOnce == Spec => []ResolvedOnce
<1>1. ResolverInv => ResolvedOnce
  BY DEF ResolverInv, Published, ResolvedOnce
<1>2. QED
  BY <1>1, ResolverIsSound, PTL

\* Once a thread was given a handle it is never answered None again.
THEOREM KernelsStay == Spec => KernelsAreNotLost
<1> DEFINE Kept == \A t \in Threads : (\E h \in Handles : got[t][h] = "kernel") =>
                     \A h \in Handles : got'[t][h] = "none" => got[t][h] = "none"
<1>1. ResolverInv /\ [Next]_vars => [Kept]_vars
  <2> SUFFICES ASSUME ResolverInv, Next PROVE Kept
    BY DEF vars
  <2>1. ASSUME NEW t \in Threads, Read(t) PROVE Kept
    BY <2>1 DEF ResolverInv, ResolverTypeOK, Published, GivenSound, Read, Answer, Handles
  <2>2. ASSUME NEW t \in Threads, ImportFails(t) PROVE Kept
    <3>1. \A h \in Handles : got[t][h] # "kernel"
      BY <2>2, ImporterHasNothing DEF ImportFails
    <3>2. QED
      BY <2>2, <3>1 DEF ResolverInv, ResolverTypeOK, ImportFails, Answer, Handles
  <2>3. ASSUME UNCHANGED got PROVE Kept
    BY <2>3
  <2>4. QED
    BY <2>1, <2>2, <2>3
       DEF Next, Resolve, Ask, FastPath, Acquire, Recheck, ImportSucceeds, PublishFirst,
           PublishSecond, SetResolved, Release
<1>2. QED
  BY <1>1, ResolverIsSound, PTL DEF Spec, KernelsAreNotLost

--------------------------------------------------------------------------------
(* The layers of native.install().                                             *)

Providers == {"nobody", "vllm", "extension", "portable", "triton", "stub"}
Claim  == [by : Providers, kernel : BOOLEAN]

Implemented == CompiledOps \cup ToSet(PortableOps) \cup ToSet(TritonOps)

\* The operators of a list that a layer has gone through.
Through(list, n) == \A j \in 1 .. Len(list) : j < n => Exists(list[j])
AllOf(list)      == \A j \in 1 .. Len(list) : Exists(list[j])

\* What has been claimed is neither a stub of something implemented nor a schema
\* without a kernel.
ClaimsSound ==
  /\ op \in [Ops -> Claim]
  /\ held = {}
  /\ \A o \in Ops : op[o].by = "stub" => o \notin Implemented
  /\ \A o \in Ops : Exists(o) /\ op[o].by # "vllm" => op[o].kernel

\* The order of the layers.
LayersInOrder ==
  /\ portableInstalled => AllOf(PortableOps)
  /\ stage = "portable" => at \in 1 .. Len(PortableOps) /\ Through(PortableOps, at)
  /\ stage \in {"triton", "stubs"} => AllOf(PortableOps)
  /\ stage = "triton" => at \in 1 .. Len(TritonOps) /\ Through(TritonOps, at)
  /\ stage = "stubs" => AllOf(TritonOps) /\ at \in 1 .. Len(ExcludedOps) /\ Through(ExcludedOps, at)
  /\ stage = "idle" /\ verdict = "ok" /\ ~ strict => AllOf(PortableOps) /\ AllOf(ExcludedOps)
  /\ stage \in {"start", "platform"} =>
       op = [o \in Ops |-> Unclaimed] /\ ~ portableInstalled /\ verdict = "none"

LayersSound == ~ outlives => ClaimsSound /\ LayersInOrder

--------------------------------------------------------------------------------
LEMMA Lists ==
  /\ Len(PortableOps) \in Nat \ {0} /\ Len(TritonOps) \in Nat \ {0} /\ Len(ExcludedOps) \in Nat \ {0}
  /\ \A j \in 1 .. Len(PortableOps) : PortableOps[j] \in Ops /\ PortableOps[j] \in Implemented
  /\ \A j \in 1 .. Len(TritonOps) : TritonOps[j] \in Ops /\ TritonOps[j] \in Implemented
  /\ \A j \in 1 .. Len(ExcludedOps) : ExcludedOps[j] \in Ops /\ ExcludedOps[j] \notin CompiledOps
  /\ \A o \in ToSet(PortableOps) : \E j \in 1 .. Len(PortableOps) : o = PortableOps[j]
  /\ \A o \in ToSet(TritonOps) : \E j \in 1 .. Len(TritonOps) : o = TritonOps[j]
  /\ \A o \in ToSet(ExcludedOps) : \E j \in 1 .. Len(ExcludedOps) : o = ExcludedOps[j]
<1>1. ASSUME NEW list \in {PortableOps, TritonOps, ExcludedOps}
      PROVE  Len(list) \in Nat \ {0} /\ ToSet(list) = {list[j] : j \in 1 .. Len(list)}
  <2>1. list \in Seq(ToSet(list)) /\ list # << >>
    BY NativeAssumption
  <2>2. Len(list) \in Nat /\ Len(list) # 0
    BY <2>1, LenProperties, EmptySeq
  <2>3. DOMAIN list = 1 .. Len(list)
    BY <2>1, LenProperties
  <2>4. QED
    BY <2>2, <2>3 DEF ToSet
<1>2. \A o \in ToSet(ExcludedOps) : o \notin CompiledOps
  BY NativeAssumption
<1>3. QED
  BY <1>1, <1>2 DEF Ops, Implemented

\* Where no exception is kept, an outcome of a call takes nothing away.
LEMMA EndsKeeps ==
  ASSUME ~ outlives, held = {}, NEW v, NEW registrations \in [Ops -> Claim],
         Ends(v, registrations, held)
  PROVE  op' = registrations /\ held' = {} /\ stage' = "idle" /\ verdict' = v
BY DEF Ends, Goes

\* The order of the layers is kept by whatever only adds operators.
LEMMA Added ==
  ASSUME LayersInOrder, \A o \in Ops : Exists(o) => Exists(o)'
  PROVE  /\ AllOf(PortableOps) => AllOf(PortableOps)'
         /\ AllOf(TritonOps) => AllOf(TritonOps)'
         /\ AllOf(ExcludedOps) => AllOf(ExcludedOps)'
         /\ \A n : Through(PortableOps, n) => Through(PortableOps, n)'
         /\ \A n : Through(TritonOps, n) => Through(TritonOps, n)'
         /\ \A n : Through(ExcludedOps, n) => Through(ExcludedOps, n)'
BY Lists DEF AllOf, Through

\* What one operator of a layer may come to.
LEMMA OneOperator ==
  ASSUME ~ outlives, ClaimsSound, NEW o \in Ops, NEW provider \in Providers \ {"nobody", "vllm"},
         provider = "stub" => o \notin Implemented \/ Exists(o)
  PROVE  /\ LeaveAlone(o) \/ Provide(o, provider) =>
              ClaimsSound' /\ Exists(o)' /\ \A q \in Ops : Exists(q) => Exists(q)'
         /\ DefineFails(o) \/ ImplFails(o, provider) =>
              ClaimsSound' /\ stage' = "idle" /\ verdict' = "failed"
              /\ \A q \in Ops : Exists(q) => Exists(q)'
<1>0. op \in [Ops -> Claim] /\ held = {}
  BY DEF ClaimsSound
<1>1. ASSUME LeaveAlone(o)
      PROVE  ClaimsSound' /\ Exists(o)' /\ \A q \in Ops : Exists(q) => Exists(q)'
  BY <1>1 DEF LeaveAlone, registry, ClaimsSound, Exists
<1>2. ASSUME Provide(o, provider)
      PROVE  ClaimsSound' /\ Exists(o)' /\ \A q \in Ops : Exists(q) => Exists(q)'
  <2> DEFINE c == [by |-> provider, kernel |-> TRUE]
  <2>1. ~ Exists(o) /\ op' = [op EXCEPT ![o] = c] /\ held' = held
    BY <1>2 DEF Provide
  <2>2. c \in Claim /\ c.by = provider /\ c.kernel /\ c # Unclaimed
    BY DEF Claim, Unclaimed, Providers
  <2> HIDE DEF c
  <2>3. op' \in [Ops -> Claim] /\ op'[o] = c /\ \A q \in Ops : q # o => op'[q] = op[q]
    BY <1>0, <2>1, <2>2
  <2>4. Exists(o)' /\ \A q \in Ops : Exists(q) => Exists(q)'
    BY <2>2, <2>3 DEF Exists
  <2>5. ClaimsSound'
    BY <2>1, <2>2, <2>3 DEF ClaimsSound, Exists
  <2>6. QED
    BY <2>4, <2>5
<1>3. ASSUME DefineFails(o)
      PROVE  /\ ClaimsSound' /\ stage' = "idle" /\ verdict' = "failed"
             /\ \A q \in Ops : Exists(q) => Exists(q)'
  <2>1. op' = op /\ held' = {} /\ stage' = "idle" /\ verdict' = "failed"
    BY <1>0, <1>3, EndsKeeps DEF DefineFails
  <2>2. QED
    BY <2>1 DEF ClaimsSound, Exists
<1>4. ASSUME ImplFails(o, provider)
      PROVE  /\ ClaimsSound' /\ stage' = "idle" /\ verdict' = "failed"
             /\ \A q \in Ops : Exists(q) => Exists(q)'
  <2> DEFINE half == [op EXCEPT ![o] = [by |-> provider, kernel |-> FALSE]]
  <2>1. /\ ~ Exists(o) /\ held' = {} /\ stage' = "idle" /\ verdict' = "failed"
        /\ op' = [q \in Ops |-> IF q \in held \cup {o} THEN Unclaimed ELSE half[q]]
    BY <1>4 DEF ImplFails, Ends, Goes
  <2>2. \A q \in Ops : op'[q] = op[q]
    BY <1>0, <2>1 DEF Exists
  <2>3. op' \in [Ops -> Claim]
    BY <2>1, <2>2, <1>0
  <2>4. QED
    BY <2>1, <2>2, <2>3 DEF ClaimsSound, Exists
<1>5. QED
  BY <1>1, <1>2, <1>3, <1>4

\* The end of an extension's turn, with its registrations: the call goes on, or it ends.
LEMMA ExtensionTurn ==
  ASSUME ~ outlives, held = {}, stage = "extensions", verdict # "ok", NEW r \in [Ops -> Claim],
         ExtensionDone(r)
  PROVE  /\ op' = r /\ held' = {}
         /\ \/ stage' = "extensions"
            \/ stage' = "portable" /\ at' = 1
            \/ stage' = "idle" /\ (verdict' = "ok" => strict)
<1> DEFINE v == Verdict(Extensions[at], r)
<1> HIDE DEF v
<1>1. CASE strict /\ v # "ok"
  BY <1>1, EndsKeeps DEF ExtensionDone, v
<1>2. CASE ~ (strict /\ v # "ok") /\ at < Len(Extensions)
  BY <1>2 DEF ExtensionDone, Goes, v
<1>3. CASE ~ (strict /\ v # "ok") /\ ~ at < Len(Extensions) /\ strict
  BY <1>3, EndsKeeps DEF ExtensionDone, v
<1>4. CASE ~ at < Len(Extensions) /\ ~ strict
  BY <1>4 DEF ExtensionDone, Goes, v
<1>5. QED
  BY <1>1, <1>2, <1>3, <1>4

--------------------------------------------------------------------------------
LEMMA BootIsSound ==
  ASSUME ~ outlives, ClaimsSound, LayersInOrder, Bootstrap \/ PlatformImport
  PROVE  ClaimsSound' /\ LayersInOrder'
<1>1. CASE Bootstrap
  BY <1>1 DEF Bootstrap, registry, ClaimsSound, LayersInOrder, Exists
<1>2. CASE PlatformImport
  <2>1. /\ stage = "platform" /\ stage' = "idle" /\ held' = held
        /\ portableInstalled' = portableInstalled /\ verdict' = verdict
        /\ op' = IF stableModule = "shim" THEN op
                 ELSE [o \in Ops |-> IF o \in foreign.ops
                        THEN [by |-> "vllm", kernel |-> o \in foreign.kernels] ELSE op[o]]
    BY <1>2 DEF PlatformImport
  <2>2. ~ portableInstalled /\ verdict = "none"
    BY <2>1 DEF LayersInOrder
  <2>3. LayersInOrder'
    BY <2>1, <2>2 DEF LayersInOrder
  <2>4. ASSUME NEW o \in Ops
        PROVE  /\ op'[o] \in Claim
               /\ op'[o].by = "stub" => op[o].by = "stub"
               /\ op'[o] = op[o] \/ op'[o].by = "vllm"
    BY <2>1 DEF ClaimsSound, Claim, Providers
  <2>5. op' \in [Ops -> Claim]
    <3>1. CASE stableModule = "shim"
      BY <2>1, <3>1 DEF ClaimsSound
    <3>2. CASE stableModule # "shim"
      <4>1. op' = [o \in Ops |-> op'[o]]
        BY <2>1, <3>2
      <4>2. QED
        BY <2>4, <4>1
    <3>3. QED
      BY <3>1, <3>2
  <2>6. ClaimsSound'
    BY <2>1, <2>4, <2>5 DEF ClaimsSound, Exists
  <2>7. QED
    BY <2>3, <2>6
<1>3. QED
  BY <1>1, <1>2

LEMMA CallsAreSound ==
  ASSUME ~ outlives, ClaimsSound, LayersInOrder, CallInstall \/ CallPreflight
  PROVE  ClaimsSound' /\ LayersInOrder'
BY DEF CallInstall, CallPreflight, Begin, Goes, registry, ClaimsSound, LayersInOrder, Exists, AllOf

LEMMA ExtensionsAreSound ==
  ASSUME ~ outlives, ClaimsSound, LayersInOrder, stage = "extensions" => verdict # "ok",
         ExtensionPresent \/ ImportExtension \/ ImportExtensionFails
  PROVE  ClaimsSound' /\ LayersInOrder'
<1>0. /\ op \in [Ops -> Claim] /\ held = {} /\ stage = "extensions" /\ verdict # "ok"
      /\ UNCHANGED << portableInstalled, strict >>
  BY DEF ClaimsSound, ExtensionPresent, ImportExtension, ImportExtensionFails, Absent
<1>1. ASSUME NEW r \in [Ops -> Claim], ExtensionDone(r),
             \A o \in Ops : r[o] = op[o] \/ (r[o].by = "extension" /\ r[o].kernel)
      PROVE  ClaimsSound' /\ LayersInOrder'
  <2>1. /\ op' = r /\ held' = {}
        /\ \/ stage' = "extensions"
           \/ stage' = "portable" /\ at' = 1
           \/ stage' = "idle" /\ (verdict' = "ok" => strict)
    BY <1>0, <1>1, ExtensionTurn
  <2>2. \A o \in Ops : Exists(o) => Exists(o)'
    <3>1. Unclaimed.by = "nobody"
      BY DEF Unclaimed
    <3>2. QED
      BY <1>1, <2>1, <3>1 DEF Exists
  <2>3. ClaimsSound'
    BY <1>1, <2>1 DEF ClaimsSound, Exists
  <2>4. Through(PortableOps, 1)'
    BY Lists DEF Through
  <2>5. portableInstalled' => AllOf(PortableOps)'
    BY <1>0, <2>2, Added DEF LayersInOrder
  <2>6. LayersInOrder'
    BY <1>0, <2>1, <2>4, <2>5, Lists DEF LayersInOrder
  <2>7. QED
    BY <2>3, <2>6
<1>2. CASE ExtensionPresent
  BY <1>0, <1>1, <1>2 DEF ExtensionPresent
<1>3. CASE ImportExtension
  <2> DEFINE r == [o \in Ops |-> IF o \in Extensions[at].ops
                     THEN [by |-> "extension", kernel |-> TRUE] ELSE op[o]]
  <2>1. r \in [Ops -> Claim]
    BY <1>0 DEF Claim, Providers
  <2>2. \A o \in Ops : r[o] = op[o] \/ (r[o].by = "extension" /\ r[o].kernel)
    OBVIOUS
  <2>3. ExtensionDone(r)
    BY <1>3 DEF ImportExtension
  <2> HIDE DEF r
  <2>4. QED
    BY <1>1, <2>1, <2>2, <2>3
<1>4. CASE ImportExtensionFails
  <2>1. /\ op' = op /\ held' = {}
        /\ \/ stage' = "extensions"
           \/ stage' = "portable" /\ at' = 1
           \/ stage' = "idle" /\ verdict' = "load_error"
    BY <1>0, <1>4, EndsKeeps DEF ImportExtensionFails, registry, Goes
  <2>2. ClaimsSound' /\ \A o \in Ops : Exists(o) => Exists(o)'
    BY <2>1 DEF ClaimsSound, Exists
  <2>3. Through(PortableOps, 1)'
    BY Lists DEF Through
  <2>4. portableInstalled' => AllOf(PortableOps)'
    BY <1>0, <2>2, Added DEF LayersInOrder
  <2>5. LayersInOrder'
    BY <1>0, <2>1, <2>3, <2>4, Lists DEF LayersInOrder
  <2>6. QED
    BY <2>2, <2>5
<1>5. QED
  BY <1>2, <1>3, <1>4

\* One operator more of a list is provided.
LEMMA OneMore ==
  ASSUME NEW list \in {PortableOps, TritonOps, ExcludedOps}, NEW n \in 1 .. Len(list),
         Through(list, n), Exists(list[n])', \A q \in Ops : Exists(q) => Exists(q)'
  PROVE  Through(list, n + 1)' /\ (n = Len(list) => AllOf(list)')
<1>1. Len(list) \in Nat /\ \A j \in 1 .. Len(list) : list[j] \in Ops
  BY Lists
<1>2. ASSUME NEW j \in 1 .. Len(list), j < n + 1 PROVE Exists(list[j])'
  <2>1. CASE j = n
    BY <2>1
  <2>2. CASE j < n
    BY <1>1, <2>2 DEF Through
  <2>3. QED
    BY <1>1, <1>2, <2>1, <2>2
<1>3. QED
  BY <1>1, <1>2 DEF Through, AllOf

LEMMA PortableIsSound ==
  ASSUME ~ outlives, ClaimsSound, LayersInOrder, PortableSkipped \/ PortableStep
  PROVE  ClaimsSound' /\ LayersInOrder'
<1>1. CASE PortableSkipped
  <2>1. /\ op' = op /\ held' = held /\ portableInstalled /\ portableInstalled'
        /\ stage' = "triton" /\ at' = 1
    BY <1>1 DEF PortableSkipped, Goes, registry
  <2>2. ClaimsSound' /\ AllOf(PortableOps)'
    BY <2>1 DEF ClaimsSound, LayersInOrder, AllOf, Exists
  <2>3. \A j \in 1 .. Len(TritonOps) : ~ j < 1
    BY Lists
  <2>4. QED
    BY <2>1, <2>2, <2>3, Lists DEF LayersInOrder, Through
<1>2. CASE PortableStep
  <2>0. stage = "portable" /\ ~ portableInstalled /\ at \in 1 .. Len(PortableOps)
        /\ Through(PortableOps, at)
    BY <1>2 DEF PortableStep, LayersInOrder
  <2>1. PICK n \in 1 .. Len(PortableOps), o \in Ops : n = at /\ o = PortableOps[n]
    BY <2>0, Lists
  <2>2. CASE (DefineFails(o) \/ ImplFails(o, "portable")) /\ UNCHANGED portableInstalled
    <3>1. ClaimsSound' /\ stage' = "idle" /\ verdict' = "failed"
      BY <2>2, OneOperator DEF Providers
    <3>2. QED
      BY <2>0, <2>2, <3>1 DEF LayersInOrder
  <2>3. CASE /\ LeaveAlone(o) \/ Provide(o, "portable")
             /\ Onward(PortableOps, "portable", "triton")
             /\ portableInstalled' = (at = Len(PortableOps))
    <3>1. ClaimsSound' /\ Exists(o)' /\ \A q \in Ops : Exists(q) => Exists(q)'
      BY <2>3, OneOperator DEF Providers
    <3>2. Through(PortableOps, n + 1)' /\ (n = Len(PortableOps) => AllOf(PortableOps)')
      BY <2>0, <2>1, <3>1, OneMore
    <3>3. CASE n < Len(PortableOps)
      <4>0. n # Len(PortableOps) /\ at < Len(PortableOps)
        BY <2>1, <3>3, Lists
      <4>1. stage' = "portable" /\ at' = n + 1 /\ ~ portableInstalled'
        <5>1. stage' = "portable" /\ at' = n + 1
          BY <2>1, <2>3, <4>0 DEF Onward, Goes
        <5>2. ~ portableInstalled'
          BY <2>1, <2>3, <4>0, Zenon
        <5>3. QED
          BY <5>1, <5>2
      <4>2. n + 1 \in 1 .. Len(PortableOps)
        BY <3>3, Lists
      <4>3. QED
        BY <3>1, <3>2, <4>1, <4>2 DEF LayersInOrder, Through
    <3>4. CASE n = Len(PortableOps)
      <4>1. stage' = "triton" /\ at' = 1
        BY <2>1, <2>3, <3>4, Lists DEF Onward, Goes
      <4>2. \A j \in 1 .. Len(TritonOps) : ~ j < 1
        BY Lists
      <4>3. QED
        BY <3>1, <3>2, <3>4, <4>1, <4>2, Lists DEF LayersInOrder, Through
    <3>5. QED
      BY <3>3, <3>4, Lists
  <2>4. QED
    BY <1>2, <2>1, <2>2, <2>3 DEF PortableStep
<1>3. QED
  BY <1>1, <1>2

LEMMA TritonIsSound ==
  ASSUME ~ outlives, ClaimsSound, LayersInOrder, TritonStep
  PROVE  ClaimsSound' /\ LayersInOrder'
<1>0. stage = "triton" /\ at \in 1 .. Len(TritonOps) /\ Through(TritonOps, at)
      /\ AllOf(PortableOps) /\ UNCHANGED portableInstalled
  BY DEF TritonStep, LayersInOrder
<1>1. PICK n \in 1 .. Len(TritonOps), o \in Ops : n = at /\ o = TritonOps[n]
  BY <1>0, Lists
<1>2. CASE DefineFails(o)
  <2>1. ClaimsSound' /\ stage' = "idle" /\ verdict' = "failed"
        /\ \A q \in Ops : Exists(q) => Exists(q)'
    BY <1>2, OneOperator DEF Providers
  <2>2. AllOf(PortableOps)'
    BY <1>0, <2>1, Added
  <2>3. QED
    BY <2>1, <2>2 DEF LayersInOrder
<1>3. CASE (LeaveAlone(o) \/ Provide(o, "triton")) /\ Onward(TritonOps, "triton", "stubs")
  <2>1. ClaimsSound' /\ Exists(o)' /\ \A q \in Ops : Exists(q) => Exists(q)'
    BY <1>3, OneOperator DEF Providers
  <2>2. AllOf(PortableOps)'
    BY <1>0, <2>1, Added
  <2>3. Through(TritonOps, n + 1)' /\ (n = Len(TritonOps) => AllOf(TritonOps)')
    BY <1>0, <1>1, <2>1, OneMore
  <2>4. CASE n < Len(TritonOps)
    <3>1. stage' = "triton" /\ at' = n + 1 /\ n + 1 \in 1 .. Len(TritonOps)
      BY <1>1, <1>3, <2>4, Lists DEF Onward, Goes
    <3>2. QED
      BY <2>1, <2>2, <2>3, <3>1 DEF LayersInOrder, Through
  <2>5. CASE n = Len(TritonOps)
    <3>1. stage' = "stubs" /\ at' = 1
      BY <1>1, <1>3, <2>5, Lists DEF Onward, Goes
    <3>2. \A j \in 1 .. Len(ExcludedOps) : ~ j < 1
      BY Lists
    <3>3. QED
      BY <2>1, <2>2, <2>3, <2>5, <3>1, <3>2, Lists DEF LayersInOrder, Through
  <2>6. QED
    BY <2>4, <2>5, Lists
<1>4. QED
  BY <1>1, <1>2, <1>3 DEF TritonStep

\* A stub is registered after the other layers, for what none of them has claimed.
LEMMA StubIsSound ==
  ASSUME ~ outlives, ClaimsSound, LayersInOrder, StubStep
  PROVE  ClaimsSound' /\ LayersInOrder'
<1>0. /\ stage = "stubs" /\ at \in 1 .. Len(ExcludedOps) /\ Through(ExcludedOps, at)
      /\ AllOf(PortableOps) /\ AllOf(TritonOps) /\ UNCHANGED portableInstalled
  BY DEF StubStep, LayersInOrder
<1>1. PICK n \in 1 .. Len(ExcludedOps), o \in Ops : n = at /\ o = ExcludedOps[n]
  BY <1>0, Lists
<1>2. o \notin Implemented \/ Exists(o)
  BY <1>0, <1>1, Lists DEF Implemented, AllOf
<1>3. ASSUME Exists(o)', \A q \in Ops : Exists(q) => Exists(q)'
      PROVE  /\ AllOf(PortableOps)' /\ AllOf(TritonOps)' /\ Through(ExcludedOps, n + 1)'
             /\ n = Len(ExcludedOps) => AllOf(ExcludedOps)'
  BY <1>0, <1>1, <1>3, Added, OneMore
<1>4. CASE DefineFails(o) \/ ImplFails(o, "stub")
  <2>1. ClaimsSound' /\ stage' = "idle" /\ verdict' = "failed"
        /\ \A q \in Ops : Exists(q) => Exists(q)'
    BY <1>2, <1>4, OneOperator DEF Providers
  <2>2. AllOf(PortableOps)'
    BY <1>0, <2>1, Added
  <2>3. QED
    BY <2>1, <2>2 DEF LayersInOrder
<1>5. CASE (LeaveAlone(o) \/ Provide(o, "stub")) /\ at < Len(ExcludedOps) /\ Goes("stubs", at + 1)
  <2>1. ClaimsSound' /\ Exists(o)' /\ \A q \in Ops : Exists(q) => Exists(q)'
    BY <1>2, <1>5, OneOperator DEF Providers
  <2>2. stage' = "stubs" /\ at' = n + 1 /\ n + 1 \in 1 .. Len(ExcludedOps)
    BY <1>1, <1>5, Lists DEF Goes
  <2>3. QED
    BY <1>3, <2>1, <2>2 DEF LayersInOrder, Through
<1>6. CASE /\ at = Len(ExcludedOps)
           /\ Ends("ok", [op EXCEPT ![o] = IF Exists(o) THEN @ ELSE [by |-> "stub", kernel |-> TRUE]],
                   held)
  <2> DEFINE c == IF Exists(o) THEN op[o] ELSE [by |-> "stub", kernel |-> TRUE]
             r == [op EXCEPT ![o] = c]
  <2>1. op \in [Ops -> Claim] /\ held = {}
    BY DEF ClaimsSound
  <2>2. c \in Claim /\ c # Unclaimed /\ (c = op[o] \/ (c.by = "stub" /\ c.kernel /\ o \notin Implemented))
    BY <1>1, <1>2, <2>1 DEF Claim, Providers, Unclaimed, Exists
  <2>4. Ends("ok", r, held)
    BY <1>6
  <2> HIDE DEF c
  <2>3. r \in [Ops -> Claim] /\ r[o] = c /\ \A q \in Ops : q # o => r[q] = op[q]
    BY <1>1, <2>1, <2>2
  <2> HIDE DEF r
  <2>5. op' = r /\ held' = {} /\ stage' = "idle" /\ verdict' = "ok"
    BY <2>1, <2>3, <2>4, EndsKeeps
  <2>6. op'[o] # Unclaimed /\ \A q \in Ops : Exists(q) => Exists(q)'
    BY <2>2, <2>3, <2>5 DEF Exists
  <2>7. ClaimsSound'
    <3>1. \A q \in Ops : op'[q] = op[q]
            \/ (op'[q].by = "stub" /\ op'[q].kernel /\ q \notin Implemented)
      BY <2>2, <2>3, <2>5
    <3>2. QED
      BY <2>3, <2>5, <3>1 DEF ClaimsSound, Exists
  <2>8. QED
    BY <1>0, <1>1, <1>3, <1>6, <2>5, <2>6, <2>7 DEF LayersInOrder, Exists
<1>7. QED
  BY <1>1, <1>4, <1>5, <1>6 DEF StubStep

--------------------------------------------------------------------------------
\* A call that is in its extensions has no verdict yet.
Running == stage = "extensions" => verdict = "running"

LEMMA RunningNext == ASSUME Running, [NativeNext]_nativeVars PROVE Running'
BY DEF Running, NativeNext, Bootstrap, PlatformImport, CallInstall, CallPreflight, Begin,
       ExtensionPresent, ImportExtension, ImportExtensionFails, ExtensionDone, Ends, Goes,
       Absent, PortableSkipped, PortableStep, TritonStep, StubStep, LeaveAlone, Provide,
       DefineFails, ImplFails, Onward, Drop, nativeVars, registry

LEMMA LayersInit == ASSUME NativeInit PROVE Running /\ LayersSound
BY DEF NativeInit, Running, LayersSound, ClaimsSound, LayersInOrder, Claim, Providers, Unclaimed, Exists

LEMMA LayersNext ==
  ASSUME Running, LayersSound, [NativeNext]_nativeVars
  PROVE  LayersSound'
<1>1. outlives' = outlives
  BY DEF NativeNext, Bootstrap, PlatformImport, CallInstall, CallPreflight, Begin,
         ExtensionPresent, ImportExtension, ImportExtensionFails, PortableSkipped,
         PortableStep, TritonStep, StubStep, Drop, nativeVars
<1>2. SUFFICES ASSUME ~ outlives PROVE ClaimsSound' /\ LayersInOrder'
  BY <1>1 DEF LayersSound
<1>3. ClaimsSound /\ LayersInOrder
  BY <1>2 DEF LayersSound
<1>4. CASE Drop
  BY <1>3, <1>4 DEF Drop, ClaimsSound
<1>5. CASE UNCHANGED nativeVars
  BY <1>3, <1>5 DEF nativeVars, registry, ClaimsSound, LayersInOrder, AllOf, Through, Exists
<1>6. QED
  BY <1>2, <1>3, <1>4, <1>5, BootIsSound, CallsAreSound, ExtensionsAreSound, PortableIsSound,
     TritonIsSound, StubIsSound DEF NativeNext, Running

\* The layers run in order and lose nothing, whatever fails and however often the calls
\* are repeated, while no exception keeps a Library alive.
THEOREM LayersAreSound == NativeSpec => [](Running /\ LayersSound)
<1>1. QED
  BY LayersInit, LayersNext, RunningNext, PTL DEF NativeSpec

\* "stubs must never shadow a real implementation".
THEOREM NoStubShadows == NativeSpec => []StubsShadowNothing
<1>1. LayersSound => StubsShadowNothing
  BY DEF LayersSound, ClaimsSound, StubsShadowNothing, Implemented
<1>2. QED
  BY <1>1, LayersAreSound, PTL

\* native.install() that returns has given every operator of its layers a kernel.
THEOREM InstalledOpsAreComplete == NativeSpec => []InstalledIsComplete
<1>1. LayersSound => InstalledIsComplete
  <2> SUFFICES ASSUME LayersSound, stage = "idle", verdict = "ok", ~ strict, ~ outlives,
                      NEW o \in ToSet(PortableOps) \cup ToSet(ExcludedOps)
               PROVE  Exists(o) /\ (op[o].by # "vllm" => op[o].kernel)
    BY DEF InstalledIsComplete
  <2>1. o \in Ops /\ Exists(o)
    BY Lists DEF LayersSound, LayersInOrder, AllOf, Ops
  <2>2. QED
    BY <2>1 DEF LayersSound, ClaimsSound
<1>2. QED
  BY <1>1, LayersAreSound, PTL

--------------------------------------------------------------------------------
(* The dense GEMM of a layer.                                                  *)

Classes == {"PPUInt8", "PPUDeepGemmFP8", "PPUCutlassFP8", "PPUDeepGemmFp8Block",
            "PPUCutlassFp8Block", "upstream", "other"}

\* What a candidate list holds beside the plugin's kernels: another plugin appends, before
\* or after.
OfOthers == { << "upstream" >>, << "upstream", "other" >> }

CandidatesInOrder ==
  /\ registered \in BOOLEAN
  /\ DOMAIN possible = KernelTypes
  /\ \A k \in KernelTypes :
       \E others \in OfOthers :
         possible[k] = IF registered THEN _selection_plan[k] \o others ELSE others

\* The kernel a layer gets, whoever else registered.
Chosen ==
  CASE layerSpec.kind = "bf16" -> "dense"
    [] layerSpec.kind = "int8" -> "PPUInt8"
    [] layerSpec.kind = "fp8"  ->
         IF PPUDeepGemmFP8Can(layerSpec) THEN "PPUDeepGemmFP8" ELSE "PPUCutlassFP8"
    [] layerSpec.kind = "fp8_block" ->
         IF PPUDeepGemmFp8BlockCan(layerSpec) THEN "PPUDeepGemmFp8Block"
         ELSE IF PPUCutlassFp8BlockCan(layerSpec) THEN "PPUCutlassFp8Block" ELSE "upstream"

KernelIsChosen ==
  \/ kernel = [class |-> NoValue]
  \/ kernel = [class |-> Chosen]
  \/ \E acext, deepgemm \in BOOLEAN :
       kernel = [class |-> Chosen, acext |-> acext, deepgemm |-> deepgemm]

\* What the libraries were chosen by when the weights of an INT8 layer were loaded, and the
\* order that the weights were given for it.
AcextAllowed == lenv.backend \in {NoValue, "acext"} /\ ~ lenv.ppu15 /\ lenv.acext
DeepgemmAllowed == lenv.backend \in {NoValue, "deepgemm"} /\ is_deep_gemm_supported

WeightsFitKernel ==
  IF NotProcessed THEN weights = Loaded(layerSpec)
  ELSE CASE kernel.class = "PPUInt8" ->
              /\ kernel.acext = AcextAllowed /\ kernel.deepgemm = DeepgemmAllowed
              /\ weights.w = IF kernel.acext \/ kernel.deepgemm THEN Matrix("N", "K", "row")
                             ELSE Matrix("K", "N", "col")
              /\ layerSpec.symmetric => weights.azp_adj = NoValue
         [] kernel.class = "PPUDeepGemmFP8" -> weights.w = Matrix("N", "K", "row")
         [] OTHER -> weights = Loaded(layerSpec)

\* The call a layer makes, as LaunchFitsLayer has it.
CallFits ==
  launch.lib # NoValue /\ (layerSpec.kind = "int8" => layerSpec.symmetric) =>
    /\ launch.B = Takes(launch.lib)
    /\ Allowed(launch.lib)
    /\ launch.bias = NoValue <=> ~ layerSpec.bias
    /\ launch.out = "N"
    /\ layerSpec.kind = "fp8" /\ launch.lib = "deepgemm" => launch.scale = "N"

LinearTyped == lenv \in LinearEnvs /\ layerSpec \in Layers

LinearInv == LinearTyped /\ CandidatesInOrder /\ KernelIsChosen /\ WeightsFitKernel /\ CallFits

LEMMA LayerKinds ==
  ASSUME LinearTyped
  PROVE  /\ layerSpec.kind \in {"int8", "fp8", "fp8_block", "bf16"}
         /\ layerSpec.kind = "int8" => layerSpec \in Int8Layers
         /\ layerSpec.kind = "fp8" => layerSpec \in Fp8Layers
         /\ layerSpec.kind = "fp8_block" => layerSpec \in BlockLayers
         /\ layerSpec.kind = "bf16" => layerSpec \in Bf16Layers
BY DEF LinearTyped, Layers, Int8Layers, Fp8Layers, BlockLayers, Bf16Layers

LEMMA PlanIs ==
  /\ _selection_plan["int8"] = << "PPUInt8" >>
  /\ _selection_plan["fp8"] = << "PPUDeepGemmFP8", "PPUCutlassFP8" >>
  /\ _selection_plan["fp8_block"] = << "PPUDeepGemmFp8Block", "PPUCutlassFp8Block" >>
BY DEF _selection_plan, KernelTypes

\* A class that nobody has registered is put first.
LEMMA PutFirst ==
  ASSUME NEW candidates, NEW class, \A i \in DOMAIN candidates : candidates[i] # class
  PROVE  _register_first(candidates, class) = << class >> \o candidates
BY DEF _register_first, ToSet

LEMMA Pair ==
  ASSUME NEW S, NEW a \in S, NEW b \in S
  PROVE  << a, b >> = << a >> \o << b >>
<1> DEFINE s == << a >>  t == << b >>  u == << a, b >>
<1>1. /\ s \in Seq(S) /\ t \in Seq(S) /\ u \in Seq(S)
      /\ Len(u) = 2 /\ Len(s) = 1 /\ Len(t) = 1 /\ u[1] = s[1] /\ u[2] = t[1]
  OBVIOUS
<1> HIDE DEF s, t, u
<1>2. /\ s \o t \in Seq(S) /\ Len(s \o t) = Len(u)
      /\ \A i \in 1 .. Len(s \o t) : (s \o t)[i] = u[i]
  <2>1. /\ s \o t \in Seq(S) /\ Len(s \o t) = Len(s) + Len(t)
        /\ \A i \in 1 .. Len(s) + Len(t) : (s \o t)[i] = IF i <= Len(s) THEN s[i] ELSE t[i - Len(s)]
    BY <1>1, ConcatProperties
  <2>2. (s \o t)[1] = u[1] /\ (s \o t)[2] = u[2]
    BY <1>1, <2>1
  <2>3. Len(s \o t) = 2 /\ \A i \in 1 .. 2 : i = 1 \/ i = 2
    BY <1>1, <2>1
  <2> QED BY <1>1, <2>1, <2>2, <2>3
<1>3. u = s \o t BY <1>1, <1>2, SeqEqual, Zenon
<1> QED BY <1>3 DEF s, t, u

LEMMA OthersType ==
  ASSUME NEW others \in OfOthers
  PROVE  /\ others \in Seq(Classes) /\ Len(others) \in {1, 2} /\ others[1] = "upstream"
         /\ \A i \in DOMAIN others : others[i] \in {"upstream", "other"}
<1>1. CASE others = << "upstream" >> BY <1>1 DEF Classes
<1>2. CASE others = << "upstream", "other" >> BY <1>2 DEF Classes
<1> QED BY <1>1, <1>2 DEF OfOthers

LEMMA Inserted ==
  ASSUME NEW k \in KernelTypes, NEW others \in OfOthers
  PROVE  Insert(others, _selection_plan[k]) = _selection_plan[k] \o others
<1>1. ASSUME NEW a \in Classes, a \notin {"upstream", "other"}
      PROVE  _register_first(others, a) = << a >> \o others
  BY <1>1, OthersType, PutFirst
<1>2. ASSUME NEW a \in Classes, NEW b \in Classes, a # b,
             a \notin {"upstream", "other"}, b \notin {"upstream", "other"}
      PROVE  _register_first(_register_first(others, b), a) = << a, b >> \o others
  <2>1. _register_first(others, b) = << b >> \o others BY <1>1, <1>2
  <2>2. others \in Seq(Classes) /\ << a >> \in Seq(Classes) /\ << b >> \in Seq(Classes)
    BY OthersType
  <2>3. \A i \in DOMAIN (<< b >> \o others) : (<< b >> \o others)[i] # a
    <3> DEFINE t == << b >>
    <3>1. t \in Seq(Classes) /\ Len(t) = 1 /\ t[1] = b BY <1>2
    <3> HIDE DEF t
    <3>2. \A i \in DOMAIN (t \o others) : (t \o others)[i] # a
      BY <1>2, <2>2, <3>1, OthersType, ConcatProperties
    <3> QED BY <3>2 DEF t
  <2>4. _register_first(<< b >> \o others, a) = << a >> \o (<< b >> \o others)
    BY <2>3, PutFirst
  <2>5. << a >> \o (<< b >> \o others) = << a, b >> \o others
    <3>1. << a, b >> = << a >> \o << b >> BY <1>2, Pair
    <3>2. (<< a >> \o << b >>) \o others = << a >> \o (<< b >> \o others)
      BY <2>2, ConcatAssociative
    <3> QED BY <3>1, <3>2, Zenon
  <2> QED BY <2>1, <2>4, <2>5, Zenon
<1>3. CASE k = "int8"
  <2>1. Len(<< "PPUInt8" >>) = 1 OBVIOUS
  <2> QED BY <1>1, <1>3, <2>1, PlanIs DEF Insert, Classes
<1>4. CASE k = "fp8"
  <2>1. Len(<< "PPUDeepGemmFP8", "PPUCutlassFP8" >>) = 2 OBVIOUS
  <2> QED BY <1>2, <1>4, <2>1, PlanIs DEF Insert, Classes
<1>5. CASE k = "fp8_block"
  <2>1. Len(<< "PPUDeepGemmFp8Block", "PPUCutlassFp8Block" >>) = 2 OBVIOUS
  <2> QED BY <1>2, <1>5, <2>1, PlanIs DEF Insert, Classes
<1> QED BY <1>3, <1>4, <1>5 DEF KernelTypes

\* The first candidate that can run the layer, as vLLM looks for it.
FirstCan(list, l) ==
  LET can(class) == can_implement(class, l) IN SelectInSeq(list, can)

LEMMA FirstThatCan ==
  ASSUME NEW l, NEW list, NEW i \in 1 .. Len(list), Len(list) \in Nat,
         can_implement(list[i], l), \A j \in 1 .. i - 1 : ~ can_implement(list[j], l)
  PROVE  FirstCan(list, l) = i
<1> DEFINE I == {j \in 1 .. Len(list) : can_implement(list[j], l)}
<1>1. i \in I /\ \A j \in I : i <= j OBVIOUS
<1>2. \A m \in I : (\A j \in I : m <= j) => m = i BY <1>1
<1>3. Min(I) = i BY <1>1, <1>2 DEF Min
<1>4. FirstCan(list, l) = IF I # {} THEN Min(I) ELSE 0
  BY DEF FirstCan, SelectInSeq
<1> QED BY <1>1, <1>3, <1>4

LEMMA SelectionIsChosen ==
  ASSUME LinearInv, registered, layerSpec.kind # "bf16"
  PROVE  possible[layerSpec.kind][FirstCan(possible[layerSpec.kind], layerSpec)] = Chosen
<1> DEFINE k == layerSpec.kind
           plan == _selection_plan[k]
           list == possible[k]
<1>1. k \in KernelTypes /\ k \in {"int8", "fp8", "fp8_block"}
  BY LayerKinds DEF LinearInv, KernelTypes
<1>2. PICK others \in OfOthers : list = plan \o others
  BY <1>1 DEF LinearInv, CandidatesInOrder
<1>3. plan \in Seq(Classes) /\ Len(plan) >= 1
  <2>1. CASE k = "int8" BY <2>1, PlanIs DEF Classes
  <2>2. CASE k = "fp8" BY <2>2, PlanIs DEF Classes
  <2>3. CASE k = "fp8_block" BY <2>3, PlanIs DEF Classes
  <2> QED BY <1>1, <2>1, <2>2, <2>3
<1>4. /\ Len(list) \in Nat /\ Len(list) > Len(plan)
      /\ \A i \in 1 .. Len(plan) : list[i] = plan[i]
      /\ list[Len(plan) + 1] = "upstream"
  <2> HIDE DEF plan
  <2> QED BY <1>2, <1>3, OthersType, ConcatProperties
<1>5. CASE k = "int8"
  <2>1. list[1] = "PPUInt8" BY <1>3, <1>4, <1>5, PlanIs
  <2>2. can_implement("PPUInt8", layerSpec) BY DEF can_implement
  <2>3. FirstCan(list, layerSpec) = 1
    <3> HIDE DEF list, plan
    <3> QED BY <1>3, <1>4, <2>1, <2>2, FirstThatCan
  <2> QED BY <1>5, <2>1, <2>3 DEF Chosen
<1>6. CASE k = "fp8"
  <2>1. Len(list) >= 3 /\ list[1] = "PPUDeepGemmFP8" /\ list[2] = "PPUCutlassFP8"
    BY <1>4, <1>6, PlanIs
  <2>2. /\ can_implement("PPUDeepGemmFP8", layerSpec) <=> PPUDeepGemmFP8Can(layerSpec)
        /\ can_implement("PPUCutlassFP8", layerSpec)
    BY DEF can_implement
  <2>3. FirstCan(list, layerSpec) = IF PPUDeepGemmFP8Can(layerSpec) THEN 1 ELSE 2
    <3> HIDE DEF list, plan
    <3>1. CASE PPUDeepGemmFP8Can(layerSpec) BY <1>4, <2>1, <2>2, <3>1, FirstThatCan
    <3>2. CASE ~ PPUDeepGemmFP8Can(layerSpec)
      <4>1. \A j \in 1 .. 2 - 1 : ~ can_implement(list[j], layerSpec) BY <2>1, <2>2, <3>2
      <4> QED BY <1>4, <2>1, <2>2, <3>2, <4>1, FirstThatCan
    <3> QED BY <3>1, <3>2
  <2> QED BY <1>6, <2>1, <2>3 DEF Chosen
<1>7. CASE k = "fp8_block"
  <2>1. /\ Len(list) >= 3 /\ list[1] = "PPUDeepGemmFp8Block" /\ list[2] = "PPUCutlassFp8Block"
        /\ list[3] = "upstream"
    BY <1>4, <1>7, PlanIs
  <2>2. /\ can_implement("PPUDeepGemmFp8Block", layerSpec) <=> PPUDeepGemmFp8BlockCan(layerSpec)
        /\ can_implement("PPUCutlassFp8Block", layerSpec) <=> PPUCutlassFp8BlockCan(layerSpec)
        /\ can_implement("upstream", layerSpec)
    BY DEF can_implement
  <2>3. FirstCan(list, layerSpec)
          = IF PPUDeepGemmFp8BlockCan(layerSpec) THEN 1
            ELSE IF PPUCutlassFp8BlockCan(layerSpec) THEN 2 ELSE 3
    <3> HIDE DEF list, plan
    <3>1. CASE PPUDeepGemmFp8BlockCan(layerSpec) BY <1>4, <2>1, <2>2, <3>1, FirstThatCan
    <3>2. CASE ~ PPUDeepGemmFp8BlockCan(layerSpec) /\ PPUCutlassFp8BlockCan(layerSpec)
      <4>1. \A j \in 1 .. 2 - 1 : ~ can_implement(list[j], layerSpec) BY <2>1, <2>2, <3>2
      <4> QED BY <1>4, <2>1, <2>2, <3>2, <4>1, FirstThatCan
    <3>3. CASE ~ PPUDeepGemmFp8BlockCan(layerSpec) /\ ~ PPUCutlassFp8BlockCan(layerSpec)
      <4>1. \A j \in 1 .. 3 - 1 : ~ can_implement(list[j], layerSpec) BY <2>1, <2>2, <3>3
      <4> QED BY <1>4, <2>1, <2>2, <3>3, <4>1, FirstThatCan
    <3> QED BY <3>1, <3>2, <3>3
  <2> QED BY <1>7, <2>1, <2>3 DEF Chosen
<1> QED BY <1>1, <1>5, <1>6, <1>7

LEMMA LinearInitSound == ASSUME LinearInit PROVE LinearInv
<1>1. LinearTyped BY DEF LinearInit, LinearTyped
<1>2. CandidatesInOrder BY DEF LinearInit, CandidatesInOrder, OfOthers
<1>3. KernelIsChosen BY DEF LinearInit, KernelIsChosen
<1>4. WeightsFitKernel BY DEF LinearInit, WeightsFitKernel, NotProcessed
<1>5. CallFits BY DEF LinearInit, CallFits, Unlaunched
<1> QED BY <1>1, <1>2, <1>3, <1>4, <1>5 DEF LinearInv

\* What depends on the layer and the environment alone.
LEMMA LayerKept ==
  ASSUME LinearTyped, UNCHANGED << lenv, layerSpec >>
  PROVE  /\ LinearTyped' /\ Chosen' = Chosen /\ AcextAllowed' = AcextAllowed
         /\ DeepgemmAllowed' = DeepgemmAllowed
         /\ \A lib : Allowed(lib)' <=> Allowed(lib)
BY DEF LinearTyped, Chosen, AcextAllowed, DeepgemmAllowed, is_deep_gemm_supported, Allowed,
       PPUDeepGemmFP8Can, PPUDeepGemmFp8BlockCan, PPUCutlassFp8BlockCan,
       should_use_deepgemm_for_fp8_linear

LEMMA CallKept ==
  ASSUME LinearInv, UNCHANGED << lenv, layerSpec, launch >>
  PROVE  CallFits'
BY LayerKept DEF LinearInv, CallFits

LEMMA RegisterSound == ASSUME LinearInv, register PROVE LinearInv'
<1> USE DEF LinearInv
<1>1. UNCHANGED << lenv, layerSpec, kernel, weights, launch >> BY DEF register
<1>2. CandidatesInOrder'
  <2>1. registered' = TRUE /\ ~ registered
        /\ possible' = [k \in KernelTypes |-> Insert(possible[k], _selection_plan[k])]
    BY DEF register
  <2>2. ASSUME NEW k \in KernelTypes
        PROVE  \E others \in OfOthers : possible'[k] = _selection_plan[k] \o others
    <3>1. PICK others \in OfOthers : possible[k] = others BY <2>1 DEF CandidatesInOrder
    <3>2. possible'[k] = _selection_plan[k] \o others BY <2>1, <3>1, Inserted
    <3> QED BY <3>2
  <2> QED BY <2>1, <2>2 DEF CandidatesInOrder
<1>3. KernelIsChosen' BY <1>1, LayerKept DEF KernelIsChosen
<1>4. WeightsFitKernel' BY <1>1, LayerKept DEF WeightsFitKernel, NotProcessed
<1> QED BY <1>1, <1>2, <1>3, <1>4, LayerKept, CallKept

LEMMA OtherRegisters ==
  ASSUME LinearInv, NEW k \in KernelTypes, register_linear_kernel(k)
  PROVE  LinearInv'
<1> USE DEF LinearInv
<1>1. UNCHANGED << lenv, layerSpec, registered, kernel, weights, launch >>
  BY DEF register_linear_kernel
<1>2. CandidatesInOrder'
  <2>1. "other" \notin ToSet(possible[k])
        /\ possible' = [possible EXCEPT ![k] = Append(@, "other")]
    BY DEF register_linear_kernel
  <2>2. PICK others \in OfOthers :
          possible[k] = IF registered THEN _selection_plan[k] \o others ELSE others
    BY DEF CandidatesInOrder
  <2>3. _selection_plan[k] \in Seq(Classes)
    <3>1. CASE k = "int8" BY <3>1, PlanIs DEF Classes
    <3>2. CASE k = "fp8" BY <3>2, PlanIs DEF Classes
    <3>3. CASE k = "fp8_block" BY <3>3, PlanIs DEF Classes
    <3> QED BY <3>1, <3>2, <3>3 DEF KernelTypes
  <2>4. others = << "upstream" >>
    <3>1. SUFFICES ASSUME others = << "upstream", "other" >> PROVE FALSE BY DEF OfOthers
    <3>2. Len(others) = 2 /\ others[2] = "other" /\ others \in Seq(Classes)
      BY <3>1 DEF Classes
    <3> DEFINE list == possible[k]  plan == _selection_plan[k]
    <3>3. \E i \in DOMAIN list : list[i] = "other"
      <4>1. CASE ~ registered BY <2>2, <3>2, <4>1
      <4>2. CASE registered
        <5>1. list = plan \o others BY <2>2, <4>2
        <5>0. plan \in Seq(Classes) BY <2>3
        <5> HIDE DEF list, plan
        <5>2. /\ list \in Seq(Classes) /\ Len(list) = Len(plan) + 2
              /\ list[Len(plan) + 2] = "other" /\ Len(plan) \in Nat
          <6>1. Len(plan) \in Nat BY <5>0
          <6>2. /\ plan \o others \in Seq(Classes)
                /\ Len(plan \o others) = Len(plan) + Len(others)
                /\ \A i \in 1 .. Len(plan) + Len(others) :
                     (plan \o others)[i] = IF i <= Len(plan) THEN plan[i] ELSE others[i - Len(plan)]
            BY <3>2, <5>0, ConcatProperties, Zenon
          <6> HIDE <3>1
          <6> QED BY <3>2, <5>1, <6>1, <6>2
        <5> QED BY <5>2
      <4> QED BY <4>1, <4>2 DEF CandidatesInOrder
    <3> QED BY <2>1, <3>3 DEF ToSet
  <2>5. /\ << "upstream" >> \o << "other" >> = << "upstream", "other" >>
        /\ Append(others, "other") = << "upstream", "other" >>
    <3>1. "upstream" \in Classes /\ "other" \in Classes BY DEF Classes
    <3>2. << "upstream" >> \o << "other" >> = << "upstream", "other" >> BY <3>1, Pair, Zenon
    <3>3. others \in Seq(Classes) BY <2>4, <3>1
    <3>4. Append(others, "other") = others \o << "other" >> BY <3>1, <3>3, AppendIsConcat, Zenon
    <3> QED BY <2>4, <3>2, <3>4, Zenon
  <2>6. possible'[k] = IF registered THEN _selection_plan[k] \o << "upstream", "other" >>
                       ELSE << "upstream", "other" >>
    <3>1. possible'[k] = Append(possible[k], "other") BY <2>1 DEF CandidatesInOrder
    <3>2. CASE ~ registered BY <2>2, <2>5, <3>1, <3>2
    <3>3. CASE registered
      <4> DEFINE plan == _selection_plan[k]  both == << "upstream", "other" >>
      <4>1. plan \in Seq(Classes) /\ others \in Seq(Classes) /\ << "other" >> \in Seq(Classes)
        BY <2>3, <2>4 DEF Classes
      <4>2. possible[k] = plan \o others BY <2>2, <3>3
      <4>3. others \o << "other" >> = both BY <2>4, <2>5, Zenon
      <4> HIDE DEF plan, both
      <4>4. plan \o others \in Seq(Classes) BY <4>1, ConcatProperties
      <4>5. Append(plan \o others, "other") = (plan \o others) \o << "other" >>
        BY <4>4, AppendIsConcat DEF Classes
      <4>6. (plan \o others) \o << "other" >> = plan \o (others \o << "other" >>)
        BY <4>1, ConcatAssociative
      <4>7. possible'[k] = plan \o both BY <3>1, <4>2, <4>3, <4>5, <4>6, Zenon
      <4> QED BY <3>3, <4>7 DEF plan, both
    <3> QED BY <3>2, <3>3 DEF CandidatesInOrder
  <2> QED BY <1>1, <2>1, <2>6 DEF CandidatesInOrder, OfOthers
<1>3. KernelIsChosen' BY <1>1, LayerKept DEF KernelIsChosen
<1>4. WeightsFitKernel' BY <1>1, LayerKept DEF WeightsFitKernel, NotProcessed
<1> QED BY <1>1, <1>2, <1>3, <1>4, LayerKept, CallKept

LEMMA SelectSound == ASSUME LinearInv, SelectKernel PROVE LinearInv'
<1> USE DEF LinearInv
<1>1. UNCHANGED << lenv, layerSpec, possible, registered, weights, launch >> /\ registered
      /\ kernel.class = NoValue
  BY DEF SelectKernel
<1>2. kernel' = [class |-> Chosen]
  <2>1. CASE layerSpec.kind = "bf16" BY <2>1 DEF SelectKernel, Chosen
  <2>2. CASE layerSpec.kind # "bf16"
    <3>1. kernel' = [class |-> possible[layerSpec.kind][FirstCan(possible[layerSpec.kind], layerSpec)]]
      BY <2>2 DEF SelectKernel, FirstCan
    <3> QED BY <1>1, <2>2, <3>1, SelectionIsChosen
  <2> QED BY <2>1, <2>2
<1>3. KernelIsChosen' BY <1>1, <1>2, LayerKept DEF KernelIsChosen
<1>4. NotProcessed /\ NotProcessed'
  <2>1. Chosen # NoValue BY LayerKinds DEF Chosen, NoValue
  <2>2. kernel = [class |-> NoValue] BY <1>1, <2>1 DEF KernelIsChosen
  <2> QED BY <1>2, <2>2 DEF NotProcessed
<1>5. WeightsFitKernel' BY <1>1, <1>4 DEF WeightsFitKernel
<1>6. CandidatesInOrder' BY <1>1 DEF CandidatesInOrder
<1> QED BY <1>1, <1>3, <1>5, <1>6, LayerKept, CallKept

\* A layer that has its kernel and not yet its weights.
LEMMA ToProcess ==
  ASSUME LinearInv, kernel.class # NoValue, NotProcessed
  PROVE  kernel = [class |-> Chosen] /\ weights = Loaded(layerSpec)
BY DEF LinearInv, KernelIsChosen, WeightsFitKernel, NotProcessed

LEMMA ProcessSound ==
  ASSUME LinearInv, PPUInt8ProcessWeights \/ PPUDeepGemmFP8ProcessWeights \/ ProcessWeights
  PROVE  LinearInv'
<1> USE DEF LinearInv
<1>1. /\ UNCHANGED << lenv, layerSpec, possible, registered, launch >>
      /\ kernel.class # NoValue /\ NotProcessed
  BY DEF PPUInt8ProcessWeights, PPUDeepGemmFP8ProcessWeights, ProcessWeights, NoValue
<1>2. kernel.class = Chosen /\ weights = Loaded(layerSpec) BY <1>1, ToProcess
<1>3. PICK acext, deepgemm \in BOOLEAN :
        kernel' = [class |-> Chosen, acext |-> acext, deepgemm |-> deepgemm]
  BY <1>2 DEF PPUInt8ProcessWeights, PPUDeepGemmFP8ProcessWeights, ProcessWeights, Decide,
              is_deep_gemm_supported, LinearTyped, LinearEnvs
<1>4. KernelIsChosen' BY <1>1, <1>3, LayerKept DEF KernelIsChosen
<1>5. ~ NotProcessed' BY <1>3 DEF NotProcessed
<1>6. WeightsFitKernel'
  <2>1. CASE PPUInt8ProcessWeights
    <3>1. Chosen = "PPUInt8" BY <1>2, <2>1 DEF PPUInt8ProcessWeights
    <3>2. layerSpec.kind = "int8" BY <3>1, LayerKinds DEF Chosen
    <3>3. /\ kernel'.class = "PPUInt8" /\ kernel'.acext = AcextAllowed
          /\ kernel'.deepgemm = DeepgemmAllowed
          /\ weights'.w = IF AcextAllowed \/ DeepgemmAllowed THEN weights.w ELSE T(weights.w)
          /\ layerSpec.symmetric => weights'.azp_adj = NoValue
      BY <2>1, <1>2, <3>1 DEF PPUInt8ProcessWeights, Decide, AcextAllowed, DeepgemmAllowed
    <3>4. weights.w = Matrix("N", "K", "row") /\ T(weights.w) = Matrix("K", "N", "col")
      BY <1>2, <3>2 DEF Loaded, Matrix, T
    <3> QED BY <1>1, <1>5, <3>3, <3>4, LayerKept DEF WeightsFitKernel
  <2>2. CASE PPUDeepGemmFP8ProcessWeights
    <3>1. Chosen = "PPUDeepGemmFP8" BY <1>2, <2>2 DEF PPUDeepGemmFP8ProcessWeights
    <3>2. layerSpec.kind = "fp8" BY <3>1, LayerKinds DEF Chosen
    <3>3. weights'.w = Contiguous(T(T(Matrix("N", "K", "row"))))
      BY <1>2, <2>2, <3>2 DEF PPUDeepGemmFP8ProcessWeights, Loaded
    <3>4. weights'.w = Matrix("N", "K", "row") BY <3>3 DEF Contiguous, T, Matrix
    <3> QED BY <1>3, <1>5, <3>1, <3>4 DEF WeightsFitKernel
  <2>3. CASE ProcessWeights
    <3>1. weights' = weights /\ kernel'.class \notin {"PPUInt8", "PPUDeepGemmFP8"}
      BY <1>2, <1>3, <2>3 DEF ProcessWeights
    <3>2. Loaded(layerSpec)' = Loaded(layerSpec) BY <1>1
    <3> QED BY <1>2, <1>5, <3>1, <3>2 DEF WeightsFitKernel
  <2> QED BY <2>1, <2>2, <2>3
<1>7. CandidatesInOrder' BY <1>1 DEF CandidatesInOrder
<1> QED BY <1>1, <1>4, <1>6, <1>7, LayerKept, CallKept

LEMMA ApplySound == ASSUME LinearInv, Apply PROVE LinearInv'
<1> USE DEF LinearInv
<1>1. UNCHANGED << lenv, layerSpec, possible, registered, kernel, weights >>
  BY DEF Apply, PPUInt8Apply, PPUDeepGemmFP8Apply, PPUCutlassFP8Apply, PPUCutlassFp8BlockApply,
         PPUDeepGemmFp8BlockApply, ppu_unquantized_gemm, Launch
<1>2. ~ NotProcessed /\ kernel.class # NoValue
  BY DEF Apply, PPUInt8Apply, PPUDeepGemmFP8Apply, PPUCutlassFP8Apply, PPUCutlassFp8BlockApply,
         PPUDeepGemmFp8BlockApply, ppu_unquantized_gemm, NoValue
<1>3. kernel.class = Chosen BY <1>2 DEF KernelIsChosen
<1>4. KernelIsChosen' /\ WeightsFitKernel' /\ CandidatesInOrder'
  BY <1>1, LayerKept DEF KernelIsChosen, WeightsFitKernel, NotProcessed, CandidatesInOrder
<1>5. CallFits'
  <2> SUFFICES ASSUME layerSpec.kind = "int8" => layerSpec.symmetric
      PROVE  /\ launch'.B = Takes(launch'.lib)
             /\ Allowed(launch'.lib)
             /\ launch'.bias = NoValue <=> ~ layerSpec.bias
             /\ launch'.out = "N"
             /\ layerSpec.kind = "fp8" /\ launch'.lib = "deepgemm" => launch'.scale = "N"
    BY <1>1, LayerKept DEF CallFits
  <2> USE DEF Launch, Bias, NoValue, Takes, Matrix, T
  <2>1. CASE PPUInt8Apply
    <3>1. Chosen = "PPUInt8" BY <1>3, <2>1 DEF PPUInt8Apply
    <3>2. layerSpec.kind = "int8" BY <3>1, LayerKinds DEF Chosen
    <3>3. /\ kernel.acext = AcextAllowed /\ kernel.deepgemm = DeepgemmAllowed
          /\ weights.w = IF kernel.acext \/ kernel.deepgemm THEN Matrix("N", "K", "row")
                         ELSE Matrix("K", "N", "col")
          /\ weights.azp_adj = NoValue
      BY <1>2, <1>3, <3>1, <3>2 DEF WeightsFitKernel
    <3>4. layerSpec.bias \in BOOLEAN BY <3>2, LayerKinds DEF Int8Layers
    <3> DEFINE w == weights.w  byRows == kernel.acext \/ kernel.deepgemm
    <3>5. PICK lib, B, bias, out :
            /\ launch' = [lib |-> lib, B |-> B, scale |-> weights.scale, azp_adj |-> NoValue,
                          bias |-> bias, out |-> out]
            /\ \/ lib = "deepgemm" /\ B = w /\ bias = NoValue /\ out = w.rows
                  /\ kernel.deepgemm /\ ~ layerSpec.bias
               \/ lib = "acext" /\ B = w /\ bias = Bias("fused") /\ out = w.rows
                  /\ kernel.acext
               \/ lib = "cutlass" /\ B = (IF byRows THEN T(w) ELSE w) /\ bias = Bias("fused")
                  /\ out = B.cols
      BY <2>1, <3>3 DEF PPUInt8Apply
    <3>6. /\ launch'.lib = lib /\ launch'.B = B /\ launch'.bias = bias /\ launch'.out = out
      BY <3>5
    <3>7. B = Takes(lib) /\ out = "N" BY <3>3, <3>5
    <3>8. Allowed(lib) BY <3>2, <3>3, <3>5 DEF Allowed, AcextAllowed, DeepgemmAllowed
    <3>9. bias = NoValue <=> ~ layerSpec.bias BY <3>4, <3>5
    <3> QED BY <3>2, <3>6, <3>7, <3>8, <3>9, Zenon
  <2>2. CASE PPUDeepGemmFP8Apply
    <3>1. Chosen = "PPUDeepGemmFP8" BY <1>3, <2>2 DEF PPUDeepGemmFP8Apply
    <3>2. layerSpec.kind = "fp8" /\ PPUDeepGemmFP8Can(layerSpec)
      BY <3>1, LayerKinds DEF Chosen
    <3>3. weights.w = Matrix("N", "K", "row")
      BY <1>2, <1>3, <3>1 DEF WeightsFitKernel
    <3>4. lenv.backend \in {NoValue, "deepgemm"}
      BY <3>2 DEF PPUDeepGemmFP8Can, should_use_deepgemm_for_fp8_linear
    <3> QED BY <2>2, <3>2, <3>3, <3>4, LayerKinds DEF PPUDeepGemmFP8Apply, Allowed, Fp8Layers
  <2>3. CASE PPUCutlassFP8Apply
    <3>1. Chosen = "PPUCutlassFP8" BY <1>3, <2>3 DEF PPUCutlassFP8Apply
    <3>2. layerSpec.kind = "fp8" BY <3>1, LayerKinds DEF Chosen
    <3>3. weights.w = Matrix("K", "N", "col")
      BY <1>2, <1>3, <3>1, <3>2 DEF WeightsFitKernel, Loaded
    <3> QED BY <2>3, <3>2, <3>3, LayerKinds DEF PPUCutlassFP8Apply, Allowed, Fp8Layers
  <2>4. CASE PPUCutlassFp8BlockApply \/ PPUDeepGemmFp8BlockApply
    <3>1. Chosen \in {"PPUCutlassFp8Block", "PPUDeepGemmFp8Block"}
      BY <1>3, <2>4 DEF PPUCutlassFp8BlockApply, PPUDeepGemmFp8BlockApply
    <3>2. /\ layerSpec.kind = "fp8_block"
          /\ Chosen = "PPUDeepGemmFp8Block" => PPUDeepGemmFp8BlockCan(layerSpec)
      BY <3>1, LayerKinds DEF Chosen
    <3>3. weights.w = Matrix("N", "K", "row")
      BY <1>2, <1>3, <3>1, <3>2 DEF WeightsFitKernel, Loaded
    <3>4. Chosen = "PPUDeepGemmFp8Block" => lenv.backend \in {NoValue, "deepgemm"}
      BY <3>2 DEF PPUDeepGemmFp8BlockCan, should_use_deepgemm_for_fp8_linear
    <3> QED BY <1>3, <2>4, <3>2, <3>3, <3>4, LayerKinds
            DEF PPUCutlassFp8BlockApply, PPUDeepGemmFp8BlockApply, Allowed, BlockLayers
  <2>5. CASE ppu_unquantized_gemm
    <3>1. Chosen = "dense" BY <1>3, <2>5 DEF ppu_unquantized_gemm
    <3>2. layerSpec.kind = "bf16" BY <3>1, LayerKinds DEF Chosen
    <3>3. weights.w = Matrix("N", "K", "row")
      BY <1>2, <1>3, <3>1, <3>2 DEF WeightsFitKernel, Loaded
    <3> QED BY <2>5, <3>2, <3>3, LayerKinds
            DEF ppu_unquantized_gemm, Allowed, Bf16Layers, should_use_deepgemm_for_bf16_linear
  <2> QED BY <2>1, <2>2, <2>3, <2>4, <2>5 DEF Apply
<1> QED BY <1>1, <1>4, <1>5, LayerKept

LEMMA LinearNextSound == LinearInv /\ [LinearNext]_linVars => LinearInv'
<1> SUFFICES ASSUME LinearInv, [LinearNext]_linVars PROVE LinearInv' OBVIOUS
<1>1. CASE register BY <1>1, RegisterSound
<1>2. CASE \E k \in KernelTypes : register_linear_kernel(k) BY <1>2, OtherRegisters
<1>3. CASE SelectKernel BY <1>3, SelectSound
<1>4. CASE PPUInt8ProcessWeights \/ PPUDeepGemmFP8ProcessWeights \/ ProcessWeights
  BY <1>4, ProcessSound
<1>5. CASE Apply BY <1>5, ApplySound
<1>6. CASE UNCHANGED linVars
  <2>1. UNCHANGED << lenv, layerSpec, possible, registered, kernel, weights, launch >>
    BY <1>6 DEF linVars
  <2> QED BY <2>1, LayerKept, CallKept
          DEF LinearInv, CandidatesInOrder, KernelIsChosen, WeightsFitKernel, NotProcessed
<1> QED BY <1>1, <1>2, <1>3, <1>4, <1>5, <1>6 DEF LinearNext

\* The candidates of every kind begin with the plugin's kernels once it registered, a layer
\* has the first that can take it, and its weights are in the order of the library that its
\* calls will choose.
THEOREM LayersGetTheirKernel == LinearSpec => []LinearInv
BY LinearInitSound, LinearNextSound, PTL DEF LinearSpec

\* The kernel a layer has is the one the plugin prefers.
LEMMA ChosenIsPreferred == ASSUME LinearInv PROVE Preferred
<1>1. kernel.class = NoValue \/ kernel.class = Chosen BY DEF LinearInv, KernelIsChosen
<1>2. CASE kernel.class = NoValue BY <1>2 DEF Preferred, NoValue
<1>3. CASE kernel.class = Chosen
  BY <1>3, LayerKinds DEF LinearInv, Preferred, Chosen, can_implement
<1> QED BY <1>1, <1>2, <1>3

\* Every call of a dense layer goes to a library that the settings allow, with the weight in
\* the order that library takes and the bias applied once.
THEOREM LaunchAlwaysFits == LinearSpec => []LaunchFitsLayer
<1>1. LinearInv => LaunchFitsLayer
  BY ChosenIsPreferred DEF LinearInv, CallFits, LaunchFitsLayer
<1> QED BY <1>1, LayersGetTheirKernel, PTL

--------------------------------------------------------------------------------
(* The MoE oracles.                                                            *)

Mxfp4Backends == _ppu_backends.w4a4 \cup _ppu_backends.bf16 \cup _ppu_backends.mma

\* What a selection may answer.
AsAsked(b, l) ==
  /\ MayServe(b, l)
  /\ b = "ACEXT" => l.moe_backend = "ppu_acext" \/ oenv.acext
  /\ b \in PluginBackends => /\ FusedMoEExperts[backend_to_kernel_cls[b]].format = Format(l)
                             /\ l.oracle = "mxfp4" <=> b \in Mxfp4Backends

\* What the tables of the oracle make of the checkpoint for a backend.
PreparedFor(b, l) ==
  [ weights |-> Converted(b, l), align |-> IF l.oracle = "mxfp4" THEN RoundUp(b) ELSE 1,
    inputs |-> InputsOf(b, l) ]

Repaired == _ORACLE_ALIAS_CONSUMERS(olayer.oracle) \cup {"quantize"}

\* The functions that the module of the layer holds.
AliasesKnown ==
  /\ aliases \in [Aliases -> {"unloaded", "upstream", "patched", "foreign"}]
  /\ \A a \in Aliases : /\ aliases[a] = "foreign" => a = "select"
                        /\ aliases[a] = "unloaded" <=> aliases.select = "unloaded"
  /\ oracles \in {"upstream", "installed", "registered", "raised"}
  /\ oracles \in {"installed", "registered"} => aliases.quantize \in {"unloaded", "patched"}
  /\ oracles = "registered" => \A a \in Repaired : aliases[a] \in {"unloaded", "patched"}
  /\ ostage # "new" => oracles = "registered" /\ aliases.select # "unloaded"

\* How far the layer is prepared, and for what.
LayerPrepared ==
  /\ ostage \in {"new", "refused", "selected", "created", "loaded", "ready", "served", "missing"}
  /\ ostage \notin {"new", "refused"} => AsAsked(obackend, olayer)
  /\ ostage \in {"new", "selected"} => prepared = Unprepared
  /\ ostage = "created" =>
       prepared = [weights |-> "checkpoint", align |-> PreparedFor(obackend, olayer).align,
                   inputs |-> "unset"]
  /\ ostage = "loaded" => prepared = [PreparedFor(obackend, olayer) EXCEPT !.inputs = "unset"]
  /\ ostage \in {"loaded", "ready", "served", "missing"} => Converted(obackend, olayer) # "raise"
  /\ ostage \in {"ready", "served", "missing"} => prepared = PreparedFor(obackend, olayer)
  /\ ostage = "missing" => obackend = "ACEXT" /\ ~ oenv.acext

OracleInv == oenv \in OracleEnvs /\ olayer \in OracleLayers /\ AliasesKnown /\ LayerPrepared

--------------------------------------------------------------------------------
\* Every set of naturals that has an element has a least one.
LEMMA LeastElement ==
  ASSUME NEW X, X \subseteq Nat, X # {}
  PROVE  \E n \in X : \A m \in X : n <= m
<1>1. PICK x \in X : \A y \in X : ~ (<< y, x >> \in OpToRel(<, Nat))
  BY NatLessThanWellFounded, WFMin
<1>2. ASSUME NEW m \in X PROVE x <= m
  <2>1. x \in Nat /\ m \in Nat
    OBVIOUS
  <2>2. ~ (<< m, x >> \in {ss \in Nat \X Nat : ss[1] < ss[2]})
    BY <1>1 DEF OpToRel
  <2>3. ~ (m < x)
    BY <2>1, <2>2
  <2>4. QED
    BY <2>3, <2>1
<1>3. QED
  BY <1>2

\* The first of a list that passes is one of the list, and passes.
LEMMA FirstPasses ==
  ASSUME NEW S, NEW list \in Seq(S), NEW passing, FirstOf(list, passing) # "none"
  PROVE  FirstOf(list, passing) \in passing /\ FirstOf(list, passing) \in ToSet(list)
<1> DEFINE hits == {i \in DOMAIN list : list[i] \in passing}
           least == CHOOSE i \in hits : \A j \in hits : i <= j
<1>1. hits # {} /\ FirstOf(list, passing) = list[least]
  BY DEF FirstOf
<1>2. \E i \in hits : \A j \in hits : i <= j
  <2>1. hits \subseteq Nat OBVIOUS
  <2> HIDE DEF hits
  <2> QED BY <1>1, <2>1, LeastElement
<1>3. least \in hits
  BY <1>2
<1> QED BY <1>1, <1>3 DEF ToSet

\* Where an entry of a list passes, the first that passes does not come after it.
LEMMA FirstIsLeast ==
  ASSUME NEW S, NEW list \in Seq(S), NEW passing, NEW k \in DOMAIN list, list[k] \in passing
  PROVE  \E i \in 1 .. k : i \in DOMAIN list /\ FirstOf(list, passing) = list[i]
<1> DEFINE hits == {i \in DOMAIN list : list[i] \in passing}
           least == CHOOSE i \in hits : \A j \in hits : i <= j
<1>1. k \in hits /\ hits \subseteq 1 .. Len(list) /\ Len(list) \in Nat
  OBVIOUS
<1>2. FirstOf(list, passing) = list[least]
  BY <1>1 DEF FirstOf
<1>3. PICK n \in hits : \A m \in hits : n <= m
  <2>1. hits \subseteq Nat /\ hits # {} BY <1>1
  <2> HIDE DEF hits
  <2> QED BY <2>1, LeastElement
<1>4. least \in hits /\ \A j \in hits : least <= j
  BY <1>3
<1> HIDE DEF least
<1>5. least \in 1 .. k /\ least \in DOMAIN list
  BY <1>1, <1>4
<1> QED BY <1>2, <1>5

LEMMA ToSetConcat ==
  ASSUME NEW S, NEW s \in Seq(S), NEW t \in Seq(S)
  PROVE  s \o t \in Seq(S) /\ ToSet(s \o t) = ToSet(s) \cup ToSet(t)
<1>1. /\ s \o t \in Seq(S) /\ Len(s \o t) = Len(s) + Len(t)
      /\ \A i \in 1 .. Len(s) + Len(t) : (s \o t)[i] = IF i <= Len(s) THEN s[i] ELSE t[i - Len(s)]
  BY ConcatProperties
<1>2. ASSUME NEW x \in ToSet(s \o t) PROVE x \in ToSet(s) \cup ToSet(t)
  <2>1. PICK i \in 1 .. Len(s) + Len(t) : x = (s \o t)[i]
    BY <1>1 DEF ToSet
  <2>2. i <= Len(s) => x \in ToSet(s)
    BY <1>1, <2>1 DEF ToSet
  <2>3. i > Len(s) => i - Len(s) \in DOMAIN t /\ x = t[i - Len(s)]
    BY <1>1, <2>1
  <2> QED BY <2>2, <2>3 DEF ToSet
<1>3. ASSUME NEW x \in ToSet(s) PROVE x \in ToSet(s \o t)
  <2>1. PICK i \in 1 .. Len(s) : x = s[i] BY DEF ToSet
  <2>2. i \in 1 .. Len(s \o t) /\ (s \o t)[i] = x BY <1>1, <2>1
  <2> QED BY <1>1, <2>2 DEF ToSet
<1>4. ASSUME NEW x \in ToSet(t) PROVE x \in ToSet(s \o t)
  <2>1. PICK i \in 1 .. Len(t) : x = t[i] BY DEF ToSet
  <2>2. i + Len(s) \in 1 .. Len(s \o t) /\ (s \o t)[i + Len(s)] = x
    <3>1. i + Len(s) \in 1 .. Len(s) + Len(t) /\ ~ (i + Len(s) <= Len(s)) /\ (i + Len(s)) - Len(s) = i
      OBVIOUS
    <3> QED BY <1>1, <2>1, <3>1
  <2> QED BY <1>1, <2>2 DEF ToSet
<1> QED BY <1>1, <1>2, <1>3, <1>4

\* An entry of the first of two lists is preceded by entries of that list only.
LEMMA PrefixLeads ==
  ASSUME NEW S, NEW s \in Seq(S), NEW t \in Seq(S), NEW p \in ToSet(s)
  PROVE  \E k \in DOMAIN (s \o t) :
           (s \o t)[k] = p /\ \A i \in 1 .. k : (s \o t)[i] \in ToSet(s)
<1>1. /\ s \o t \in Seq(S) /\ Len(s \o t) = Len(s) + Len(t)
      /\ \A i \in 1 .. Len(s) + Len(t) : (s \o t)[i] = IF i <= Len(s) THEN s[i] ELSE t[i - Len(s)]
  BY ConcatProperties
<1>2. PICK k \in 1 .. Len(s) : p = s[k]
  BY DEF ToSet
<1>3. Len(s) \in Nat /\ Len(t) \in Nat /\ DOMAIN (s \o t) = 1 .. Len(s) + Len(t)
  BY <1>1
<1>4. ASSUME NEW i \in 1 .. k PROVE (s \o t)[i] = s[i] /\ s[i] \in ToSet(s)
  <2>1. i \in 1 .. Len(s) /\ i \in 1 .. Len(s) + Len(t) /\ i <= Len(s)
    BY <1>3
  <2> QED BY <1>1, <2>1 DEF ToSet
<1>5. k \in DOMAIN (s \o t) /\ k \in 1 .. k
  BY <1>3
<1> QED BY <1>2, <1>4, <1>5

Names == DeepGemmBackends \cup {"ACEXT", "DEEPGEMM", "BATCHED_DEEPGEMM", "TRITON", "BATCHED_TRITON",
          "DEEPGEMM_MXFP4", "MARLIN", "BATCHED_MARLIN", "EMULATION", "HUMMING"}

LEMMA BackendSets ==
  /\ Mxfp4Backends = ToSet(_PPU_CANDIDATES)
  /\ DeepGemmBackends = {"PPU_DEEPGEMM", "BATCHED_PPU_DEEPGEMM"} \cup Mxfp4Backends
  /\ PluginBackends = DeepGemmBackends \cup {"ACEXT"}
  /\ _PPU_CANDIDATES \in Seq(Mxfp4Backends)
<1>1. ToSet(_PPU_CANDIDATES) =
        {"PPU_DEEPGEMM_MXFP4", "BATCHED_PPU_DEEPGEMM_MXFP4",
         "PPU_DEEPGEMM_MXFP4_BF16_MMA", "BATCHED_PPU_DEEPGEMM_MXFP4_BF16_MMA",
         "PPU_DEEPGEMM_MXFP4_BF16", "BATCHED_PPU_DEEPGEMM_MXFP4_BF16"}
  BY DEF ToSet, _PPU_CANDIDATES
<1>2. Range(_PPU_CANDIDATES) = ToSet(_PPU_CANDIDATES)
  BY DEF ToSet, Range
<1>3. Mxfp4Backends = ToSet(_PPU_CANDIDATES)
  BY <1>1 DEF Mxfp4Backends, _ppu_backends
<1>4. _PPU_CANDIDATES \in Seq(Mxfp4Backends)
  BY <1>1, <1>3 DEF _PPU_CANDIDATES
<1> QED BY <1>2, <1>3, <1>4 DEF DeepGemmBackends, PluginBackends

Deep == {"PPU_DEEPGEMM", "BATCHED_PPU_DEEPGEMM"}
Plain == Names \ Mxfp4Backends

LEMMA EnabledIs ==
  ASSUME NEW l, NEW acext \in BOOLEAN
  PROVE  /\ Enabled(l, acext) \in Seq(Plain)
         /\ ToSet(Enabled(l, acext)) \subseteq Deep \cup {"ACEXT"}
         /\ "ACEXT" \in ToSet(Enabled(l, acext)) <=> acext
         /\ ToSet(Enabled(l, acext)) \cap Deep # {} => deep_gemm_enabled(l)
         /\ deep_gemm_enabled(l) => Deep \subseteq ToSet(Enabled(l, acext))
<1> DEFINE deep(b) == IF deep_gemm_enabled(l) THEN << b >> ELSE << >>
           mid == IF acext THEN << "ACEXT" >> ELSE << >>
           s == deep("PPU_DEEPGEMM")
           t == deep("BATCHED_PPU_DEEPGEMM")
<1>1. Deep \cup {"ACEXT"} \subseteq Plain
  BY BackendSets DEF Deep, Plain, Names, Mxfp4Backends, _ppu_backends
<1>2. /\ s \in Seq(Plain) /\ mid \in Seq(Plain) /\ t \in Seq(Plain)
      /\ ToSet(s) \subseteq {"PPU_DEEPGEMM"} /\ ToSet(t) \subseteq {"BATCHED_PPU_DEEPGEMM"}
      /\ ToSet(mid) \subseteq {"ACEXT"}
      /\ ToSet(mid) # {} <=> acext
      /\ ToSet(s) # {} <=> deep_gemm_enabled(l)
      /\ ToSet(t) # {} <=> deep_gemm_enabled(l)
  BY <1>1 DEF ToSet, Deep
<1> HIDE DEF s, t, mid
<1>3. Enabled(l, acext) = (s \o mid) \o t
  BY DEF Enabled, s, t, mid
<1>4. /\ (s \o mid) \o t \in Seq(Plain)
      /\ ToSet((s \o mid) \o t) = ToSet(s) \cup ToSet(mid) \cup ToSet(t)
  <2>1. s \in Seq(Plain) /\ mid \in Seq(Plain) /\ t \in Seq(Plain)
    BY <1>2
  <2>2. s \o mid \in Seq(Plain) /\ ToSet(s \o mid) = ToSet(s) \cup ToSet(mid)
    BY <2>1, ToSetConcat, ZenonT(40)
  <2>3. /\ (s \o mid) \o t \in Seq(Plain)
        /\ ToSet((s \o mid) \o t) = ToSet(s \o mid) \cup ToSet(t)
    <3>1. s \o mid \in Seq(Plain) BY <2>2
    <3> QED BY <2>1, <3>1, ToSetConcat, ZenonT(40)
  <2> QED BY <2>2, <2>3
<1> QED BY <1>2, <1>3, <1>4 DEF Deep

LEMMA AfterIs ==
  ASSUME NEW S, NEW s \in Seq(S), NEW b \in ToSet(s), NEW new \in S
  PROVE  After(s, b, new) \in Seq(S) /\ ToSet(After(s, b, new)) = ToSet(s) \cup {new}
<1> DEFINE k == CHOOSE k \in DOMAIN s : s[k] = b
           u == SubSeq(s, 1, k)  v == SubSeq(s, k + 1, Len(s))  n == << new >>
<1>1. k \in 1 .. Len(s) /\ Len(s) \in Nat
  BY DEF ToSet
<1>2. n \in Seq(S) /\ ToSet(n) = {new}
  BY DEF ToSet
<1>3. /\ u \in Seq(S) /\ Len(u) = k /\ \A j \in 1 .. k : u[j] = s[j]
      /\ v \in Seq(S) /\ Len(v) = Len(s) - k /\ \A j \in 1 .. Len(s) - k : v[j] = s[k + j]
  <2> HIDE DEF k
  <2>1. /\ u \in Seq(S) /\ Len(u) = k /\ \A j \in 1 .. k : u[j] = s[1 + j - 1]
    BY <1>1, SubSeqProperties
  <2>2. /\ v \in Seq(S) /\ Len(v) = Len(s) - k
        /\ \A j \in 1 .. Len(s) - k : v[j] = s[(k + 1) + j - 1]
    BY <1>1, SubSeqProperties
  <2>3. \A j \in 1 .. k : 1 + j - 1 = j
    BY <1>1
  <2>4. \A j \in 1 .. Len(s) - k : (k + 1) + j - 1 = k + j
    BY <1>1
  <2> QED BY <2>1, <2>2, <2>3, <2>4
<1>4. After(s, b, new) = (u \o n) \o v
  BY DEF After
<1> HIDE DEF u, v, n, k
<1>5. /\ (u \o n) \o v \in Seq(S)
      /\ ToSet((u \o n) \o v) = (ToSet(u) \cup ToSet(n)) \cup ToSet(v)
  <2>1. u \in Seq(S) /\ n \in Seq(S) /\ v \in Seq(S)
    BY <1>2, <1>3
  <2>2. u \o n \in Seq(S) /\ ToSet(u \o n) = ToSet(u) \cup ToSet(n)
    BY <2>1, ToSetConcat, ZenonT(40)
  <2>3. /\ (u \o n) \o v \in Seq(S)
        /\ ToSet((u \o n) \o v) = ToSet(u \o n) \cup ToSet(v)
    <3> DEFINE t == u \o n
    <3>1. t \in Seq(S) BY <2>2
    <3> HIDE DEF t
    <3>2. t \o v \in Seq(S) /\ ToSet(t \o v) = ToSet(t) \cup ToSet(v)
      BY <2>1, <3>1, ToSetConcat
    <3> QED BY <3>2 DEF t
  <2> QED BY <2>2, <2>3
<1>6. ToSet(u) \cup ToSet(v) = ToSet(s)
  <2>1. DOMAIN u = 1 .. k /\ DOMAIN v = 1 .. Len(s) - k /\ DOMAIN s = 1 .. Len(s)
    BY <1>3
  <2>2. ASSUME NEW x \in ToSet(s) PROVE x \in ToSet(u) \cup ToSet(v)
    <3>1. PICK j \in 1 .. Len(s) : x = s[j] BY DEF ToSet
    <3>2. CASE j <= k
      <4>1. j \in 1 .. k /\ u[j] = x BY <1>1, <1>3, <3>1, <3>2
      <4> QED BY <2>1, <4>1 DEF ToSet
    <3>3. CASE j > k
      <4>1. j - k \in 1 .. Len(s) - k /\ k + (j - k) = j BY <1>1, <3>3
      <4>2. v[j - k] = x BY <1>3, <3>1, <4>1
      <4> QED BY <2>1, <4>1, <4>2 DEF ToSet
    <3> QED BY <1>1, <3>2, <3>3
  <2>3. ASSUME NEW x \in ToSet(u) PROVE x \in ToSet(s)
    <3>1. PICK j \in 1 .. k : x = u[j] BY <2>1 DEF ToSet
    <3>2. j \in 1 .. Len(s) /\ x = s[j] BY <1>1, <1>3, <3>1
    <3> QED BY <2>1, <3>2 DEF ToSet
  <2>4. ASSUME NEW x \in ToSet(v) PROVE x \in ToSet(s)
    <3>1. PICK j \in 1 .. Len(s) - k : x = v[j] BY <2>1 DEF ToSet
    <3>2. k + j \in 1 .. Len(s) /\ x = s[k + j] BY <1>1, <1>3, <3>1
    <3> QED BY <2>1, <3>2 DEF ToSet
  <2> QED BY <2>2, <2>3, <2>4
<1> QED BY <1>2, <1>4, <1>5, <1>6

\* Where the backend is listed once, the new one follows it and the others keep their order.
LEMMA AfterAt ==
  ASSUME NEW S, NEW s \in Seq(S), NEW new \in S, NEW b, NEW k \in DOMAIN s,
         \A j \in DOMAIN s : s[j] = b <=> j = k
  PROVE  /\ After(s, b, new) \in Seq(S) /\ Len(After(s, b, new)) = Len(s) + 1
         /\ After(s, b, new)[k + 1] = new
         /\ \A j \in 1 .. k : After(s, b, new)[j] = s[j]
         /\ \A j \in k + 1 .. Len(s) : After(s, b, new)[j + 1] = s[j]
<1> DEFINE u == SubSeq(s, 1, k)  v == SubSeq(s, k + 1, Len(s))  n == << new >>
<1>1. k \in 1 .. Len(s) /\ Len(s) \in Nat
  OBVIOUS
<1>2. After(s, b, new) = (u \o n) \o v
  <2>1. (CHOOSE i \in DOMAIN s : s[i] = b) = k
    OBVIOUS
  <2> QED BY <2>1 DEF After
<1>3. /\ u \in Seq(S) /\ Len(u) = k /\ \A j \in 1 .. k : u[j] = s[1 + j - 1]
      /\ v \in Seq(S) /\ Len(v) = Len(s) - k
      /\ \A j \in 1 .. Len(s) - k : v[j] = s[(k + 1) + j - 1]
  BY <1>1, SubSeqProperties
<1>4. n \in Seq(S) /\ Len(n) = 1 /\ n[1] = new
  OBVIOUS
<1> HIDE DEF u, v, n
<1>5. /\ u \o n \in Seq(S) /\ Len(u \o n) = k + 1
      /\ \A i \in 1 .. k + 1 : (u \o n)[i] = IF i <= k THEN u[i] ELSE n[i - k]
  <2>1. u \in Seq(S) /\ n \in Seq(S) BY <1>3, <1>4
  <2>2. /\ u \o n \in Seq(S) /\ Len(u \o n) = Len(u) + Len(n)
        /\ \A i \in 1 .. Len(u) + Len(n) : (u \o n)[i] = IF i <= Len(u) THEN u[i] ELSE n[i - Len(u)]
    BY <2>1, ConcatProperties
  <2> QED BY <1>3, <1>4, <2>2
<1> DEFINE t == u \o n  w == t \o v
<1>6. /\ w \in Seq(S) /\ Len(w) = Len(s) + 1
      /\ \A i \in 1 .. Len(s) + 1 : w[i] = IF i <= k + 1 THEN t[i] ELSE v[i - (k + 1)]
  <2>1. t \in Seq(S) /\ v \in Seq(S) /\ Len(t) = k + 1 BY <1>3, <1>5
  <2> HIDE DEF t
  <2>2. /\ w \in Seq(S) /\ Len(w) = Len(t) + Len(v)
        /\ \A i \in 1 .. Len(t) + Len(v) : w[i] = IF i <= Len(t) THEN t[i] ELSE v[i - Len(t)]
    BY <2>1, ConcatProperties
  <2>3. Len(t) + Len(v) = Len(s) + 1 BY <1>1, <1>3, <2>1
  <2> QED BY <2>1, <2>2, <2>3
<1> HIDE DEF w
<1>7. w[k + 1] = new
  <2>1. /\ k + 1 \in 1 .. Len(s) + 1 /\ k + 1 \in 1 .. k + 1 /\ k + 1 <= k + 1
        /\ ~ (k + 1 <= k) /\ (k + 1) - k = 1
    BY <1>1
  <2>2. w[k + 1] = t[k + 1] BY <1>6, <2>1
  <2>3. t[k + 1] = n[(k + 1) - k] BY <1>5, <2>1
  <2> QED BY <1>4, <2>1, <2>2, <2>3
<1>8. ASSUME NEW j \in 1 .. k PROVE w[j] = s[j]
  BY <1>1, <1>3, <1>5, <1>6
<1>9. ASSUME NEW j \in k + 1 .. Len(s) PROVE w[j + 1] = s[j]
  <2>1. /\ j + 1 \in 1 .. Len(s) + 1 /\ ~ (j + 1 <= k + 1) /\ (j + 1) - (k + 1) = j - k
        /\ j - k \in 1 .. Len(s) - k /\ (k + 1) + (j - k) - 1 = j
    BY <1>1
  <2>2. w[j + 1] = v[j - k] BY <1>6, <2>1
  <2>3. v[j - k] = s[(k + 1) + (j - k) - 1] BY <1>3, <2>1
  <2> QED BY <2>1, <2>2, <2>3
<1>10. w = After(s, b, new)
  BY <1>2 DEF w
<1> QED BY <1>6, <1>7, <1>8, <1>9, <1>10

\* The lists of the oracles hold only their own backends, and what the variable lets in.
LEMMA PrioritiesAre ==
  ASSUME NEW l \in OracleLayers, l.oracle # "mxfp4", oenv \in OracleEnvs
  PROVE  /\ _get_priority_backends(l) \in Seq(Plain)
         /\ l.oracle \in {"unquantized", "fp8", "int8"} =>
              \A b \in ToSet(_get_priority_backends(l)) :
                b \in Deep \cup {"ACEXT"} => b \in Candidates(l)
         /\ l.oracle = "wna16" => "ACEXT" \notin ToSet(_get_priority_backends(l))
<1>1. /\ Plain = Deep \cup {"ACEXT", "DEEPGEMM", "BATCHED_DEEPGEMM", "TRITON", "BATCHED_TRITON",
                          "DEEPGEMM_MXFP4", "MARLIN", "BATCHED_MARLIN", "EMULATION", "HUMMING"}
      /\ Deep = {"PPU_DEEPGEMM", "BATCHED_PPU_DEEPGEMM"}
  BY BackendSets DEF Plain, Deep, Names, Mxfp4Backends, _ppu_backends
<1>2. CASE l.oracle = "unquantized"
  <2> DEFINE acext == oenv.acext /\ Asked("acext") /\ ~ l.batched
             s == Enabled(l, acext)
             t == << "TRITON", "BATCHED_TRITON" >>
  <2>1. acext \in BOOLEAN BY OracleAssumption
  <2>2. /\ s \in Seq(Plain)
        /\ "ACEXT" \in ToSet(s) <=> acext
        /\ ToSet(s) \cap Deep # {} => deep_gemm_enabled(l)
    BY <2>1, EnabledIs
  <2>3. t \in Seq(Plain) /\ ToSet(t) = {"TRITON", "BATCHED_TRITON"}
    BY <1>1 DEF ToSet
  <2>4. _get_priority_backends(l) = s \o t
    BY <1>2 DEF _get_priority_backends, unquantized_priority
  <2> HIDE DEF s, t
  <2>5. s \o t \in Seq(Plain) /\ ToSet(s \o t) = ToSet(s) \cup ToSet(t)
    <3>1. s \in Seq(Plain) /\ t \in Seq(Plain) BY <2>2, <2>3
    <3> QED BY <3>1, ToSetConcat, ZenonT(40)
  <2> QED BY <1>1, <1>2, <2>2, <2>3, <2>4, <2>5 DEF deep_gemm_enabled, Candidates, Deep
<1>3. CASE l.oracle = "int8"
  <2> DEFINE acext == oenv.acext /\ Asked("acext")
             s == Enabled(l, acext)
             t == << "TRITON" >>
  <2>1. acext \in BOOLEAN BY OracleAssumption
  <2>2. /\ s \in Seq(Plain)
        /\ "ACEXT" \in ToSet(s) <=> acext
        /\ ToSet(s) \cap Deep # {} => deep_gemm_enabled(l)
    BY <2>1, EnabledIs
  <2>3. t \in Seq(Plain) /\ ToSet(t) = {"TRITON"}
    BY <1>1 DEF ToSet
  <2>4. _get_priority_backends(l) = s \o t
    BY <1>3 DEF _get_priority_backends, int8_priority, UpstreamPriority
  <2> HIDE DEF s, t
  <2>5. s \o t \in Seq(Plain) /\ ToSet(s \o t) = ToSet(s) \cup ToSet(t)
    <3>1. s \in Seq(Plain) /\ t \in Seq(Plain) BY <2>2, <2>3
    <3> QED BY <3>1, ToSetConcat, ZenonT(40)
  <2> QED BY <1>1, <1>3, <2>2, <2>3, <2>4, <2>5 DEF deep_gemm_enabled, Candidates, Deep
<1>4. CASE l.oracle = "fp8"
  <2> DEFINE s == UpstreamPriority.fp8
             t == After(s, "DEEPGEMM", "PPU_DEEPGEMM")
  <2>1. /\ s \in Seq(Plain)
        /\ ToSet(s) = {"DEEPGEMM", "BATCHED_DEEPGEMM", "TRITON", "BATCHED_TRITON"}
    BY <1>1 DEF ToSet, UpstreamPriority
  <2>2. _get_priority_backends(l) =
          IF ~ Asked("deepgemm") THEN s ELSE After(t, "BATCHED_DEEPGEMM", "BATCHED_PPU_DEEPGEMM")
    BY <1>4 DEF _get_priority_backends, fp8_priority
  <2> HIDE DEF s
  <2>3. /\ t \in Seq(Plain)
        /\ ToSet(t) = {"DEEPGEMM", "BATCHED_DEEPGEMM", "TRITON", "BATCHED_TRITON", "PPU_DEEPGEMM"}
    <3>1. s \in Seq(Plain) /\ "DEEPGEMM" \in ToSet(s) /\ "PPU_DEEPGEMM" \in Plain
      BY <1>1, <2>1
    <3>2. t \in Seq(Plain) /\ ToSet(t) = ToSet(s) \cup {"PPU_DEEPGEMM"}
      BY <3>1, AfterIs
    <3> QED BY <2>1, <3>2
  <2> HIDE DEF t
  <2>4. /\ After(t, "BATCHED_DEEPGEMM", "BATCHED_PPU_DEEPGEMM") \in Seq(Plain)
        /\ ToSet(After(t, "BATCHED_DEEPGEMM", "BATCHED_PPU_DEEPGEMM")) =
             {"DEEPGEMM", "BATCHED_DEEPGEMM", "TRITON", "BATCHED_TRITON", "PPU_DEEPGEMM",
              "BATCHED_PPU_DEEPGEMM"}
    <3> DEFINE v == After(t, "BATCHED_DEEPGEMM", "BATCHED_PPU_DEEPGEMM")
    <3>1. t \in Seq(Plain) /\ "BATCHED_DEEPGEMM" \in ToSet(t) /\ "BATCHED_PPU_DEEPGEMM" \in Plain
      BY <1>1, <2>3
    <3>2. v \in Seq(Plain) /\ ToSet(v) = ToSet(t) \cup {"BATCHED_PPU_DEEPGEMM"}
      BY <3>1, AfterIs
    <3> QED BY <2>3, <3>2
  <2> QED BY <1>1, <1>4, <2>1, <2>2, <2>4 DEF Candidates
<1>5. CASE l.oracle = "wna16"
  BY <1>1, <1>5 DEF _get_priority_backends, wna16_priority, ToSet
<1> QED BY <1>2, <1>3, <1>4, <1>5, OracleAssumption

--------------------------------------------------------------------------------
LEMMA BackendNames ==
  /\ Mxfp4Backends = {"PPU_DEEPGEMM_MXFP4", "BATCHED_PPU_DEEPGEMM_MXFP4",
                      "PPU_DEEPGEMM_MXFP4_BF16_MMA", "BATCHED_PPU_DEEPGEMM_MXFP4_BF16_MMA",
                      "PPU_DEEPGEMM_MXFP4_BF16", "BATCHED_PPU_DEEPGEMM_MXFP4_BF16"}
  /\ DeepGemmBackends = {"PPU_DEEPGEMM", "BATCHED_PPU_DEEPGEMM"} \cup Mxfp4Backends
  /\ PluginBackends = DeepGemmBackends \cup {"ACEXT"}
  /\ Plain \cap Mxfp4Backends = {}
BY BackendSets DEF Mxfp4Backends, _ppu_backends, Plain

LEMMA SupportedFits ==
  ASSUME NEW b \in PluginBackends, NEW l, NEW scheme, is_supported_config(b, l, scheme)
  PROVE  FusedMoEExperts[backend_to_kernel_cls[b]].format = Format(l)
BY DEF is_supported_config

LEMMA TriedIs ==
  ASSUME NEW b, NEW l, Try(b, l) # "none"
  PROVE  /\ Try(b, l) = b
         /\ b \in PluginBackends => FusedMoEExperts[backend_to_kernel_cls[b]].format = Format(l)
<1>1. Try(b, l) = b /\ Usable(b, l)
  BY DEF Try
<1> QED BY <1>1, SupportedFits DEF Usable

\* A candidate that can serve the layer: its library loads, and it takes the layer's form.
LEMMA UsableNeeds ==
  ASSUME NEW l \in OracleLayers, NEW p \in Deep \cup {"ACEXT"}, Usable(p, l)
  PROVE  /\ p \in Deep => oenv.deep_gemm /\ ~ l.bias
         /\ p = "ACEXT" => ~ l.batched
<1>1. p \in PluginBackends
  BY BackendNames DEF Deep
<1>2. LET cls == FusedMoEExperts[backend_to_kernel_cls[p]]
      IN cls.device /\ cls.format = Format(l) /\ (l.bias => cls.bias)
  BY <1>1 DEF Usable, is_supported_config
<1>3. CASE p = "PPU_DEEPGEMM"
  <2>1. FusedMoEExperts[backend_to_kernel_cls[p]] = StandardDeepGemm
    BY <1>3 DEF FusedMoEExperts, backend_to_kernel_cls
  <2> QED BY <1>2, <1>3, <2>1 DEF StandardDeepGemm
<1>4. CASE p = "BATCHED_PPU_DEEPGEMM"
  <2>1. FusedMoEExperts[backend_to_kernel_cls[p]] = BatchedDeepGemm
    BY <1>4 DEF FusedMoEExperts, backend_to_kernel_cls
  <2> QED BY <1>2, <1>4, <2>1 DEF BatchedDeepGemm
<1>5. CASE p = "ACEXT"
  <2>1. FusedMoEExperts[backend_to_kernel_cls[p]] = AcextSupports
    BY <1>5 DEF FusedMoEExperts, backend_to_kernel_cls
  <2> QED BY <1>2, <1>5, <2>1 DEF AcextSupports, Format, Deep
<1> QED BY <1>3, <1>4, <1>5 DEF Deep

\* A candidate that can serve the layer is listed, before every kernel of vLLM's own that
\* could: vLLM's DeepGEMM never can.
LEMMA CandidatesLead ==
  ASSUME NEW l \in OracleLayers, l.oracle \in {"unquantized", "fp8", "int8"},
         oenv \in OracleEnvs, NEW p \in Candidates(l), Usable(p, l)
  PROVE  LET list == _get_priority_backends(l)
         IN \E k \in DOMAIN list :
              /\ list[k] = p
              /\ \A i \in 1 .. k : list[i] \in Deep \cup {"ACEXT", "DEEPGEMM", "BATCHED_DEEPGEMM"}
<1>1. p \in Deep \cup {"ACEXT"}
  BY DEF Candidates, Deep
<1>2. /\ p \in Deep => Asked("deepgemm") /\ deep_gemm_enabled(l)
      /\ p = "ACEXT" => l.oracle # "fp8" /\ oenv.acext /\ Asked("acext") /\ ~ l.batched
  BY <1>1, UsableNeeds DEF Candidates, Deep, deep_gemm_enabled
<1>3. CASE l.oracle \in {"unquantized", "int8"}
  <2>1. PICK acext \in BOOLEAN, t \in Seq(Plain) :
          /\ _get_priority_backends(l) = Enabled(l, acext) \o t
          /\ p = "ACEXT" => acext
    <3>1. << "TRITON", "BATCHED_TRITON" >> \in Seq(Plain) /\ << "TRITON" >> \in Seq(Plain)
      BY BackendNames DEF Plain, Names
    <3>2. CASE l.oracle = "unquantized"
      <4>1. (oenv.acext /\ Asked("acext") /\ ~ l.batched) \in BOOLEAN BY OracleAssumption
      <4> QED BY <1>2, <3>1, <3>2, <4>1 DEF _get_priority_backends, unquantized_priority
    <3>3. CASE l.oracle = "int8"
      <4>1. (oenv.acext /\ Asked("acext")) \in BOOLEAN BY OracleAssumption
      <4> QED BY <1>2, <3>1, <3>3, <4>1 DEF _get_priority_backends, int8_priority, UpstreamPriority
    <3> QED BY <1>3, <3>2, <3>3
  <2> DEFINE e == Enabled(l, acext)
  <2>2. e \in Seq(Plain) /\ p \in ToSet(e) /\ ToSet(e) \subseteq Deep \cup {"ACEXT"}
    BY <1>1, <1>2, <2>1, EnabledIs
  <2> HIDE DEF e
  <2>3. \E k \in DOMAIN (e \o t) : (e \o t)[k] = p /\ \A i \in 1 .. k : (e \o t)[i] \in ToSet(e)
    BY <2>1, <2>2, PrefixLeads
  <2>4. _get_priority_backends(l) = e \o t
    BY <2>1 DEF e
  <2> QED BY <2>2, <2>3, <2>4
<1>4. CASE l.oracle = "fp8"
  <2> DEFINE s == UpstreamPriority.fp8
             t == After(s, "DEEPGEMM", "PPU_DEEPGEMM")
             w == After(t, "BATCHED_DEEPGEMM", "BATCHED_PPU_DEEPGEMM")
  <2>1. p \in Deep /\ _get_priority_backends(l) = w
    BY <1>1, <1>2, <1>4 DEF _get_priority_backends, fp8_priority
  <2>2. {"PPU_DEEPGEMM", "BATCHED_PPU_DEEPGEMM", "DEEPGEMM", "BATCHED_DEEPGEMM", "TRITON",
         "BATCHED_TRITON"} \subseteq Plain
    BY BackendNames DEF Plain, Names
  <2>3. /\ s \in Seq(Plain) /\ Len(s) = 4 /\ s[1] = "DEEPGEMM" /\ s[2] = "BATCHED_DEEPGEMM"
        /\ s[3] = "TRITON" /\ s[4] = "BATCHED_TRITON"
    BY <2>2 DEF UpstreamPriority
  <2> HIDE DEF s
  <2>4. /\ t \in Seq(Plain) /\ Len(t) = 5 /\ t[1] = "DEEPGEMM" /\ t[2] = "PPU_DEEPGEMM"
        /\ t[3] = "BATCHED_DEEPGEMM" /\ t[4] = "TRITON" /\ t[5] = "BATCHED_TRITON"
    <3>0. PICK k : k = 1 OBVIOUS
    <3>1. k \in DOMAIN s /\ \A j \in DOMAIN s : s[j] = "DEEPGEMM" <=> j = k
      BY <2>3, <3>0
    <3>2. "PPU_DEEPGEMM" \in Plain /\ s \in Seq(Plain) BY <2>2, <2>3
    <3>3. /\ t \in Seq(Plain) /\ Len(t) = Len(s) + 1 /\ t[k + 1] = "PPU_DEEPGEMM"
          /\ \A j \in 1 .. k : t[j] = s[j]
          /\ \A j \in k + 1 .. Len(s) : t[j + 1] = s[j]
      BY <3>1, <3>2, AfterAt
    <3> HIDE DEF t
    <3>4. /\ t \in Seq(Plain) /\ Len(t) = 5 /\ t[2] = "PPU_DEEPGEMM" /\ t[1] = s[1]
          /\ \A j \in 2 .. 4 : t[j + 1] = s[j]
      BY <2>3, <3>0, <3>3
    <3>5. t[2 + 1] = s[2] /\ t[3 + 1] = s[3] /\ t[4 + 1] = s[4]
      BY <3>4
    <3> QED BY <2>3, <3>4, <3>5
  <2> HIDE DEF t
  <2>5. /\ Len(w) = 6 /\ w \in Seq(Plain) /\ w[1] = "DEEPGEMM" /\ w[2] = "PPU_DEEPGEMM"
        /\ w[3] = "BATCHED_DEEPGEMM" /\ w[4] = "BATCHED_PPU_DEEPGEMM"
    <3>0. PICK k : k = 3 OBVIOUS
    <3>1. k \in DOMAIN t /\ \A j \in DOMAIN t : t[j] = "BATCHED_DEEPGEMM" <=> j = k
      BY <2>4, <3>0
    <3>2. "BATCHED_PPU_DEEPGEMM" \in Plain /\ t \in Seq(Plain) BY <2>2, <2>4
    <3>3. /\ w \in Seq(Plain) /\ Len(w) = Len(t) + 1 /\ w[k + 1] = "BATCHED_PPU_DEEPGEMM"
          /\ \A j \in 1 .. k : w[j] = t[j]
      BY <3>1, <3>2, AfterAt
    <3> HIDE DEF w
    <3> QED BY <2>4, <3>0, <3>3
  <2> HIDE DEF w
  <2>6. DOMAIN w = 1 .. 6 BY <2>5
  <2>7. CASE p = "PPU_DEEPGEMM"
    <3>1. 2 \in DOMAIN w /\ w[2] = p /\ \A i \in 1 .. 2 : i = 1 \/ i = 2 BY <2>5, <2>6, <2>7
    <3> QED BY <2>1, <2>5, <3>1 DEF Deep
  <2>8. CASE p = "BATCHED_PPU_DEEPGEMM"
    <3>1. 4 \in DOMAIN w /\ w[4] = p /\ \A i \in 1 .. 4 : i = 1 \/ i = 2 \/ i = 3 \/ i = 4
      BY <2>5, <2>6, <2>8
    <3> QED BY <2>1, <2>5, <3>1 DEF Deep
  <2> QED BY <2>1, <2>7, <2>8 DEF Deep
<1> QED BY <1>3, <1>4

LEMMA UpstreamAllowed ==
  ASSUME NEW l \in OracleLayers, l.oracle # "mxfp4", oenv \in OracleEnvs,
         ~ (l.oracle = "fp8" /\ l.moe_backend = "auto" /\ oenv.requested = "deepgemm"),
         UpstreamSelect(l) # "none"
  PROVE  AsAsked(UpstreamSelect(l), l)
<1> DEFINE b == UpstreamSelect(l)
           list == _get_priority_backends(l)
           passing == {c \in ToSet(list) : Usable(c, l)}
<1>1. CASE l.moe_backend = "auto"
  <2>1. b = FirstOf(list, passing)
    BY <1>1 DEF UpstreamSelect
  <2>2. list \in Seq(Plain)
    BY PrioritiesAre
  <2>3. b \in ToSet(list) /\ Usable(b, l)
    BY <2>1, <2>2, FirstPasses
  <2>4. b \in Plain
    BY <2>2, <2>3 DEF ToSet
  <2>5. b \in PluginBackends => FusedMoEExperts[backend_to_kernel_cls[b]].format = Format(l)
    BY <2>3, SupportedFits DEF Usable
  <2>6. b \notin Mxfp4Backends /\ (b \in PluginBackends => b \in Deep \cup {"ACEXT"})
    BY <2>4, BackendNames DEF Deep
  <2>7. /\ l.oracle \in {"unquantized", "fp8", "int8"} /\ b \in Deep \cup {"ACEXT"} =>
             b \in Candidates(l)
        /\ l.oracle = "wna16" => b # "ACEXT"
    BY <2>3, PrioritiesAre
  <2>8. b = "ACEXT" => oenv.acext
    BY <2>7, OracleAssumption DEF Candidates
  <2>9. ASSUME l.oracle \in {"unquantized", "fp8", "int8"}, b \notin PluginBackends,
               NEW p \in Candidates(l), Usable(p, l)
        PROVE  FALSE
    <3>1. PICK k \in DOMAIN list :
            /\ list[k] = p
            /\ \A i \in 1 .. k : list[i] \in Deep \cup {"ACEXT", "DEEPGEMM", "BATCHED_DEEPGEMM"}
      BY <2>9, CandidatesLead
    <3>2. list[k] \in passing
      BY <2>9, <3>1 DEF ToSet
    <3> HIDE DEF list, passing
    <3>3. \E i \in 1 .. k : i \in DOMAIN list /\ FirstOf(list, passing) = list[i]
      BY <2>2, <3>2, FirstIsLeast
    <3>4. b \in Deep \cup {"ACEXT", "DEEPGEMM", "BATCHED_DEEPGEMM"}
      BY <2>1, <3>1, <3>3
    <3>5. b \notin {"DEEPGEMM", "BATCHED_DEEPGEMM"}
      <4>1. is_supported_config(b, l, Scheme(l)) BY <2>3 DEF Usable
      <4>2. UpstreamSupports(b, l) BY <2>9, <4>1 DEF is_supported_config
      <4> QED BY <4>2 DEF UpstreamSupports
    <3> QED BY <2>9, <3>4, <3>5, BackendNames DEF Deep
  <2>10. ~ (l.oracle = "fp8" /\ oenv.requested = "deepgemm")
    BY <1>1
  <2> HIDE DEF b
  <2>11. MayServe(b, l)
    BY <1>1, <2>6, <2>7, <2>9, <2>10 DEF MayServe
  <2> QED BY <2>5, <2>6, <2>8, <2>11 DEF AsAsked, b
<1>2. CASE l.moe_backend # "auto"
  <2>1. b = Try(map_backend(l), l)
    BY <1>2 DEF UpstreamSelect
  <2>2. /\ b = map_backend(l)
        /\ b \in PluginBackends => FusedMoEExperts[backend_to_kernel_cls[b]].format = Format(l)
    BY <2>1, TriedIs
  <2>3. b # "none"
    OBVIOUS
  <2> HIDE DEF b
  <2>4. l.moe_backend = "ppu_deep_gemm" => b = "PPU_DEEPGEMM"
    BY <2>2 DEF map_backend
  <2>5. l.moe_backend = "ppu_deep_gemm_w4a16" => b = "PPU_DEEPGEMM"
    BY <2>2, <2>3 DEF map_backend
  <2>6. l.moe_backend = "ppu_acext" => b = "ACEXT"
    BY <2>2, <2>3 DEF map_backend
  <2>7. b \in {"PPU_DEEPGEMM", "ACEXT", "TRITON", "BATCHED_TRITON", "MARLIN"}
    BY <2>2, <2>3 DEF map_backend
  <2>8. b \notin Mxfp4Backends /\ b \notin _ppu_backends.w4a4
    BY <2>7, BackendNames DEF Mxfp4Backends
  <2>9. /\ l.moe_backend = "triton" => b \in {"TRITON", "BATCHED_TRITON"}
        /\ l.moe_backend = "marlin" => b = "MARLIN"
        /\ b = "ACEXT" => l.moe_backend = "ppu_acext"
    BY <2>2, <2>3 DEF map_backend
  <2>10. "PPU_DEEPGEMM" \in DeepGemmBackends
    BY BackendNames
  <2>11. MayServe(b, l)
    BY <1>2, <2>4, <2>5, <2>6, <2>8, <2>9, <2>10, OracleAssumption DEF MayServe
  <2> QED BY <2>2, <2>8, <2>9, <2>11 DEF AsAsked, b
<1> QED BY <1>1, <1>2

\* A selection of the plain kernels on request.
LEMMA TriedAllowed ==
  ASSUME NEW l \in OracleLayers, l.oracle # "mxfp4", NEW b \in Deep, Try(b, l) # "none",
         \/ l.moe_backend \in {"ppu_deep_gemm", "ppu_deep_gemm_w4a16"}
         \/ l.moe_backend = "auto" /\ oenv.requested = "deepgemm"
  PROVE  AsAsked(Try(b, l), l)
<1>1. /\ Try(b, l) = b
      /\ b \in PluginBackends => FusedMoEExperts[backend_to_kernel_cls[b]].format = Format(l)
  BY TriedIs
<1>2. b \in DeepGemmBackends /\ b \notin Mxfp4Backends /\ b # "ACEXT"
  BY BackendNames DEF Deep
<1>3. b \notin _ppu_backends.w4a4
  BY <1>2 DEF Mxfp4Backends
<1>4. l.moe_backend = "auto" => b \in Candidates(l)
  BY DEF Candidates, Asked, Deep
<1>5. MayServe(b, l)
  BY <1>2, <1>3, <1>4, BackendNames DEF MayServe
<1> QED BY <1>1, <1>2, <1>5 DEF AsAsked

LEMMA PlainAllowed ==
  ASSUME NEW l \in OracleLayers, l.oracle # "mxfp4", oenv \in OracleEnvs,
         PluginSelect(l) # "none"
  PROVE  AsAsked(PluginSelect(l), l)
<1>1. CASE l.oracle = "unquantized"
  BY <1>1, UpstreamAllowed, TriedAllowed DEF PluginSelect, select_unquantized_moe_backend, Deep
<1>2. CASE l.oracle = "fp8"
  BY <1>2, UpstreamAllowed, TriedAllowed
     DEF PluginSelect, select_fp8_moe_backend, _select_ppu_backend, Deep
<1>3. CASE l.oracle = "int8"
  <2>1. map_backend(l) = "PPU_DEEPGEMM" => l.moe_backend = "ppu_deep_gemm"
    BY <1>3 DEF map_backend
  <2> QED BY <1>3, <2>1, UpstreamAllowed, TriedAllowed DEF PluginSelect, select_int8_moe_backend, Deep
<1>4. CASE l.oracle = "wna16"
  BY <1>4, UpstreamAllowed, TriedAllowed DEF PluginSelect, select_wna16_moe_backend, Deep
<1> QED BY <1>1, <1>2, <1>3, <1>4, OracleAssumption

--------------------------------------------------------------------------------
(* The selection of MXFP4.                                                     *)
LEMMA RequestedIs ==
  ASSUME NEW l \in OracleLayers, l.moe_backend # "auto"
  PROVE  LET tried == _get_requested_backends(l)
         IN /\ tried \in Seq(Names)
            /\ l.moe_backend = "ppu_deep_gemm" => ToSet(tried) \subseteq Mxfp4Backends
            /\ l.moe_backend = "ppu_deep_gemm_w4a16" =>
                 ToSet(tried) \subseteq Mxfp4Backends \ _ppu_backends.w4a4
            /\ l.moe_backend \in {"ppu_acext", "triton"} => tried = << >>
            /\ l.moe_backend = "marlin" => ToSet(tried) \subseteq {"MARLIN", "BATCHED_MARLIN"}
            /\ ToSet(tried) \cap PluginBackends \subseteq Mxfp4Backends
<1> DEFINE named == map_mxfp4_backend(l)  tried == _get_requested_backends(l)
<1>1. CASE l.moe_backend = "ppu_deep_gemm"
  <2>1. named = << "PPU_DEEPGEMM_MXFP4" >> BY <1>1 DEF map_mxfp4_backend
  <2>2. tried = << IF l.batched THEN "BATCHED_PPU_DEEPGEMM_MXFP4" ELSE "PPU_DEEPGEMM_MXFP4" >>
    BY <2>1 DEF _get_requested_backends, _batched_backend_map
  <2> QED BY <1>1, <2>2, BackendNames DEF ToSet, Names
<1>2. CASE l.moe_backend = "ppu_deep_gemm_w4a16"
  <2>1. named = << "PPU_DEEPGEMM_MXFP4_BF16_MMA", "PPU_DEEPGEMM_MXFP4_BF16" >>
    BY <1>2 DEF map_mxfp4_backend
  <2>2. tried = IF l.batched
                THEN << "BATCHED_PPU_DEEPGEMM_MXFP4_BF16_MMA", "BATCHED_PPU_DEEPGEMM_MXFP4_BF16" >>
                ELSE << "PPU_DEEPGEMM_MXFP4_BF16_MMA", "PPU_DEEPGEMM_MXFP4_BF16" >>
    BY <2>1 DEF _get_requested_backends, _batched_backend_map
  <2>3. ToSet(tried) \subseteq
          {"BATCHED_PPU_DEEPGEMM_MXFP4_BF16_MMA", "BATCHED_PPU_DEEPGEMM_MXFP4_BF16",
           "PPU_DEEPGEMM_MXFP4_BF16_MMA", "PPU_DEEPGEMM_MXFP4_BF16"}
    BY <2>2 DEF ToSet
  <2>4. tried \in Seq(Names)
    <3>1. CASE l.batched
      BY <2>2, <3>1, BackendNames DEF Names
    <3>2. CASE ~ l.batched
      BY <2>2, <3>2, BackendNames DEF Names
    <3> QED BY <3>1, <3>2
  <2>5. {"BATCHED_PPU_DEEPGEMM_MXFP4_BF16_MMA", "BATCHED_PPU_DEEPGEMM_MXFP4_BF16",
         "PPU_DEEPGEMM_MXFP4_BF16_MMA", "PPU_DEEPGEMM_MXFP4_BF16"}
           \subseteq Mxfp4Backends \ _ppu_backends.w4a4
    BY BackendNames DEF _ppu_backends
  <2> HIDE DEF tried, named
  <2>6. ToSet(tried) \subseteq Mxfp4Backends \ _ppu_backends.w4a4
    BY <2>3, <2>5
  <2> QED BY <1>2, <2>4, <2>6 DEF tried
<1>3. CASE l.moe_backend = "marlin"
  <2>1. named = << "MARLIN" >> BY <1>3 DEF map_mxfp4_backend
  <2>2. tried = << IF l.batched THEN "BATCHED_MARLIN" ELSE "MARLIN" >>
    BY <2>1 DEF _get_requested_backends, _batched_backend_map
  <2> QED BY <1>3, <2>2, BackendNames DEF ToSet, Names
<1>4. CASE l.moe_backend \in {"ppu_acext", "triton"}
  <2>1. named = << >> BY <1>4 DEF map_mxfp4_backend
  <2>2. tried = << >>
    BY <2>1 DEF _get_requested_backends
  <2> QED BY <1>4, <2>2 DEF ToSet
<1> QED BY <1>1, <1>2, <1>3, <1>4, OracleAssumption

LEMMA CandidatesAre ==
  LET tried == _get_priority_backends_for_gpt_oss
  IN tried \in Seq(Names) /\ ToSet(tried) \cap PluginBackends \subseteq Mxfp4Backends
<1> DEFINE s == _PPU_CANDIDATES  t == UpstreamPriority.mxfp4
<1>1. s \in Seq(Names) /\ ToSet(s) = Mxfp4Backends
  BY BackendSets, BackendNames DEF Names, _PPU_CANDIDATES
<1>2. t \in Seq(Names) /\ ToSet(t) = {"DEEPGEMM_MXFP4", "MARLIN", "BATCHED_MARLIN", "EMULATION"}
  BY DEF UpstreamPriority, Names, ToSet
<1>3. _get_priority_backends_for_gpt_oss = s \o t
  BY DEF _get_priority_backends_for_gpt_oss
<1> HIDE DEF s, t
<1>4. s \o t \in Seq(Names) /\ ToSet(s \o t) = ToSet(s) \cup ToSet(t)
  <2>1. s \in Seq(Names) /\ t \in Seq(Names) BY <1>1, <1>2
  <2> QED BY <2>1, ToSetConcat, ZenonT(40)
<1> QED BY <1>1, <1>2, <1>3, <1>4, BackendNames

LEMMA Mxfp4Allowed ==
  ASSUME NEW l \in OracleLayers, l.oracle = "mxfp4", NEW key,
         select_mxfp4_moe_backend(l, key) # "none"
  PROVE  AsAsked(select_mxfp4_moe_backend(l, key), l)
<1> DEFINE auto  == l.moe_backend = "auto"
           tried == IF auto THEN _get_priority_backends_for_gpt_oss ELSE _get_requested_backends(l)
           keyOf(b) == IF auto /\ key # "any" THEN key ELSE _backend_activation_key(b)
           passing == {b \in _filter_by_activation(tried, key) :
                         is_supported_config(b, l, << "mxfp4", keyOf(b) >>)}
           c == select_mxfp4_moe_backend(l, key)
<1>1. c = FirstOf(tried, passing)
  BY DEF select_mxfp4_moe_backend
<1>2. tried \in Seq(Names) /\ ToSet(tried) \cap PluginBackends \subseteq Mxfp4Backends
  BY RequestedIs, CandidatesAre
<1>3. c \in passing /\ c \in ToSet(tried)
  <2>1. FirstOf(tried, passing) # "none" BY <1>1
  <2> HIDE DEF tried, passing, c
  <2> QED BY <1>1, <1>2, <2>1, FirstPasses
<1>4. c \in PluginBackends => FusedMoEExperts[backend_to_kernel_cls[c]].format = Format(l)
  <2>1. is_supported_config(c, l, << "mxfp4", keyOf(c) >>) BY <1>3
  <2> QED BY <2>1, SupportedFits
<1>5. /\ l.moe_backend = "ppu_deep_gemm" => c \in Mxfp4Backends
      /\ l.moe_backend = "ppu_deep_gemm_w4a16" => c \in Mxfp4Backends \ _ppu_backends.w4a4
      /\ l.moe_backend \notin {"ppu_acext", "triton"}
      /\ l.moe_backend = "marlin" => c \in {"MARLIN", "BATCHED_MARLIN"}
      /\ c \in PluginBackends => c \in Mxfp4Backends
  <2>1. l.moe_backend # "auto" => tried = _get_requested_backends(l) OBVIOUS
  <2>2. ToSet(<< >>) = {} BY DEF ToSet
  <2> HIDE DEF tried, passing, c
  <2> QED BY <1>2, <1>3, <2>1, <2>2, RequestedIs
<1>6. Mxfp4Backends \subseteq DeepGemmBackends /\ "ACEXT" \in PluginBackends \ Mxfp4Backends
  BY BackendNames
<1> HIDE DEF c
<1>7. MayServe(c, l)
  BY <1>5, <1>6, OracleAssumption DEF MayServe
<1> QED BY <1>4, <1>5, <1>6, <1>7 DEF AsAsked, c

LEMMA SelectionAllowed ==
  ASSUME NEW l \in OracleLayers, oenv \in OracleEnvs, PluginSelect(l) # "none"
  PROVE  AsAsked(PluginSelect(l), l)
<1>1. CASE l.oracle = "mxfp4"
  <2>1. \E key : PluginSelect(l) = select_mxfp4_moe_backend(l, key)
    <3>1. l.v4 \in BOOLEAN BY OracleAssumption
    <3>2. CASE l.v4
      BY <1>1, <3>2 DEF PluginSelect, select_deepseek_v4_mxfp4_moe_backend
    <3>3. CASE ~ l.v4
      BY <1>1, <3>3 DEF PluginSelect
    <3> QED BY <3>1, <3>2, <3>3
  <2> QED BY <1>1, <2>1, Mxfp4Allowed
<1> QED BY <1>1, PlainAllowed

--------------------------------------------------------------------------------
(* The steps.                                                                  *)
LEMMA InitOracle == OracleInit => OracleInv
<1> SUFFICES ASSUME OracleInit PROVE OracleInv
  OBVIOUS
<1>1. AliasesKnown
  BY DEF OracleInit, AliasesKnown, Aliases
<1>2. LayerPrepared
  BY DEF OracleInit, LayerPrepared
<1> QED BY <1>1, <1>2 DEF OracleInit, OracleInv

LEMMA AliasesAre ==
  /\ \A o : _ORACLE_ALIAS_CONSUMERS(o) \subseteq Aliases /\ "select" \in _ORACLE_ALIAS_CONSUMERS(o)
  /\ \A o : "quantize" \notin _ORACLE_ALIAS_CONSUMERS(o)
  /\ \A o : "select" # "quantize"
BY DEF _ORACLE_ALIAS_CONSUMERS, Aliases

LEMMA LoadKeeps == OracleInv /\ LoadConsumer => OracleInv'
<1> SUFFICES ASSUME OracleInv, LoadConsumer PROVE OracleInv'
  OBVIOUS
<1> DEFINE done == CASE oracles = "upstream"   -> {}
                     [] oracles = "installed"  -> {"install"}
                     [] oracles = "registered" -> {"install", "register"}
           now == [a \in Aliases |->
                     IF ReplacedBy(olayer.oracle)[a] \in done THEN "patched" ELSE "upstream"]
<1>1. /\ aliases' \in {now, [now EXCEPT !.select = "foreign"]}
      /\ oracles = "registered" => aliases' = now
      /\ UNCHANGED << oenv, olayer, oracles, ostage, obackend, prepared >>
      /\ aliases.select = "unloaded" /\ oracles # "raised"
  BY DEF LoadConsumer
<1>2. ostage = "new"
  BY <1>1 DEF OracleInv, AliasesKnown
<1>3. \A a \in Aliases : now[a] \in {"patched", "upstream"}
  OBVIOUS
<1>4. oracles \in {"installed", "registered"} => now["quantize"] = "patched"
  BY DEF ReplacedBy, Aliases
<1>5. oracles = "registered" => \A a \in Repaired : now[a] = "patched"
  <2>1. ASSUME oracles = "registered", NEW a \in Repaired PROVE now[a] = "patched"
    <3>1. olayer.oracle \in {"unquantized", "fp8", "int8", "wna16", "mxfp4"}
      BY OracleAssumption DEF OracleInv
    <3>2. done = {"install", "register"} BY <2>1
    <3>3. a \in Aliases BY AliasesAre DEF Repaired, Aliases
    <3>4. ReplacedBy(olayer.oracle)[a] \in {"install", "register"}
      BY <2>1, <3>1 DEF ReplacedBy, Repaired, _ORACLE_ALIAS_CONSUMERS
    <3> QED BY <3>2, <3>3, <3>4
  <2> QED BY <2>1
<1>6. "select" \in Aliases /\ "quantize" \in Aliases
  BY DEF Aliases
<1> HIDE DEF now
<1>7. \A a \in Aliases : aliases'[a] = now[a] \/ (a = "select" /\ aliases'[a] = "foreign")
  <2>1. DOMAIN now = Aliases BY DEF now
  <2> QED BY <1>1, <2>1
<1>8. DOMAIN aliases' = Aliases /\ aliases' = [a \in Aliases |-> aliases'[a]]
  BY <1>1 DEF now
<1>9. AliasesKnown'
  <2>1. aliases' \in [Aliases -> {"unloaded", "upstream", "patched", "foreign"}]
    BY <1>3, <1>7, <1>8
  <2>2. \A a \in Aliases : aliases'[a] # "unloaded" /\ (aliases'[a] = "foreign" => a = "select")
    BY <1>3, <1>7
  <2>3. oracles \in {"installed", "registered"} => aliases'["quantize"] = "patched"
    BY <1>4, <1>6, <1>7
  <2>4. oracles = "registered" => \A a \in Repaired : aliases'[a] = "patched"
    BY <1>1, <1>5
  <2>5. Repaired' = Repaired BY <1>1 DEF Repaired
  <2> QED BY <1>1, <1>2, <1>6, <2>1, <2>2, <2>3, <2>4, <2>5 DEF OracleInv, AliasesKnown
<1>10. LayerPrepared'
  BY <1>1, <1>2 DEF OracleInv, LayerPrepared, Unprepared
<1> QED BY <1>1, <1>9, <1>10 DEF OracleInv

LEMMA RepairsKeep ==
  OracleInv /\ (_rebind_loaded_quantize_input_aliases \/ _rebind_loaded_oracle_aliases) => OracleInv'
<1> SUFFICES ASSUME OracleInv,
                    _rebind_loaded_quantize_input_aliases \/ _rebind_loaded_oracle_aliases
             PROVE  OracleInv'
  OBVIOUS
<1>1. /\ UNCHANGED << oenv, olayer, ostage, obackend, prepared >>
      /\ oracles \in {"upstream", "installed"}
  BY DEF _rebind_loaded_quantize_input_aliases, _rebind_loaded_oracle_aliases
<1>2. ostage = "new"
  BY <1>1 DEF OracleInv, AliasesKnown
<1>3. LayerPrepared'
  BY <1>1, <1>2 DEF OracleInv, LayerPrepared, Unprepared
<1>4. Repaired' = Repaired /\ "select" \in Aliases /\ "quantize" \in Aliases
  BY <1>1 DEF Repaired, Aliases
<1>5. CASE _rebind_loaded_quantize_input_aliases
  <2>1. /\ oracles' = "installed"
        /\ aliases' = [aliases EXCEPT !.quantize = IF @ = "upstream" THEN "patched" ELSE @]
    BY <1>5 DEF _rebind_loaded_quantize_input_aliases
  <2>2. \A a \in Aliases :
          aliases'[a] = IF a = "quantize" /\ aliases[a] = "upstream" THEN "patched" ELSE aliases[a]
    BY <2>1 DEF OracleInv, AliasesKnown
  <2>3. aliases' \in [Aliases -> {"unloaded", "upstream", "patched", "foreign"}]
    BY <2>1 DEF OracleInv, AliasesKnown
  <2>4. \A a \in Aliases : /\ aliases'[a] = "foreign" => a = "select"
                           /\ aliases'[a] = "unloaded" <=> aliases'.select = "unloaded"
    BY <1>4, <2>2 DEF OracleInv, AliasesKnown
  <2>5. aliases'["quantize"] \in {"unloaded", "patched"}
    BY <1>4, <2>2 DEF OracleInv, AliasesKnown
  <2>6. AliasesKnown'
    BY <1>1, <1>2, <1>4, <2>1, <2>3, <2>4, <2>5 DEF AliasesKnown
  <2> QED BY <1>1, <1>3, <2>6 DEF OracleInv
<1>6. CASE _rebind_loaded_oracle_aliases /\ oracles' = "raised"
  <2>1. UNCHANGED aliases
    BY <1>6 DEF _rebind_loaded_oracle_aliases
  <2>2. AliasesKnown'
    BY <1>1, <1>2, <1>4, <1>6, <2>1 DEF OracleInv, AliasesKnown
  <2> QED BY <1>1, <1>3, <2>2 DEF OracleInv
<1>7. CASE _rebind_loaded_oracle_aliases /\ oracles' # "raised"
  <2> DEFINE known == _ORACLE_ALIAS_CONSUMERS(olayer.oracle)
  <2>1. /\ oracles = "installed" /\ oracles' = "registered"
        /\ \A a \in known : aliases[a] # "foreign"
        /\ aliases' = [a \in Aliases |->
                         IF a \in known /\ aliases[a] = "upstream" THEN "patched" ELSE aliases[a]]
    BY <1>7 DEF _rebind_loaded_oracle_aliases
  <2>2. known \subseteq Aliases
    BY AliasesAre
  <2> HIDE DEF known
  <2>3. aliases' \in [Aliases -> {"unloaded", "upstream", "patched", "foreign"}]
    BY <2>1 DEF OracleInv, AliasesKnown
  <2>4. \A a \in Aliases : /\ aliases'[a] = "foreign" => a = "select"
                           /\ aliases'[a] = "unloaded" <=> aliases'.select = "unloaded"
    BY <1>4, <2>1 DEF OracleInv, AliasesKnown
  <2>5. aliases'["quantize"] \in {"unloaded", "patched"}
    BY <1>4, <2>1 DEF OracleInv, AliasesKnown
  <2>6. \A a \in known : aliases'[a] \in {"unloaded", "patched"}
    BY <2>1, <2>2 DEF OracleInv, AliasesKnown
  <2>7. AliasesKnown'
    BY <1>1, <1>2, <1>4, <2>1, <2>3, <2>4, <2>5, <2>6 DEF AliasesKnown, Repaired, known
  <2> QED BY <1>1, <1>3, <2>7 DEF OracleInv
<1> QED BY <1>5, <1>6, <1>7

\* The environment and the layer stay, and with them what is allowed.
LEMMA AsAskedStays ==
  ASSUME UNCHANGED << oenv, olayer >>, AsAsked(obackend', olayer)
  PROVE  AsAsked(obackend, olayer)'
<1>1. FusedMoEExperts' = FusedMoEExperts
  BY DEF FusedMoEExperts, StandardDeepGemm, BatchedDeepGemm, StandardMXFP4, BatchedMXFP4,
         W4FA16MMA, AcextSupports
<1>2. Candidates(olayer)' = Candidates(olayer)
  BY DEF Candidates, Asked
<1>3. Scheme(olayer)' = Scheme(olayer) /\ Format(olayer)' = Format(olayer)
  BY DEF Scheme, Format
<1>4. \A p : Usable(p, olayer)' <=> Usable(p, olayer)
  BY <1>1, <1>3 DEF Usable, is_supported_config, _backend_incompatibility_reason,
     UpstreamSupports, gated_check_moe_marlin_supports_config
<1>5. MayServe(obackend, olayer)'
  BY <1>2, <1>4 DEF AsAsked, MayServe
<1> QED BY <1>1, <1>3, <1>5 DEF AsAsked

LEMMA SelectKeeps == OracleInv /\ Select => OracleInv'
<1> SUFFICES ASSUME OracleInv, Select PROVE OracleInv'
  OBVIOUS
<1>1. /\ oracles = "registered" /\ aliases.select # "unloaded" /\ ostage = "new"
      /\ obackend' = IF aliases.select = "patched" THEN PluginSelect(olayer) ELSE UpstreamSelect(olayer)
      /\ ostage' = IF obackend' = "none" THEN "refused" ELSE "selected"
      /\ UNCHANGED << oenv, olayer, aliases, oracles, prepared >>
  BY DEF Select
<1>2. "select" \in Repaired
  BY AliasesAre DEF Repaired
<1>3. aliases.select = "patched"
  BY <1>1, <1>2 DEF OracleInv, AliasesKnown
<1>4. obackend' = PluginSelect(olayer)
  BY <1>1, <1>3
<1>5. obackend' # "none" => AsAsked(obackend', olayer)
  BY <1>4, SelectionAllowed DEF OracleInv
<1>6. AsAsked(obackend', olayer) => AsAsked(obackend, olayer)'
  BY <1>1, AsAskedStays
<1>7. Repaired' = Repaired
  BY <1>1 DEF Repaired
<1>8. AliasesKnown'
  BY <1>1, <1>7 DEF OracleInv, AliasesKnown
<1>9. LayerPrepared'
  BY <1>1, <1>5, <1>6 DEF OracleInv, LayerPrepared
<1> QED BY <1>1, <1>8, <1>9 DEF OracleInv

LEMMA UnknownNever ==
  ASSUME OracleInv, ostage # "new", NEW a \in {"convert", "config"}
  PROVE  ~ Unknown(a)
<1>1. olayer.oracle = "unquantized" => ReplacedBy(olayer.oracle)[a] = "never"
  BY DEF ReplacedBy
<1>2. olayer.oracle # "unquantized" => a \in Repaired
  BY DEF Repaired, _ORACLE_ALIAS_CONSUMERS
<1>3. olayer.oracle # "unquantized" => aliases[a] # "upstream"
  BY <1>2 DEF OracleInv, AliasesKnown
<1> QED BY <1>1, <1>3 DEF Unknown

LEMMA StagesKeep ==
  ASSUME OracleInv,
         \/ mxfp4_round_up_hidden_size_and_intermediate_size
         \/ process_weights_after_loading \/ get_fused_moe_quant_config \/ ServeBatch
  PROVE  OracleInv'
<1> DEFINE P == PreparedFor(obackend, olayer)
<1>1. /\ UNCHANGED << oenv, olayer, aliases, oracles, obackend >>
      /\ ostage \in {"selected", "created", "loaded", "ready"} /\ ostage' # "new"
  BY DEF mxfp4_round_up_hidden_size_and_intermediate_size, process_weights_after_loading,
         get_fused_moe_quant_config, ServeBatch
<1>2. Repaired' = Repaired /\ P' = P /\ Converted(obackend, olayer)' = Converted(obackend, olayer)
  BY <1>1 DEF Repaired, PreparedFor, Converted, _convert_weight, InputsOf
<1>3. AliasesKnown'
  BY <1>1, <1>2 DEF OracleInv, AliasesKnown
<1>4. AsAsked(obackend, olayer)'
  <2>1. AsAsked(obackend', olayer)
    BY <1>1 DEF OracleInv, LayerPrepared
  <2> QED BY <1>1, <2>1, AsAskedStays
<1>5. /\ P.weights = Converted(obackend, olayer) /\ P.inputs = InputsOf(obackend, olayer)
      /\ P.align = IF olayer.oracle = "mxfp4" THEN RoundUp(obackend) ELSE 1
      /\ P = [weights |-> P.weights, align |-> P.align, inputs |-> P.inputs]
  BY DEF PreparedFor
<1>6. ~ Unknown("convert") /\ ~ Unknown("config")
  BY <1>1, UnknownNever
<1>7. CASE mxfp4_round_up_hidden_size_and_intermediate_size
  <2>1. /\ ostage = "selected" /\ ostage' = "created"
        /\ prepared' = [prepared EXCEPT !.align = P.align]
    BY <1>5, <1>7 DEF mxfp4_round_up_hidden_size_and_intermediate_size
  <2>2. prepared = [weights |-> "checkpoint", align |-> 1, inputs |-> "unset"]
    BY <2>1 DEF OracleInv, LayerPrepared, Unprepared
  <2> HIDE DEF P
  <2>3. prepared' = [weights |-> "checkpoint", align |-> P.align, inputs |-> "unset"]
    BY <2>1, <2>2
  <2>4. LayerPrepared'
    BY <1>2, <1>4, <2>1, <2>3 DEF LayerPrepared, P
  <2> QED BY <1>1, <1>3, <2>4 DEF OracleInv
<1>8. CASE process_weights_after_loading
  <2>1. /\ ostage = "created"
        /\ \/ ostage' = "refused"
           \/ /\ ostage' = "loaded" /\ Converted(obackend, olayer) # "raise"
              /\ prepared' = [prepared EXCEPT !.weights = P.weights]
    BY <1>5, <1>6, <1>8 DEF process_weights_after_loading
  <2>2. prepared = [weights |-> "checkpoint", align |-> P.align, inputs |-> "unset"]
    BY <2>1 DEF OracleInv, LayerPrepared
  <2> HIDE DEF P
  <2>3. ostage' = "loaded" => prepared' = [P EXCEPT !.inputs = "unset"]
    BY <1>5, <2>1, <2>2
  <2>4. LayerPrepared'
    BY <1>2, <1>4, <2>1, <2>3 DEF LayerPrepared, P
  <2> QED BY <1>1, <1>3, <2>4 DEF OracleInv
<1>9. CASE get_fused_moe_quant_config
  <2>1. /\ ostage = "loaded" /\ ostage' = "ready"
        /\ prepared' = [prepared EXCEPT !.inputs = P.inputs]
    BY <1>5, <1>6, <1>9 DEF get_fused_moe_quant_config
  <2>2. prepared = [P EXCEPT !.inputs = "unset"] /\ Converted(obackend, olayer) # "raise"
    BY <2>1 DEF OracleInv, LayerPrepared
  <2> HIDE DEF P
  <2>3. prepared' = P
    BY <1>5, <2>1, <2>2
  <2>4. LayerPrepared'
    BY <1>2, <1>4, <2>1, <2>2, <2>3 DEF LayerPrepared, P
  <2> QED BY <1>1, <1>3, <2>4 DEF OracleInv
<1>10. CASE ServeBatch
  <2>1. "quantize" \in Repaired BY DEF Repaired
  <2>2. "quantize" \in Aliases /\ "select" \in Aliases BY DEF Aliases
  <2>3. aliases.quantize = "patched"
    BY <1>1, <2>1, <2>2 DEF OracleInv, AliasesKnown
  <2>4. /\ ostage = "ready" /\ ostage' \in {"served", "missing"}
        /\ ostage' = "missing" => obackend = "ACEXT" /\ ~ oenv.acext
        /\ UNCHANGED prepared
    BY <1>10, <2>3 DEF ServeBatch
  <2> HIDE DEF P
  <2>5. prepared = P /\ Converted(obackend, olayer) # "raise"
    BY <2>4 DEF OracleInv, LayerPrepared, P
  <2>6. LayerPrepared'
    BY <1>1, <1>2, <1>4, <2>4, <2>5 DEF LayerPrepared, P
  <2> QED BY <1>1, <1>3, <2>6 DEF OracleInv
<1> QED BY <1>7, <1>8, <1>9, <1>10

LEMMA NextOracle == OracleInv /\ [OracleNext]_oracleVars => OracleInv'
<1>1. ASSUME OracleInv, UNCHANGED oracleVars PROVE OracleInv'
  <2>1. UNCHANGED << oenv, olayer, aliases, oracles, ostage, obackend, prepared >>
    BY <1>1 DEF oracleVars
  <2>2. AliasesKnown'
    BY <1>1, <2>1 DEF OracleInv, AliasesKnown, Repaired
  <2>3. /\ PreparedFor(obackend, olayer)' = PreparedFor(obackend, olayer)
        /\ Converted(obackend, olayer)' = Converted(obackend, olayer)
    BY <2>1 DEF PreparedFor, Converted, _convert_weight, InputsOf
  <2>4. AsAsked(obackend, olayer) => AsAsked(obackend, olayer)'
    <3>1. obackend' = obackend BY <2>1
    <3> QED BY <2>1, <3>1, AsAskedStays
  <2>5. LayerPrepared'
    BY <1>1, <2>1, <2>3, <2>4 DEF OracleInv, LayerPrepared
  <2> QED BY <1>1, <2>1, <2>2, <2>5 DEF OracleInv
<1>2. Settled => UNCHANGED oracleVars
  BY DEF Settled
<1> QED BY <1>1, <1>2, LoadKeeps, RepairsKeep, SelectKeeps, StagesKeep DEF OracleNext

\* What was prepared for a backend of the plugin is what its experts read.
LEMMA PreparedIsRead ==
  ASSUME NEW l \in OracleLayers, NEW b \in PluginBackends, AsAsked(b, l), Converted(b, l) # "raise"
  PROVE  << PreparedFor(b, l).weights, PreparedFor(b, l).align, PreparedFor(b, l).inputs >> = Reads(b, l)
<1>1. l.oracle \in {"unquantized", "fp8", "int8", "wna16", "mxfp4"}
  BY OracleAssumption
<1>2. l.oracle = "mxfp4" <=> b \in Mxfp4Backends
  BY DEF AsAsked
<1>3. /\ _ppu_backends.w4a4 \cap _ppu_backends.bf16 = {} /\ _ppu_backends.w4a4 \cap _ppu_backends.mma = {}
      /\ _ppu_backends.bf16 \cap _ppu_backends.mma = {}
  BY DEF _ppu_backends
<1>4. CASE l.oracle = "mxfp4"
  <2>1. /\ PreparedFor(b, l).weights = _convert_weight(b, l)
        /\ PreparedFor(b, l).align = RoundUp(b)
        /\ PreparedFor(b, l).inputs = _backend_activation_key(b)
    BY <1>4 DEF PreparedFor, Converted, InputsOf
  <2>2. _convert_weight(b, l) # "raise" BY <1>4 DEF Converted
  <2>3. CASE b \in _ppu_backends.w4a4
    <3>1. b \notin _ppu_backends.bf16 /\ b \notin _ppu_backends.mma /\ b # "MARLIN"
      BY <1>3, <2>3 DEF _ppu_backends
    <3>2. _convert_weight(b, l) = "preprocess_mxfp4_scales"
      BY <2>3, <3>1 DEF _convert_weight
    <3>3. RoundUp(b) = 32 /\ _backend_activation_key(b) = "mxfp4"
      BY <2>3, <3>1 DEF RoundUp, _backend_activation_key
    <3>4. Reads(b, l) = << "preprocess_mxfp4_scales", 32, "mxfp4" >>
      BY <1>4, <2>3, <3>1 DEF Reads
    <3> QED BY <2>1, <3>2, <3>3, <3>4
  <2>4. CASE b \in _ppu_backends.bf16
    <3>1. b \notin _ppu_backends.w4a4 /\ b \notin _ppu_backends.mma
      BY <1>3, <2>4
    <3>2. _convert_weight(b, l) = "MARLIN"
      BY <2>2, <2>4, <3>1 DEF _convert_weight
    <3>3. RoundUp(b) = 128 /\ _backend_activation_key(b) = "none"
      BY <2>4, <3>1 DEF RoundUp, _backend_activation_key
    <3>4. Reads(b, l) = << "MARLIN", 128, "none" >>
      BY <1>4, <2>4, <3>1 DEF Reads
    <3> QED BY <2>1, <3>2, <3>3, <3>4
  <2>5. CASE b \in _ppu_backends.mma
    <3>1. b \notin _ppu_backends.w4a4 /\ b \notin _ppu_backends.bf16 /\ b # "MARLIN"
      BY <1>3, <2>5 DEF _ppu_backends
    <3>2. _convert_weight(b, l) = "preprocess_mxfp4_w4a16_scales"
      BY <2>5, <3>1 DEF _convert_weight
    <3>3. RoundUp(b) = 64 /\ _backend_activation_key(b) = "none"
      BY <2>5, <3>1 DEF RoundUp, _backend_activation_key
    <3>4. Reads(b, l) = << "preprocess_mxfp4_w4a16_scales", 64, "none" >>
      BY <1>4, <2>5, <3>1 DEF Reads
    <3> QED BY <2>1, <3>2, <3>3, <3>4
  <2> QED BY <1>2, <1>4, <2>3, <2>4, <2>5 DEF Mxfp4Backends
<1>5. CASE l.oracle # "mxfp4"
  <2>1. b \notin _ppu_backends.w4a4 /\ b \notin _ppu_backends.bf16 /\ b \notin _ppu_backends.mma
    BY <1>2, <1>5 DEF Mxfp4Backends
  <2>2. /\ PreparedFor(b, l).weights = Converted(b, l)
        /\ PreparedFor(b, l).align = 1
        /\ PreparedFor(b, l).inputs = Scheme(l)[2]
    BY <1>5 DEF PreparedFor, InputsOf
  <2>3. CASE l.oracle \in {"unquantized", "int8"}
    <3>1. Converted(b, l) = "checkpoint"
      BY <2>3 DEF Converted, convert_to_int8_moe_kernel_format
    <3>2. Reads(b, l) = << "checkpoint", 1, Scheme(l)[2] >>
      BY <2>1, <2>3 DEF Reads
    <3> QED BY <2>2, <3>1, <3>2
  <2>4. CASE l.oracle = "wna16"
    <3>1. Converted(b, l) = "MARLIN" /\ Scheme(l)[2] = "none"
      BY <2>4 DEF Converted, convert_to_wna16_moe_kernel_format, Scheme
    <3>2. Reads(b, l) = << "MARLIN", 1, "none" >>
      BY <2>1, <2>4 DEF Reads
    <3> QED BY <2>2, <3>1, <3>2
  <2>5. CASE l.oracle = "fp8"
    <3>1. Converted(b, l) = IF l.quant = "block" THEN "deepgemm" ELSE "checkpoint"
      BY <2>5 DEF Converted, convert_to_fp8_moe_kernel_format
    <3>2. l.quant = "block" => Scheme(l)[2] = "fp8_block"
      BY <2>5 DEF Scheme
    <3>3. Reads(b, l) = IF l.quant = "block" THEN << "deepgemm", 1, "fp8_block" >>
                        ELSE << "checkpoint", 1, Scheme(l)[2] >>
      BY <2>1, <2>5 DEF Reads
    <3> QED BY <2>2, <3>1, <3>2, <3>3
  <2> QED BY <1>1, <1>5, <2>3, <2>4, <2>5
<1> QED BY <1>4, <1>5

\* The inductive invariant of the oracles: what the module of a layer holds of each
\* function, that a selection answers within the configuration, and what the layer is
\* prepared for at each stage (registry/moe_backends, patch/enhancement/mxfp4.py).
THEOREM OraclesAreSound == OracleSpec => []OracleInv
BY InitOracle, NextOracle, PTL DEF OracleSpec

\* For any layers, libraries and values of VLLM_SAIL_MOE_BACKEND, and whenever the module
\* that builds the layer was imported: a layer that is not refused has the backend it names,
\* or an automatic choice that MayServe allows, and is prepared as its experts read it.  Of
\* the automatic choices for WNA16 and MXFP4, whose oracles do not read the variable, only
\* the preparation is claimed.
THEOREM AlwaysServedAsAsked == OracleSpec => []ServedAsAsked
<1>1. OracleInv => ServedAsAsked
  <2> SUFFICES ASSUME OracleInv, ostage \notin {"new", "refused"} PROVE ServedAsAsked
    BY DEF ServedAsAsked
  <2>1. AsAsked(obackend, olayer) /\ ostage \notin {"unknown", "misquantized"}
    BY DEF OracleInv, LayerPrepared
  <2>2. obackend \in PluginBackends /\ ostage \in {"ready", "served", "missing"} =>
          << prepared.weights, prepared.align, prepared.inputs >> = Reads(obackend, olayer)
    BY <2>1, PreparedIsRead DEF OracleInv, LayerPrepared
  <2>3. ostage = "missing" => olayer.moe_backend = "ppu_acext" /\ ~ oenv.acext
    BY <2>1 DEF AsAsked, OracleInv, LayerPrepared
  <2> QED BY <2>1, <2>2, <2>3 DEF ServedAsAsked, AsAsked
<1> QED BY <1>1, OraclesAreSound, PTL

--------------------------------------------------------------------------------
(* The warm-up of DeepGEMM's kernels: what the ranks of a node have compiled.  *)

\* A plan: numbers of rows, none twice.
IsPlan(p) == p \in Seq(Nat) /\ \A i, j \in 1 .. Len(p) : p[i] = p[j] => i = j

\* Every element of a finite set of numbers has its place among them, and another has not
\* the same: the elements in order are a plan.
LEMMA SortedIsPlan ==
  ASSUME NEW n \in Nat, NEW S \in SUBSET (1 .. n)
  PROVE  IsPlan(Sorted(S))
<1> DEFINE upto(x) == { y \in S : y <= x }
           rank == [x \in S |-> Cardinality(upto(x))]
           c == Cardinality(S)
<1>1. IsFiniteSet(S) /\ c \in Nat
  <2>1. IsFiniteSet(1 .. n) BY FS_Interval
  <2>2. IsFiniteSet(S) BY <2>1, FS_Subset
  <2>3. QED BY <2>2, FS_CardinalityType
<1>2. ASSUME NEW x \in S
      PROVE  IsFiniteSet(upto(x)) /\ Cardinality(upto(x)) \in 1 .. c
  <2>1. upto(x) \in SUBSET S OBVIOUS
  <2>2. IsFiniteSet(upto(x)) /\ Cardinality(upto(x)) <= c
    <3> HIDE DEF upto
    <3> QED BY <1>1, <2>1, FS_Subset
  <2>3. x \in upto(x) OBVIOUS
  <2>4. Cardinality(upto(x)) \in Nat /\ Cardinality(upto(x)) # 0
    <3> HIDE DEF upto
    <3> QED BY <2>2, <2>3, FS_CardinalityType, FS_EmptySet
  <2> HIDE DEF upto
  <2>5. QED BY <2>2, <2>4, <1>1
<1>3. ASSUME NEW x \in S, NEW y \in S, x < y
      PROVE  Cardinality(upto(x)) # Cardinality(upto(y))
  <2>1. upto(x) \in SUBSET upto(y) /\ y \in upto(y) /\ y \notin upto(x)
    <3>1. x \in Nat /\ y \in Nat OBVIOUS
    <3>2. \A z \in S : z <= x => z <= y BY <1>3, <3>1
    <3>3. y <= y /\ ~ (y <= x) BY <1>3, <3>1
    <3>4. QED BY <3>2, <3>3
  <2>2. upto(x) # upto(y) BY <2>1
  <2>3. IsFiniteSet(upto(y)) BY <1>2
  <2> HIDE DEF upto
  <2>4. QED BY <2>1, <2>2, <2>3, FS_Subset
<1>4. rank \in Injection(S, 1 .. c)
  <2>1. rank \in [S -> 1 .. c] BY <1>2
  <2>2. ASSUME NEW x \in S, NEW y \in S, rank[x] = rank[y] PROVE x = y
    <3>1. x \in Nat /\ y \in Nat OBVIOUS
    <3>2. ~ (x < y) /\ ~ (y < x)
      <4> HIDE DEF upto
      <4> QED BY <1>3, <2>2
    <3>3. QED BY <3>1, <3>2
  <2>3. QED
    <3> HIDE DEF rank
    <3> QED BY <2>1, <2>2 DEF Injection, IsInjective
<1>5. rank \in Surjection(S, 1 .. c)
  <2>1. IsFiniteSet(1 .. c) /\ Cardinality(1 .. c) = c BY <1>1, FS_Interval
  <2> HIDE DEF rank, c
  <2>2. Cardinality(S) = Cardinality(1 .. c) BY <2>1 DEF c
  <2>3. QED BY <1>4, <2>1, <2>2, FS_Injection
<1>6. ASSUME NEW i \in 1 .. c PROVE \E x \in S : Cardinality(upto(x)) = i
  <2>1. \E x \in S : rank[x] = i
    <3> HIDE DEF rank, c
    <3> QED BY <1>5 DEF Surjection
  <2>2. QED BY <2>1
<1> DEFINE s == Sorted(S)
<1>7. s = [i \in 1 .. c |-> CHOOSE x \in S : Cardinality(upto(x)) = i] BY DEF Sorted
<1>8. ASSUME NEW i \in 1 .. c PROVE s[i] \in S /\ Cardinality(upto(s[i])) = i
  <2>1. s[i] = CHOOSE x \in S : Cardinality(upto(x)) = i BY <1>7
  <2> HIDE DEF s, upto, c
  <2>2. QED BY <2>1, <1>6
<1> HIDE DEF s, upto, c, rank
<1>9. s \in Seq(Nat) /\ Len(s) = c
  <2>1. s \in [1 .. c -> Nat]
    <3>1. DOMAIN s = 1 .. c /\ s = [i \in 1 .. c |-> s[i]] BY <1>7
    <3>2. \A z \in S : z \in Nat OBVIOUS
    <3>3. \A i \in 1 .. c : s[i] \in Nat BY <1>8, <3>2
    <3>4. QED BY <3>1, <3>3
  <2>2. QED BY <1>1, <2>1
<1>10. QED BY <1>8, <1>9 DEF IsPlan, s

\* The plans of the weights of the layers a family may run.
LEMMA PlansArePlans ==
  ASSUME NEW f \in Families, NEW m \in ModelLayers, NEW w \in ToSet(Weights(m)),
         MayUse(f, m), WarmMaxTokens \in Nat \ {0}
  PROVE  IsPlan(Plan(f, m, w))
<1>1. ASSUME NEW max \in Nat PROVE IsPlan(Multiples(max))
  <2>1. Multiples(max) = [i \in 1 .. max |-> i] BY DEF Multiples, BlockM
  <2>2. Multiples(max) \in Seq(Nat) /\ Len(Multiples(max)) = max BY <2>1
  <2>3. QED BY <2>1, <2>2 DEF IsPlan
<1>2. ASSUME NEW v PROVE IsPlan(_get_gemm_nt_m_values(v))
  <2>1. IsPlan([i \in 1 .. WarmMaxTokens |-> i])
    BY DEF IsPlan
  <2>2. IsPlan(_generate_optimal_warmup_m_values(v.n))
    <3>1. PICK S \in SUBSET (1 .. WarmMaxTokens + 64) :
             _generate_optimal_warmup_m_values(v.n) = Sorted(S)
      <4>1. ASSUME NEW R
            PROVE  {1, 2, 4} \cup { 8 * i : i \in 1 .. 8 } \cup (R \cap 1 .. WarmMaxTokens)
                     \in SUBSET (1 .. WarmMaxTokens + 64)
        OBVIOUS
      <4> DEFINE tiles == {64, 128, 256}
                 waves == { (wave * NumSms * t) \div cdiv(v.n, 16 * b) :
                              wave \in 1 .. 10, t \in tiles,
                              b \in 1 .. (IF v.n > 256 THEN 256 ELSE v.n) \div 16 }
                 multiples == IF v.n < 16 THEN {}
                              ELSE UNION { { k * t : k \in 1 .. WarmMaxTokens \div t } : t \in tiles }
                 values == {1, 2, 4} \cup { 8 * i : i \in 1 .. 8 }
                             \cup ((waves \cup multiples) \cap 1 .. WarmMaxTokens)
      <4>2. _generate_optimal_warmup_m_values(v.n) = Sorted(values)
        BY DEF _generate_optimal_warmup_m_values
      <4>3. values \in SUBSET (1 .. WarmMaxTokens + 64)
        <5> HIDE DEF waves, multiples
        <5> QED BY <4>1
      <4>4. QED
        <5> HIDE DEF values
        <5> QED BY <4>2, <4>3
    <3>2. WarmMaxTokens + 64 \in Nat OBVIOUS
    <3>3. QED BY <3>1, <3>2, SortedIsPlan
  <2>3. QED BY <2>1, <2>2 DEF _get_gemm_nt_m_values
<1>3. CASE f \in DenseFamilies
  <2>1. Plan(f, m, w) = _get_gemm_nt_m_values(w) BY <1>3 DEF Plan, DenseFamilies, MaskedFamilies
  <2>2. QED BY <2>1, <1>2
<1>4. CASE f \notin DenseFamilies
  <2>1. m \in [quant : STRING, block : Nat, experts : STRING, topk : Nat \ {0}, w1 : Stacked, w2 : Stacked]
        /\ ~ IsLinear(m)
    <3>1. ~ IsLinear(m)
      BY <1>4 DEF Families, DenseFamilies, MaskedFamilies, MayUse, MoeMayUse,
         _fused_moe_grouped_gemm_may_use_deep_gemm, _fused_moe_grouped_gemm_may_use_deep_gemm_int8,
         _fused_moe_grouped_gemm_may_use_deep_gemm_bf16, _fused_moe_grouped_gemm_may_use_deep_gemm_fp4,
         _fused_moe_grouped_gemm_may_use_deep_gemm_fp4_masked, _fused_moe_grouped_gemm_may_use_deep_gemm_w4a16
    <3>2. QED BY <3>1 DEF ModelLayers, IsLinear
  <2>2. w \in Stacked /\ m.topk \in Nat \ {0}
    BY <2>1 DEF ToSet, Weights
  <2>3. ASSUME NEW a \in Nat, NEW b \in Nat \ {0} PROVE (a + b - 1) \div b \in Nat
    BY <2>3
  <2>4. WarmMaxTokens * m.topk \in Nat BY <2>2
  <2>5. MaskedRows(w, m.topk) \in Nat
    <3>1. cdiv(WarmMaxTokens * m.topk, w.experts) \in Nat BY <2>2, <2>3, <2>4 DEF Stacked, cdiv
    <3> DEFINE k == cdiv(WarmMaxTokens * m.topk, w.experts)
    <3>2. cdiv(k, 1) * 1 \in Nat
      <4> HIDE DEF k
      <4> QED BY <3>1 DEF cdiv, k
    <3>3. QED BY <3>2 DEF MaskedRows, BlockM
  <2>6. _get_grouped_gemm_params(w, m.topk) \in Nat
    <3>1. WarmMaxTokens * m.topk + w.experts * (1 - 1) \in Nat BY <2>2, <2>4 DEF Stacked
    <3> DEFINE k == WarmMaxTokens * m.topk + w.experts * (1 - 1)
    <3>2. cdiv(k, 1) * 1 \in Nat
      <4> HIDE DEF k
      <4> QED BY <3>1 DEF cdiv, k
    <3>3. QED BY <3>2 DEF _get_grouped_gemm_params, BlockM
  <2>7. QED BY <1>1, <1>4, <2>5, <2>6 DEF Plan
<1>5. QED BY <1>3, <1>4

\* The positions of a plan of n numbers that are the share of a rank.
Part(n, r) ==
  LET size == _get_local_rank_and_size
  IN IF size <= 1 THEN 1 .. n ELSE r * (n \div size) + 1 .. (r + 1) * (n \div size)

\* A node has one rank, two or three.
LEMMA Sizes ==
  ASSUME wenv \in WarmEnvs
  PROVE  _get_local_rank_and_size \in {1, 2, 3}
<1>1. wenv.layout \in Layouts BY DEF WarmEnvs
<1>2. QED BY <1>1 DEF Layouts, _get_local_rank_and_size

\* The share of a rank, by its positions.
LEMMA ShareIsPart ==
  ASSUME wenv \in WarmEnvs, NEW r \in LocalRanks, NEW p \in Seq(Nat)
  PROVE  /\ Part(Len(p), r) \subseteq 1 .. Len(p)
         /\ ToSet(_shard_m_values_chunked(p, r)) = { p[i] : i \in Part(Len(p), r) }
<1> DEFINE size == _get_local_rank_and_size  n == Len(p)  chunk == n \div size
<1>1. size \in {1, 2, 3} /\ n \in Nat /\ r \in 0 .. size - 1 BY Sizes DEF LocalRanks
<1>2. CASE size <= 1
  <2>1. Part(n, r) = 1 .. n BY <1>2 DEF Part
  <2>2. _shard_m_values_chunked(p, r) = p BY <1>2 DEF _shard_m_values_chunked
  <2>3. DOMAIN p = 1 .. n OBVIOUS
  <2>4. QED BY <2>1, <2>2, <2>3 DEF ToSet
<1>3. CASE ~ (size <= 1)
  <2> DEFINE a == r * chunk + 1  b == (r + 1) * chunk
             s == _shard_m_values_chunked(p, r)
  <2>1. Part(n, r) = a .. b BY <1>3 DEF Part
  <2>2. chunk \in Nat /\ a \in Nat \ {0} /\ b \in Nat /\ b <= n
    <3>1. CASE size = 2
      <4>1. chunk = n \div 2 /\ r \in {0, 1} BY <1>1, <3>1
      <4>2. CASE r = 0 BY <4>1, <4>2, <1>1
      <4>3. CASE r = 1 BY <4>1, <4>3, <1>1
      <4>4. QED BY <4>1, <4>2, <4>3
    <3>2. CASE size = 3
      <4>1. chunk = n \div 3 /\ r \in {0, 1, 2} BY <1>1, <3>2
      <4>2. CASE r = 0 BY <4>1, <4>2, <1>1
      <4>3. CASE r = 1 BY <4>1, <4>3, <1>1
      <4>4. CASE r = 2 BY <4>1, <4>4, <1>1
      <4>5. QED BY <4>1, <4>2, <4>3, <4>4
    <3>3. QED BY <1>1, <1>3, <3>1, <3>2
  <2> HIDE DEF chunk, a, b
  <2>3. s = SubSeq(p, a, b)
    <3>1. s = SubSeq(p, a, Least(n, b)) BY <1>3 DEF _shard_m_values_chunked, a, b, chunk, Least
    <3>2. Least(n, b) = b BY <2>2, <1>1 DEF Least
    <3>3. QED BY <3>1, <3>2
  <2>4. a .. b \subseteq 1 .. n BY <2>2, <1>1
  <2> HIDE DEF s
  <2>5. DOMAIN s = 1 .. (b - a + 1) /\ \A i \in 1 .. (b - a + 1) : s[i] = p[i + a - 1]
    <3>1. \A i \in a .. b : p[i] \in Nat BY <2>4
    <3>2. /\ s \in Seq(Nat) /\ Len(s) = IF a <= b THEN b - a + 1 ELSE 0
          /\ \A i \in 1 .. (b - a + 1) : s[i] = p[a + i - 1]
      BY <2>2, <2>3, <3>1, SubSeqProperties
    <3>3. 1 .. (IF a <= b THEN b - a + 1 ELSE 0) = 1 .. (b - a + 1) BY <2>2
    <3>4. \A i \in 1 .. (b - a + 1) : a + i - 1 = i + a - 1 BY <2>2
    <3>5. DOMAIN s = 1 .. Len(s) BY <3>2
    <3>6. QED BY <3>2, <3>3, <3>4, <3>5
  <2>6. ToSet(s) = { p[i] : i \in a .. b }
    <3>1. ASSUME NEW i \in 1 .. (b - a + 1) PROVE s[i] \in { p[k] : k \in a .. b }
      <4>1. i + a - 1 \in a .. b BY <2>2
      <4>2. s[i] = p[i + a - 1] BY <2>5
      <4>3. QED BY <4>1, <4>2
    <3>2. ASSUME NEW k \in a .. b PROVE \E i \in 1 .. (b - a + 1) : s[i] = p[k]
      <4>1. k - a + 1 \in 1 .. (b - a + 1) /\ (k - a + 1) + a - 1 = k BY <2>2
      <4>2. s[k - a + 1] = p[k] BY <4>1, <2>5
      <4>3. QED BY <4>1, <4>2
    <3>3. DOMAIN s = 1 .. (b - a + 1) BY <2>5
    <3>4. QED BY <3>1, <3>2, <3>3 DEF ToSet
  <2>7. QED BY <2>1, <2>4, <2>6 DEF s
<1>4. QED BY <1>2, <1>3

\* No position is in two parts, and all but the last n % size are in one.
LEMMA PartsPartition ==
  ASSUME wenv \in WarmEnvs, NEW n \in Nat
  PROVE  LET size == _get_local_rank_and_size
         IN /\ \A i \in 1 .. (n \div size) * size : \E r \in LocalRanks : i \in Part(n, r)
            /\ \A q, r \in LocalRanks : \A i \in Part(n, q) \cap Part(n, r) : q = r
            /\ (n \div size) * size <= n /\ (n \div size) * size \in Nat
<1> DEFINE size == _get_local_rank_and_size
<1>1. CASE size = 1
  <2>1. LocalRanks = {0} BY <1>1 DEF LocalRanks
  <2>2. Part(n, 0) = 1 .. n BY <1>1 DEF Part
  <2>3. (n \div size) * size = n BY <1>1
  <2> HIDE DEF size
  <2>4. QED BY <2>1, <2>2, <2>3 DEF size
<1>2. CASE size = 2
  <2>1. LocalRanks = {0, 1} BY <1>2 DEF LocalRanks
  <2> DEFINE c == n \div 2
  <2>2. c \in Nat /\ c * 2 <= n OBVIOUS
  <2>3. Part(n, 0) = 1 .. c /\ Part(n, 1) = c + 1 .. 2 * c
    <3>1. n \div size = c BY <1>2
    <3> HIDE DEF c
    <3>2. Part(n, 0) = 0 * c + 1 .. (0 + 1) * c /\ Part(n, 1) = 1 * c + 1 .. (1 + 1) * c
      BY <3>1, <1>2 DEF Part
    <3>3. QED BY <3>2, <2>2
  <2>4. (n \div size) * size = c * 2 BY <1>2
  <2> HIDE DEF c
  <2>5. ASSUME NEW i \in 1 .. c * 2 PROVE \E r \in LocalRanks : i \in Part(n, r)
    <3>1. i \in 1 .. c \/ i \in c + 1 .. 2 * c BY <2>2
    <3>2. QED BY <3>1, <2>1, <2>3
  <2>6. (1 .. c) \cap (c + 1 .. 2 * c) = {} BY <2>2
  <2>7. \A q, r \in LocalRanks : \A i \in Part(n, q) \cap Part(n, r) : q = r BY <2>1, <2>3, <2>6
  <2> HIDE DEF size
  <2>8. QED BY <2>2, <2>4, <2>5, <2>7 DEF size
<1>3. CASE size = 3
  <2>1. LocalRanks = {0, 1, 2} BY <1>3 DEF LocalRanks
  <2> DEFINE c == n \div 3
  <2>2. c \in Nat /\ c * 3 <= n OBVIOUS
  <2>3. Part(n, 0) = 1 .. c /\ Part(n, 1) = c + 1 .. 2 * c /\ Part(n, 2) = 2 * c + 1 .. 3 * c
    <3>1. n \div size = c BY <1>3
    <3> HIDE DEF c
    <3>2. /\ Part(n, 0) = 0 * c + 1 .. (0 + 1) * c /\ Part(n, 1) = 1 * c + 1 .. (1 + 1) * c
          /\ Part(n, 2) = 2 * c + 1 .. (2 + 1) * c
      BY <3>1, <1>3 DEF Part
    <3>3. QED BY <3>2, <2>2
  <2>4. (n \div size) * size = c * 3 BY <1>3
  <2> HIDE DEF c
  <2>5. ASSUME NEW i \in 1 .. c * 3 PROVE \E r \in LocalRanks : i \in Part(n, r)
    <3>1. i \in 1 .. c \/ i \in c + 1 .. 2 * c \/ i \in 2 * c + 1 .. 3 * c BY <2>2
    <3>2. QED BY <3>1, <2>1, <2>3
  <2>6. /\ (1 .. c) \cap (c + 1 .. 2 * c) = {} /\ (1 .. c) \cap (2 * c + 1 .. 3 * c) = {}
        /\ (c + 1 .. 2 * c) \cap (2 * c + 1 .. 3 * c) = {} BY <2>2
  <2>7. \A q, r \in LocalRanks : \A i \in Part(n, q) \cap Part(n, r) : q = r BY <2>1, <2>3, <2>6
  <2> HIDE DEF size
  <2>8. QED BY <2>2, <2>4, <2>5, <2>7 DEF size
<1>4. QED BY <1>1, <1>2, <1>3, Sizes

\* What a rank compiles for a weight of a layer: its share of the plan.
ShareOf(f, m, w, r) ==
  { << f, w, RowsRun(f, x) >> : x \in ToSet(_shard_m_values_chunked(Plan(f, m, w), r)) }

\* Nothing was compiled twice, and what was compiled is the share of every weight the
\* caches have, and of no other.
SoundState(st, r) ==
  /\ st.repeated = {}
  /\ \A e \in st.launched : \E f \in Families, m \in ToSet(layersOf[r]) :
       MayUse(f, m) /\ \E w \in ToSet(Weights(m)) : << f, w >> \in st.cache /\ e \in ShareOf(f, m, w, r)
  /\ \A f \in Families, m \in ToSet(layersOf[r]) :
       MayUse(f, m) => \A w \in ToSet(Weights(m)) :
         << f, w >> \in st.cache => ShareOf(f, m, w, r) \subseteq st.launched

\* What never changes: the settings and the layers.
Laid == wenv \in WarmEnvs /\ layersOf \in WarmModels /\ LocalRanks \subseteq DOMAIN layersOf

\* A family runs linear layers, or mixtures of experts.
LEMMA FamilyOfLayer ==
  ASSUME NEW f \in Families, NEW m, MayUse(f, m)
  PROVE  f \in DenseFamilies <=> IsLinear(m)
BY DEF Families, DenseFamilies, MaskedFamilies, MayUse, MoeMayUse,
   _fp8_linear_may_use_deep_gemm, _int8_linear_may_use_deep_gemm, _bf16_linear_may_use_deep_gemm,
   _fused_moe_grouped_gemm_may_use_deep_gemm, _fused_moe_grouped_gemm_may_use_deep_gemm_int8,
   _fused_moe_grouped_gemm_may_use_deep_gemm_bf16, _fused_moe_grouped_gemm_may_use_deep_gemm_fp4,
   _fused_moe_grouped_gemm_may_use_deep_gemm_fp4_masked, _fused_moe_grouped_gemm_may_use_deep_gemm_w4a16

\* The plan of a weight is that of its shape, whichever layer and whichever rank has it.
LEMMA PlanIsOfShape ==
  ASSUME Laid, NEW f \in Families, NEW q \in DOMAIN layersOf, NEW r \in DOMAIN layersOf,
         NEW a \in ToSet(layersOf[q]), NEW b \in ToSet(layersOf[r]), MayUse(f, a), MayUse(f, b),
         NEW w, w \in ToSet(Weights(a)), w \in ToSet(Weights(b))
  PROVE  Plan(f, a, w) = Plan(f, b, w)
<1>1. CASE f \in DenseFamilies
  BY <1>1 DEF Plan, DenseFamilies, MaskedFamilies
<1>2. CASE f \notin DenseFamilies
  <2>1. ~ IsLinear(a) /\ ~ IsLinear(b) BY <1>2, FamilyOfLayer
  <2>2. PICK i \in DOMAIN layersOf[q], j \in DOMAIN layersOf[r] : a = layersOf[q][i] /\ b = layersOf[r][j]
    BY DEF ToSet
  <2>3. ToSet(Weights(a)) \cap ToSet(Weights(b)) # {} OBVIOUS
  <2>4. a.topk = b.topk BY <2>1, <2>2, <2>3, WarmAssumption DEF Laid
  <2>5. QED BY <1>2, <2>4 DEF Plan
<1>3. QED BY <1>1, <1>2

\* A weight: nothing is launched again, and afterwards the caches have its shape.
LEMMA WarmWeightSound ==
  ASSUME Laid, NEW f \in Families, NEW r \in DOMAIN layersOf, NEW m \in ToSet(layersOf[r]),
         MayUse(f, m), NEW w \in ToSet(Weights(m)), NEW st, SoundState(st, r)
  PROVE  /\ SoundState(WarmWeight(f, st, m, w, r), r)
         /\ st.cache \subseteq WarmWeight(f, st, m, w, r).cache
         /\ << f, w >> \in WarmWeight(f, st, m, w, r).cache
<1> DEFINE t == WarmWeight(f, st, m, w, r)
<1>1. CASE << f, w >> \in st.cache
  <2>1. t = st BY <1>1 DEF WarmWeight
  <2>2. QED BY <2>1, <1>1
<1>2. CASE << f, w >> \notin st.cache
  <2>1. t = [ cache    |-> st.cache \cup {<< f, w >>},
              launched |-> st.launched \cup ShareOf(f, m, w, r),
              repeated |-> st.repeated \cup (st.launched \cap ShareOf(f, m, w, r)) ]
    BY <1>2 DEF WarmWeight, ShareOf
  <2> HIDE DEF t
  <2>2. /\ t.cache = st.cache \cup {<< f, w >>} /\ t.launched = st.launched \cup ShareOf(f, m, w, r)
        /\ t.repeated = st.repeated \cup (st.launched \cap ShareOf(f, m, w, r))
    BY <2>1
  <2>3. t.repeated = {}
    <3>1. ASSUME NEW e \in st.launched, e \in ShareOf(f, m, w, r) PROVE FALSE
      <4>1. PICK g \in Families, n \in ToSet(layersOf[r]) :
              \E v : << g, v >> \in st.cache /\ e \in ShareOf(g, n, v, r)
        BY DEF SoundState
      <4> PICK v : << g, v >> \in st.cache /\ e \in ShareOf(g, n, v, r) BY <4>1
      <4>2. PICK x : e = << f, w, RowsRun(f, x) >> BY <3>1 DEF ShareOf
      <4>3. PICK y : e = << g, v, RowsRun(g, y) >> BY DEF ShareOf
      <4>4. g = f /\ v = w BY <4>2, <4>3
      <4>5. QED BY <4>4, <1>2
    <3>2. QED BY <2>2, <3>1 DEF SoundState
  <2>4. ASSUME NEW e \in t.launched
        PROVE  \E g \in Families, n \in ToSet(layersOf[r]) :
                 MayUse(g, n) /\ \E v \in ToSet(Weights(n)) : << g, v >> \in t.cache /\ e \in ShareOf(g, n, v, r)
    <3>1. CASE e \in st.launched BY <3>1, <2>2 DEF SoundState
    <3>2. CASE e \in ShareOf(f, m, w, r) BY <3>2, <2>2
    <3>3. QED BY <2>2, <3>1, <3>2
  <2>5. ASSUME NEW g \in Families, NEW n \in ToSet(layersOf[r]), MayUse(g, n),
               NEW v \in ToSet(Weights(n)), << g, v >> \in t.cache
        PROVE  ShareOf(g, n, v, r) \subseteq t.launched
    <3>1. CASE << g, v >> \in st.cache BY <3>1, <2>2, <2>5 DEF SoundState
    <3>2. CASE g = f /\ v = w
      <4>1. Plan(f, n, w) = Plan(f, m, w) BY <3>2, <2>5, PlanIsOfShape
      <4>2. ShareOf(g, n, v, r) = ShareOf(f, m, w, r) BY <3>2, <4>1 DEF ShareOf
      <4>3. QED BY <4>2, <2>2
    <3>3. QED BY <2>2, <2>5, <3>1, <3>2
  <2>6. SoundState(t, r) BY <2>3, <2>4, <2>5 DEF SoundState
  <2>7. QED BY <2>2, <2>6 DEF t
<1>3. QED BY <1>1, <1>2

\* A layer: one weight after the other.
LEMMA WarmLayerSound ==
  ASSUME Laid, NEW f \in Families, NEW r \in DOMAIN layersOf, NEW m \in ToSet(layersOf[r]),
         MayUse(f, m), NEW st, SoundState(st, r)
  PROVE  /\ SoundState(WarmLayer(f, st, m, r), r)
         /\ st.cache \subseteq WarmLayer(f, st, m, r).cache
         /\ \A w \in ToSet(Weights(m)) : << f, w >> \in WarmLayer(f, st, m, r).cache
<1>1. CASE IsLinear(m)
  <2>1. ToSet(Weights(m)) = {m.w} BY <1>1 DEF Weights, ToSet
  <2>2. m.w \in ToSet(Weights(m)) BY <2>1
  <2>3. WarmLayer(f, st, m, r) = WarmWeight(f, st, m, m.w, r) BY <1>1 DEF WarmLayer
  <2>4. QED BY <2>1, <2>2, <2>3, WarmWeightSound
<1>2. CASE ~ IsLinear(m)
  <2>1. ToSet(Weights(m)) = {m.w1, m.w2} BY <1>2 DEF Weights, ToSet
  <2>2. m.w1 \in ToSet(Weights(m)) /\ m.w2 \in ToSet(Weights(m)) BY <2>1
  <2> DEFINE s == WarmWeight(f, st, m, m.w1, r)  t == WarmWeight(f, s, m, m.w2, r)
  <2>3. WarmLayer(f, st, m, r) = t BY <1>2 DEF WarmLayer
  <2>4. SoundState(s, r) /\ st.cache \subseteq s.cache /\ << f, m.w1 >> \in s.cache
    BY <2>2, WarmWeightSound
  <2> HIDE DEF s
  <2>5. SoundState(t, r) /\ s.cache \subseteq t.cache /\ << f, m.w2 >> \in t.cache
    BY <2>2, <2>4, WarmWeightSound
  <2> HIDE DEF t
  <2>6. QED BY <2>1, <2>3, <2>4, <2>5
<1>3. QED BY <1>1, <1>2

\* The recursion over the layers of a rank has a solution, so the pass obeys it.
LEMMA FamilyRecursion ==
  ASSUME NEW f, NEW st, NEW r, layersOf[r] \in Seq(ModelLayers)
  PROVE  \E u : /\ u[0] = st /\ u[Len(layersOf[r])] = WarmFamily(f, st, r)
                /\ \A i \in 1 .. Len(layersOf[r]) :
                     u[i] = IF MayUse(f, layersOf[r][i]) THEN WarmLayer(f, u[i - 1], layersOf[r][i], r)
                            ELSE u[i - 1]
<1> DEFINE n == Len(layersOf[r])
           Good(s, k) == /\ s = [i \in 0 .. k |-> s[i]] /\ s[0] = st
                         /\ \A i \in 1 .. k :
                              s[i] = IF MayUse(f, layersOf[r][i])
                                     THEN WarmLayer(f, s[i - 1], layersOf[r][i], r) ELSE s[i - 1]
           Bad == {k \in 0 .. n : ~ \E s : Good(s, k)}
<1>0. n \in Nat OBVIOUS
<1> HIDE DEF n
<1>1. Bad = {}
  <2> SUFFICES ASSUME Bad # {} PROVE FALSE OBVIOUS
  <2>1. Bad \subseteq Nat BY <1>0
  <2>2. PICK k \in Bad : \A j \in Bad : k <= j
    <3> HIDE DEF Bad
    <3> QED BY LeastElement, <2>1
  <2>3. k # 0
    <3>1. Good([i \in 0 .. 0 |-> st], 0) OBVIOUS
    <3>2. QED BY <3>1
  <2>4. k \in 1 .. n /\ k - 1 \in 0 .. n BY <1>0, <2>3
  <2>5. PICK s : Good(s, k - 1)
    <3>1. k - 1 \notin Bad BY <2>2, <2>4
    <3>2. QED BY <3>1, <2>4
  <2> DEFINE m == layersOf[r][k]
             last == IF MayUse(f, m) THEN WarmLayer(f, s[k - 1], m, r) ELSE s[k - 1]
             longer == [i \in 0 .. k |-> IF i = k THEN last ELSE s[i]]
  <2>6. longer[k] = last /\ (\A i \in 0 .. k - 1 : longer[i] = s[i]) /\ longer = [i \in 0 .. k |-> longer[i]]
    <3> HIDE DEF last
    <3> QED BY <2>4
  <2> HIDE DEF longer
  <2>. k - 1 \in 0 .. k - 1 /\ 0 \in 0 .. k - 1 /\ 0 \in 0 .. k /\ k \in 0 .. k BY <2>4, <1>0
  <2>7. ASSUME NEW i \in 1 .. k
        PROVE  longer[i] = IF MayUse(f, layersOf[r][i]) THEN WarmLayer(f, longer[i - 1], layersOf[r][i], r)
                           ELSE longer[i - 1]
    <3>1. CASE i = k
      <4>1. longer[k - 1] = s[k - 1] BY <2>6, <2>4
      <4>2. QED BY <3>1, <4>1, <2>6
    <3>2. CASE i # k
      <4>1. i \in 1 .. k - 1 /\ i \in 0 .. k - 1 /\ i - 1 \in 0 .. k - 1 BY <3>2, <2>4
      <4>2. longer[i] = s[i] /\ longer[i - 1] = s[i - 1] BY <4>1, <2>6
      <4>3. QED BY <4>1, <4>2, <2>5
    <3>3. QED BY <3>1, <3>2
  <2>8. longer[0] = st BY <2>4, <2>5, <2>6
  <2>9. Good(longer, k) BY <2>6, <2>7, <2>8
  <2>10. QED BY <2>9
<1>2. PICK s : Good(s, n)
  <2>1. n \in 0 .. n BY <1>0
  <2>2. QED BY <1>1, <2>1
<1>3. s = [i \in 0 .. n |-> IF i = 0 THEN st
                            ELSE IF MayUse(f, layersOf[r][i]) THEN WarmLayer(f, s[i - 1], layersOf[r][i], r)
                            ELSE s[i - 1]]
  <2>1. \A i \in 0 .. n : s[i] = IF i = 0 THEN st
                            ELSE IF MayUse(f, layersOf[r][i]) THEN WarmLayer(f, s[i - 1], layersOf[r][i], r)
                            ELSE s[i - 1]
    <3> TAKE i \in 0 .. n
    <3>1. CASE i = 0 BY <3>1, <1>2
    <3>2. CASE i # 0
      <4>1. i \in 1 .. n BY <3>2, <1>0
      <4>2. QED BY <3>2, <4>1, <1>2
    <3>3. QED BY <3>1, <3>2
  <2>2. QED BY <2>1, <1>2
<1> DEFINE u == CHOOSE v : v = [i \in 0 .. n |->
                            IF i = 0 THEN st
                            ELSE IF MayUse(f, layersOf[r][i]) THEN WarmLayer(f, v[i - 1], layersOf[r][i], r)
                            ELSE v[i - 1]]
<1>4. WarmFamily(f, st, r) = u[n] BY DEF WarmFamily, n
<1>5. u = [i \in 0 .. n |-> IF i = 0 THEN st
                            ELSE IF MayUse(f, layersOf[r][i]) THEN WarmLayer(f, u[i - 1], layersOf[r][i], r)
                            ELSE u[i - 1]]
  BY <1>3
<1> HIDE DEF u
<1>6. u[0] = st BY <1>5, <1>0
<1>7. \A i \in 1 .. n : u[i] = IF MayUse(f, layersOf[r][i]) THEN WarmLayer(f, u[i - 1], layersOf[r][i], r)
                               ELSE u[i - 1]
  BY <1>5, <1>0
<1>8. QED BY <1>4, <1>6, <1>7 DEF n

\* A pass over the layers of a rank has compiled every weight of the layers the family
\* may run.
LEMMA WarmFamilySound ==
  ASSUME Laid, NEW f \in Families, NEW r \in DOMAIN layersOf, NEW st, SoundState(st, r)
  PROVE  /\ SoundState(WarmFamily(f, st, r), r)
         /\ st.cache \subseteq WarmFamily(f, st, r).cache
         /\ \A m \in ToSet(layersOf[r]) :
              MayUse(f, m) => \A w \in ToSet(Weights(m)) : << f, w >> \in WarmFamily(f, st, r).cache
<1> DEFINE n == Len(layersOf[r])
<1>0. layersOf[r] \in Seq(ModelLayers) /\ n \in Nat
  <2>1. layersOf[r] \in Seq(ModelLayers) BY WarmAssumption DEF Laid
  <2>2. QED BY <2>1
<1>1. PICK u : /\ u[0] = st /\ u[n] = WarmFamily(f, st, r)
               /\ \A i \in 1 .. n :
                    u[i] = IF MayUse(f, layersOf[r][i]) THEN WarmLayer(f, u[i - 1], layersOf[r][i], r)
                           ELSE u[i - 1]
  BY <1>0, FamilyRecursion
<1> DEFINE Done(k) == /\ SoundState(u[k], r) /\ st.cache \subseteq u[k].cache
                      /\ \A i \in 1 .. k :
                           MayUse(f, layersOf[r][i]) =>
                             \A w \in ToSet(Weights(layersOf[r][i])) : << f, w >> \in u[k].cache
           Bad == {k \in 0 .. n : ~ Done(k)}
<1>2. Bad = {}
  <2> SUFFICES ASSUME Bad # {} PROVE FALSE OBVIOUS
  <2>1. Bad \subseteq Nat BY <1>0
  <2>2. PICK k \in Bad : \A j \in Bad : k <= j
    <3> HIDE DEF Bad
    <3> QED BY LeastElement, <2>1
  <2>3. k # 0
    <3>1. Done(0) BY <1>1
    <3>2. QED BY <3>1
  <2>4. k \in 1 .. n /\ k - 1 \in 0 .. n BY <1>0, <2>3
  <2>5. Done(k - 1)
    <3>1. k - 1 \notin Bad BY <2>2, <2>4
    <3>2. QED BY <3>1, <2>4
  <2> DEFINE m == layersOf[r][k]
  <2>6. m \in ToSet(layersOf[r]) BY <1>0, <2>4 DEF ToSet
  <2>7. /\ SoundState(u[k], r) /\ u[k - 1].cache \subseteq u[k].cache
        /\ MayUse(f, m) => \A w \in ToSet(Weights(m)) : << f, w >> \in u[k].cache
    <3>1. CASE MayUse(f, m)
      <4>1. u[k] = WarmLayer(f, u[k - 1], m, r) BY <3>1, <1>1, <2>4
      <4>2. SoundState(u[k - 1], r) BY <2>5
      <4> HIDE DEF m
      <4>3. QED BY <3>1, <4>1, <4>2, <2>6, WarmLayerSound
    <3>2. CASE ~ MayUse(f, m)
      <4>1. u[k] = u[k - 1] BY <3>2, <1>1, <2>4
      <4>2. QED BY <3>2, <4>1, <2>5
    <3>3. QED BY <3>1, <3>2
  <2>8. ASSUME NEW i \in 1 .. k, MayUse(f, layersOf[r][i]), NEW w \in ToSet(Weights(layersOf[r][i]))
        PROVE  << f, w >> \in u[k].cache
    <3>1. CASE i = k BY <3>1, <2>7, <2>8
    <3>2. CASE i # k
      <4>1. i \in 1 .. k - 1 BY <3>2, <2>4
      <4>2. QED BY <4>1, <2>5, <2>7, <2>8
    <3>3. QED BY <3>1, <3>2
  <2>9. Done(k) BY <2>5, <2>7, <2>8
  <2>10. QED BY <2>9
<1>3. Done(n)
  <2>1. n \in 0 .. n BY <1>0
  <2>2. QED BY <1>2, <2>1
<1>4. ToSet(layersOf[r]) = { layersOf[r][i] : i \in 1 .. n } BY <1>0 DEF ToSet
<1>5. QED BY <1>1, <1>3, <1>4

--------------------------------------------------------------------------------
\* What a count of zero says of a shape it has seen: the caches had it, or its plan is empty.
Counted(acc, f, r) ==
  /\ acc.total \in Nat
  /\ acc.total = 0 =>
       \A m \in ToSet(layersOf[r]) : MayUse(f, m) =>
         \A w \in ToSet(Weights(m)) :
           << f, w >> \in acc.seen => << f, w >> \in cache[r] \/ Len(Plan(f, m, w)) = 0

\* A weight is counted unless its shape was seen, and is seen afterwards.
LEMMA CountWeightCounted ==
  ASSUME Laid, NEW f \in Families, NEW r \in DOMAIN layersOf, NEW m \in ToSet(layersOf[r]),
         MayUse(f, m), NEW w \in ToSet(Weights(m)), NEW acc, Counted(acc, f, r)
  PROVE  /\ Counted(CountWeight(f, acc, m, w), f, r)
         /\ acc.seen \subseteq CountWeight(f, acc, m, w).seen
         /\ << f, w >> \in CountWeight(f, acc, m, w).seen
<1> DEFINE t == CountWeight(f, acc, m, w)
<1>1. CASE << f, w >> \in acc.seen
  <2>1. t = acc BY <1>1 DEF CountWeight
  <2>2. QED BY <2>1, <1>1
<1>2. CASE << f, w >> \notin acc.seen
  <2>1. t = [total |-> acc.total + Len(Plan(f, m, w)), seen |-> acc.seen \cup {<< f, w >>}]
    BY <1>2 DEF CountWeight
  <2>2. t.total = acc.total + Len(Plan(f, m, w)) /\ t.seen = acc.seen \cup {<< f, w >>} BY <2>1
  <2> HIDE DEF t
  <2>3. m \in ModelLayers
    <3>1. layersOf[r] \in Seq(ModelLayers) BY WarmAssumption DEF Laid
    <3>2. QED BY <3>1 DEF ToSet
  <2>4. Len(Plan(f, m, w)) \in Nat
    <3>1. IsPlan(Plan(f, m, w)) BY <2>3, PlansArePlans, WarmAssumption
    <3>2. QED BY <3>1 DEF IsPlan
  <2>5. acc.total \in Nat BY DEF Counted
  <2>6. t.total \in Nat /\ (t.total = 0 => acc.total = 0 /\ Len(Plan(f, m, w)) = 0) BY <2>2, <2>4, <2>5
  <2>7. ASSUME t.total = 0, NEW n \in ToSet(layersOf[r]), MayUse(f, n), NEW v \in ToSet(Weights(n)),
               << f, v >> \in t.seen
        PROVE  << f, v >> \in cache[r] \/ Len(Plan(f, n, v)) = 0
    <3>1. CASE << f, v >> \in acc.seen BY <3>1, <2>6, <2>7 DEF Counted
    <3>2. CASE v = w
      <4>1. Plan(f, n, w) = Plan(f, m, w) BY <3>2, <2>7, PlanIsOfShape
      <4>2. QED BY <3>2, <4>1, <2>6, <2>7
    <3>3. QED BY <2>2, <2>7, <3>1, <3>2
  <2>8. Counted(t, f, r) BY <2>6, <2>7 DEF Counted
  <2>9. QED BY <2>2, <2>8 DEF t
<1>3. QED BY <1>1, <1>2

\* A layer is counted one weight after the other.
LEMMA CountLayerCounted ==
  ASSUME Laid, NEW f \in Families, NEW r \in DOMAIN layersOf, NEW m \in ToSet(layersOf[r]),
         MayUse(f, m), NEW acc, Counted(acc, f, r)
  PROVE  /\ Counted(CountLayer(f, acc, m), f, r)
         /\ acc.seen \subseteq CountLayer(f, acc, m).seen
         /\ \A w \in ToSet(Weights(m)) : << f, w >> \in CountLayer(f, acc, m).seen
<1>1. CASE IsLinear(m)
  <2>1. ToSet(Weights(m)) = {m.w} BY <1>1 DEF Weights, ToSet
  <2>2. m.w \in ToSet(Weights(m)) BY <2>1
  <2>3. CountLayer(f, acc, m) = CountWeight(f, acc, m, m.w) BY <1>1 DEF CountLayer
  <2>4. QED BY <2>1, <2>2, <2>3, CountWeightCounted
<1>2. CASE ~ IsLinear(m)
  <2>1. ToSet(Weights(m)) = {m.w1, m.w2} BY <1>2 DEF Weights, ToSet
  <2>2. m.w1 \in ToSet(Weights(m)) /\ m.w2 \in ToSet(Weights(m)) BY <2>1
  <2> DEFINE s == CountWeight(f, acc, m, m.w1)  t == CountWeight(f, s, m, m.w2)
  <2>3. CountLayer(f, acc, m) = t BY <1>2 DEF CountLayer
  <2>4. Counted(s, f, r) /\ acc.seen \subseteq s.seen /\ << f, m.w1 >> \in s.seen
    BY <2>2, CountWeightCounted
  <2> HIDE DEF s
  <2>5. Counted(t, f, r) /\ s.seen \subseteq t.seen /\ << f, m.w2 >> \in t.seen
    BY <2>2, <2>4, CountWeightCounted
  <2> HIDE DEF t
  <2>6. QED BY <2>1, <2>3, <2>4, <2>5
<1>3. QED BY <1>1, <1>2

\* The recursion of the count has a solution.
LEMMA CountRecursion ==
  ASSUME NEW f, NEW r, layersOf[r] \in Seq(ModelLayers)
  PROVE  \E u : /\ u[0] = [total |-> 0, seen |-> cache[r]] /\ u[Len(layersOf[r])].total = CountFamily(f, r)
                /\ \A i \in 1 .. Len(layersOf[r]) :
                     u[i] = IF MayUse(f, layersOf[r][i]) THEN CountLayer(f, u[i - 1], layersOf[r][i])
                            ELSE u[i - 1]
<1> DEFINE n == Len(layersOf[r])
           st == [total |-> 0, seen |-> cache[r]]
           Good(s, k) == /\ s = [i \in 0 .. k |-> s[i]] /\ s[0] = st
                         /\ \A i \in 1 .. k :
                              s[i] = IF MayUse(f, layersOf[r][i])
                                     THEN CountLayer(f, s[i - 1], layersOf[r][i]) ELSE s[i - 1]
           Bad == {k \in 0 .. n : ~ \E s : Good(s, k)}
<1>0. n \in Nat OBVIOUS
<1> HIDE DEF n, st
<1>1. Bad = {}
  <2> SUFFICES ASSUME Bad # {} PROVE FALSE OBVIOUS
  <2>1. Bad \subseteq Nat BY <1>0
  <2>2. PICK k \in Bad : \A j \in Bad : k <= j
    <3> HIDE DEF Bad
    <3> QED BY LeastElement, <2>1
  <2>3. k # 0
    <3>1. Good([i \in 0 .. 0 |-> st], 0) OBVIOUS
    <3>2. QED BY <3>1
  <2>4. k \in 1 .. n /\ k - 1 \in 0 .. n BY <1>0, <2>3
  <2>5. PICK s : Good(s, k - 1)
    <3>1. k - 1 \notin Bad BY <2>2, <2>4
    <3>2. QED BY <3>1, <2>4
  <2> DEFINE m == layersOf[r][k]
             last == IF MayUse(f, m) THEN CountLayer(f, s[k - 1], m) ELSE s[k - 1]
             longer == [i \in 0 .. k |-> IF i = k THEN last ELSE s[i]]
  <2>6. longer[k] = last /\ (\A i \in 0 .. k - 1 : longer[i] = s[i]) /\ longer = [i \in 0 .. k |-> longer[i]]
    <3> HIDE DEF last
    <3> QED BY <2>4
  <2> HIDE DEF longer
  <2>. k - 1 \in 0 .. k - 1 /\ 0 \in 0 .. k - 1 /\ 0 \in 0 .. k /\ k \in 0 .. k BY <2>4, <1>0
  <2>7. ASSUME NEW i \in 1 .. k
        PROVE  longer[i] = IF MayUse(f, layersOf[r][i]) THEN CountLayer(f, longer[i - 1], layersOf[r][i])
                           ELSE longer[i - 1]
    <3>1. CASE i = k
      <4>1. longer[k - 1] = s[k - 1] BY <2>6, <2>4
      <4>2. QED BY <3>1, <4>1, <2>6
    <3>2. CASE i # k
      <4>1. i \in 1 .. k - 1 /\ i \in 0 .. k - 1 /\ i - 1 \in 0 .. k - 1 BY <3>2, <2>4
      <4>2. longer[i] = s[i] /\ longer[i - 1] = s[i - 1] BY <4>1, <2>6
      <4>3. QED BY <4>1, <4>2, <2>5
    <3>3. QED BY <3>1, <3>2
  <2>8. longer[0] = st BY <2>4, <2>5, <2>6
  <2>9. Good(longer, k) BY <2>6, <2>7, <2>8
  <2>10. QED BY <2>9
<1>2. PICK s : Good(s, n)
  <2>1. n \in 0 .. n BY <1>0
  <2>2. QED BY <1>1, <2>1
<1>3. s = [i \in 0 .. n |-> IF i = 0 THEN st
                            ELSE IF MayUse(f, layersOf[r][i]) THEN CountLayer(f, s[i - 1], layersOf[r][i])
                            ELSE s[i - 1]]
  <2>1. \A i \in 0 .. n : s[i] = IF i = 0 THEN st
                            ELSE IF MayUse(f, layersOf[r][i]) THEN CountLayer(f, s[i - 1], layersOf[r][i])
                            ELSE s[i - 1]
    <3> TAKE i \in 0 .. n
    <3>1. CASE i = 0 BY <3>1, <1>2
    <3>2. CASE i # 0
      <4>1. i \in 1 .. n BY <3>2, <1>0
      <4>2. QED BY <3>2, <4>1, <1>2
    <3>3. QED BY <3>1, <3>2
  <2>2. QED BY <2>1, <1>2
<1> DEFINE u == CHOOSE v : v = [i \in 0 .. n |->
                            IF i = 0 THEN st
                            ELSE IF MayUse(f, layersOf[r][i]) THEN CountLayer(f, v[i - 1], layersOf[r][i])
                            ELSE v[i - 1]]
<1>4. CountFamily(f, r) = u[n].total BY DEF CountFamily, n, st
<1>5. u = [i \in 0 .. n |-> IF i = 0 THEN st
                            ELSE IF MayUse(f, layersOf[r][i]) THEN CountLayer(f, u[i - 1], layersOf[r][i])
                            ELSE u[i - 1]]
  BY <1>3
<1> HIDE DEF u
<1>6. u[0] = st BY <1>5, <1>0
<1>7. \A i \in 1 .. n : u[i] = IF MayUse(f, layersOf[r][i]) THEN CountLayer(f, u[i - 1], layersOf[r][i])
                               ELSE u[i - 1]
  BY <1>5, <1>0
<1>8. QED BY <1>4, <1>6, <1>7 DEF n, st

\* A count is a number; if it is zero, the family has nothing left to compile.
LEMMA CountFamilyCounted ==
  ASSUME Laid, NEW f \in Families, NEW r \in DOMAIN layersOf
  PROVE  /\ CountFamily(f, r) \in Nat
         /\ CountFamily(f, r) = 0 =>
              \A m \in ToSet(layersOf[r]) : MayUse(f, m) =>
                \A w \in ToSet(Weights(m)) : << f, w >> \in cache[r] \/ Len(Plan(f, m, w)) = 0
<1> DEFINE n == Len(layersOf[r])
<1>0. layersOf[r] \in Seq(ModelLayers) /\ n \in Nat
  <2>1. layersOf[r] \in Seq(ModelLayers) BY WarmAssumption DEF Laid
  <2>2. QED BY <2>1
<1>1. PICK u : /\ u[0] = [total |-> 0, seen |-> cache[r]] /\ u[n].total = CountFamily(f, r)
               /\ \A i \in 1 .. n :
                    u[i] = IF MayUse(f, layersOf[r][i]) THEN CountLayer(f, u[i - 1], layersOf[r][i])
                           ELSE u[i - 1]
  BY <1>0, CountRecursion
<1> DEFINE Done(k) == /\ Counted(u[k], f, r)
                      /\ \A i \in 1 .. k :
                           MayUse(f, layersOf[r][i]) =>
                             \A w \in ToSet(Weights(layersOf[r][i])) : << f, w >> \in u[k].seen
           Bad == {k \in 0 .. n : ~ Done(k)}
<1>2. Bad = {}
  <2> SUFFICES ASSUME Bad # {} PROVE FALSE OBVIOUS
  <2>1. Bad \subseteq Nat BY <1>0
  <2>2. PICK k \in Bad : \A j \in Bad : k <= j
    <3> HIDE DEF Bad
    <3> QED BY LeastElement, <2>1
  <2>3. k # 0
    <3>1. Counted(u[0], f, r) BY <1>1 DEF Counted
    <3>2. Done(0) BY <3>1
    <3>3. QED BY <3>2
  <2>4. k \in 1 .. n /\ k - 1 \in 0 .. n BY <1>0, <2>3
  <2>5. Done(k - 1)
    <3>1. k - 1 \notin Bad BY <2>2, <2>4
    <3>2. QED BY <3>1, <2>4
  <2> DEFINE m == layersOf[r][k]
  <2>6. m \in ToSet(layersOf[r]) BY <1>0, <2>4 DEF ToSet
  <2>7. /\ Counted(u[k], f, r) /\ u[k - 1].seen \subseteq u[k].seen
        /\ MayUse(f, m) => \A w \in ToSet(Weights(m)) : << f, w >> \in u[k].seen
    <3>1. CASE MayUse(f, m)
      <4>1. u[k] = CountLayer(f, u[k - 1], m) BY <3>1, <1>1, <2>4
      <4>2. Counted(u[k - 1], f, r) BY <2>5
      <4> HIDE DEF m
      <4>3. QED BY <3>1, <4>1, <4>2, <2>6, CountLayerCounted
    <3>2. CASE ~ MayUse(f, m)
      <4>1. u[k] = u[k - 1] BY <3>2, <1>1, <2>4
      <4>2. QED BY <3>2, <4>1, <2>5
    <3>3. QED BY <3>1, <3>2
  <2>8. ASSUME NEW i \in 1 .. k, MayUse(f, layersOf[r][i]), NEW w \in ToSet(Weights(layersOf[r][i]))
        PROVE  << f, w >> \in u[k].seen
    <3>1. CASE i = k BY <3>1, <2>7, <2>8
    <3>2. CASE i # k
      <4>1. i \in 1 .. k - 1 BY <3>2, <2>4
      <4>2. QED BY <4>1, <2>5, <2>7, <2>8
    <3>3. QED BY <3>1, <3>2
  <2>9. Done(k) BY <2>7, <2>8
  <2>10. QED BY <2>9
<1>3. Done(n)
  <2>1. n \in 0 .. n BY <1>0
  <2>2. QED BY <1>2, <2>1
<1>4. ToSet(layersOf[r]) = { layersOf[r][i] : i \in 1 .. n } BY <1>0 DEF ToSet
<1>5. CountFamily(f, r) \in Nat BY <1>1, <1>3 DEF Counted
<1>6. ASSUME CountFamily(f, r) = 0, NEW m \in ToSet(layersOf[r]), MayUse(f, m), NEW w \in ToSet(Weights(m))
      PROVE  << f, w >> \in cache[r] \/ Len(Plan(f, m, w)) = 0
  <2>1. << f, w >> \in u[n].seen BY <1>3, <1>4, <1>6
  <2>2. Counted(u[n], f, r) /\ u[n].total = 0 BY <1>1, <1>3, <1>6
  <2>3. QED BY <2>1, <2>2, <1>6 DEF Counted
<1>7. QED BY <1>5, <1>6

--------------------------------------------------------------------------------
\* What a rank that has gone through its layers has done, of every weight.
Covered(c, r) ==
  \A f \in Families, m \in ToSet(layersOf[r]) :
    MayUse(f, m) => \A w \in ToSet(Weights(m)) : << f, w >> \in c \/ Len(Plan(f, m, w)) = 0

\* The caches of a rank and what it has launched, as the passes over its layers see them.
StateOf(r) == [cache |-> cache[r], launched |-> launched[r], repeated |-> repeated[r]]

\* The inductive invariant.
WarmInv ==
  /\ Laid
  /\ \A v \in {cache, launched, repeated, wcalls} : DOMAIN v = DOMAIN layersOf
  /\ \A r \in LocalRanks : SoundState(StateOf(r), r)
  /\ \A r \in LocalRanks :
       wenv.warmup # "skip" /\ wcalls[r] > 0 /\ r \notin wfailed => Covered(cache[r], r)

\* Two families of a group, warmed if their counts are not both zero.
LEMMA GroupSound ==
  ASSUME Laid, NEW r \in DOMAIN layersOf, NEW f \in Families, NEW g \in Families, NEW st, SoundState(st, r),
         cache[r] \subseteq st.cache,
         NEW t, t = IF CountFamily(f, r) + CountFamily(g, r) = 0 THEN st ELSE WarmFamily(g, WarmFamily(f, st, r), r)
  PROVE  /\ SoundState(t, r) /\ st.cache \subseteq t.cache
         /\ \A h \in {f, g}, m \in ToSet(layersOf[r]) :
              MayUse(h, m) => \A w \in ToSet(Weights(m)) : << h, w >> \in t.cache \/ Len(Plan(h, m, w)) = 0
<1>1. CountFamily(f, r) \in Nat /\ CountFamily(g, r) \in Nat BY CountFamilyCounted
<1>2. CASE CountFamily(f, r) + CountFamily(g, r) = 0
  <2>1. t = st BY <1>2
  <2>2. CountFamily(f, r) = 0 /\ CountFamily(g, r) = 0 BY <1>1, <1>2
  <2>3. ASSUME NEW h \in {f, g}, NEW m \in ToSet(layersOf[r]), MayUse(h, m), NEW w \in ToSet(Weights(m))
        PROVE  << h, w >> \in t.cache \/ Len(Plan(h, m, w)) = 0
    <3>1. h \in Families /\ CountFamily(h, r) = 0 BY <2>2
    <3>2. << h, w >> \in cache[r] \/ Len(Plan(h, m, w)) = 0 BY <3>1, <2>3, CountFamilyCounted
    <3>3. QED BY <3>2, <2>1
  <2>4. QED BY <2>1, <2>3
<1>3. CASE CountFamily(f, r) + CountFamily(g, r) # 0
  <2> DEFINE s == WarmFamily(f, st, r)
  <2>1. /\ SoundState(s, r) /\ st.cache \subseteq s.cache
        /\ \A m \in ToSet(layersOf[r]) :
             MayUse(f, m) => \A w \in ToSet(Weights(m)) : << f, w >> \in s.cache
    BY WarmFamilySound
  <2>2. t = WarmFamily(g, s, r) BY <1>3
  <2> HIDE DEF s
  <2>3. /\ SoundState(t, r) /\ s.cache \subseteq t.cache
        /\ \A m \in ToSet(layersOf[r]) :
             MayUse(g, m) => \A w \in ToSet(Weights(m)) : << g, w >> \in t.cache
    BY <2>1, <2>2, WarmFamilySound
  <2>4. QED BY <2>1, <2>3
<1>4. QED BY <1>2, <1>3

\* A pass that does not raise: the groups of families, one after the other.
LEMMA PassSound ==
  ASSUME Laid, NEW r \in DOMAIN layersOf, SoundState(StateOf(r), r), deep_gemm_warmup(r),
         DOMAIN cache = DOMAIN layersOf, DOMAIN launched = DOMAIN layersOf,
         DOMAIN repeated = DOMAIN layersOf
  PROVE  \/ r \in wfailed' /\ UNCHANGED << cache, launched, repeated >> /\ wfailed' = wfailed \cup {r}
         \/ /\ UNCHANGED wfailed
            /\ \E st : /\ cache' = [cache EXCEPT ![r] = st.cache]
                       /\ launched' = [launched EXCEPT ![r] = st.launched]
                       /\ repeated' = [repeated EXCEPT ![r] = st.repeated]
                       /\ SoundState(st, r) /\ Covered(st.cache, r)
<1> DEFINE Warm(f, g, st) == IF CountFamily(f, r) + CountFamily(g, r) = 0 THEN st
                             ELSE WarmFamily(g, WarmFamily(f, st, r), r)
           st0 == StateOf(r)
           st1 == Warm("fp8", "grouped_fp8", st0)
           st2 == Warm("int8", "grouped_int8", st1)
           st3 == Warm("bf16", "grouped_bf16", st2)
           st4 == Warm("fp4", "fp4_masked", st3)
           st5 == Warm("w4a16", "w4a16_masked", st4)
           Over(f, st) == \A m \in ToSet(layersOf[r]) :
             MayUse(f, m) => \A w \in ToSet(Weights(m)) : << f, w >> \in st.cache \/ Len(Plan(f, m, w)) = 0
<1>1. \/ compileMode' = [compileMode EXCEPT ![r] = 1] /\ wfailed' = wfailed \cup {r}
         /\ UNCHANGED << cache, launched, repeated >>
      \/ /\ cache' = [cache EXCEPT ![r] = st5.cache]
         /\ launched' = [launched EXCEPT ![r] = st5.launched]
         /\ repeated' = [repeated EXCEPT ![r] = st5.repeated]
         /\ UNCHANGED << compileMode, wfailed >>
  BY Zenon DEF deep_gemm_warmup, StateOf, _count_warmup_iterations, _count_warmup_iterations_int8,
     _count_warmup_iterations_bf16, _count_warmup_iterations_fp4, _count_warmup_iterations_fp4_masked,
     _count_warmup_iterations_w4a16, _count_warmup_iterations_w4a16_masked,
     deepgemm_fp8_gemm_nt_warmup, deepgemm_int8_gemm_nt_warmup, deepgemm_bf16_gemm_nt_warmup,
     deepgemm_grouped_fp8_gemm_nt_contiguous_warmup, deepgemm_grouped_int8_gemm_nt_contiguous_warmup,
     deepgemm_grouped_bf16_gemm_nt_contiguous_warmup, deepgemm_grouped_fp4_gemm_nt_contiguous_warmup,
     deepgemm_grouped_fp4_gemm_nt_masked_warmup, deepgemm_grouped_w4a16_gemm_nt_contiguous_warmup,
     deepgemm_grouped_w4a16_gemm_nt_masked_warmup
<1>2. ASSUME NEW f \in Families, NEW g \in Families, NEW st, SoundState(st, r), cache[r] \subseteq st.cache
      PROVE  /\ SoundState(Warm(f, g, st), r) /\ st.cache \subseteq Warm(f, g, st).cache
             /\ Over(f, Warm(f, g, st)) /\ Over(g, Warm(f, g, st))
  <2> DEFINE t == Warm(f, g, st)
  <2>1. t = IF CountFamily(f, r) + CountFamily(g, r) = 0 THEN st ELSE WarmFamily(g, WarmFamily(f, st, r), r)
    OBVIOUS
  <2> HIDE DEF t
  <2>2. /\ SoundState(t, r) /\ st.cache \subseteq t.cache
        /\ \A h \in {f, g}, m \in ToSet(layersOf[r]) :
              MayUse(h, m) => \A w \in ToSet(Weights(m)) : << h, w >> \in t.cache \/ Len(Plan(h, m, w)) = 0
    BY <1>2, <2>1, GroupSound
  <2>3. Over(f, t) /\ Over(g, t) BY <2>2
  <2>4. QED BY <2>2, <2>3 DEF t
<1>3. ASSUME NEW f \in Families, NEW s, NEW t, Over(f, s), s.cache \subseteq t.cache PROVE Over(f, t)
  BY <1>3
<1>4. Families = {"fp8", "int8", "bf16", "grouped_fp8", "grouped_int8", "grouped_bf16", "fp4", "w4a16",
                  "fp4_masked", "w4a16_masked"}
  BY DEF Families, DenseFamilies, MaskedFamilies
<1>5. SoundState(st0, r) /\ cache[r] \subseteq st0.cache BY DEF StateOf
<1> HIDE DEF Warm, st0, Over
<1>6. SoundState(st1, r) /\ st0.cache \subseteq st1.cache /\ Over("fp8", st1) /\ Over("grouped_fp8", st1)
  BY <1>2, <1>4, <1>5
<1> HIDE DEF st1
<1>7. SoundState(st2, r) /\ st1.cache \subseteq st2.cache /\ Over("int8", st2) /\ Over("grouped_int8", st2)
  <2>1. cache[r] \subseteq st1.cache BY <1>5, <1>6
  <2>2. QED BY <1>2, <1>4, <1>6, <2>1
<1> HIDE DEF st2
<1>8. SoundState(st3, r) /\ st2.cache \subseteq st3.cache /\ Over("bf16", st3) /\ Over("grouped_bf16", st3)
  <2>1. cache[r] \subseteq st2.cache BY <1>5, <1>6, <1>7
  <2>2. QED BY <1>2, <1>4, <1>7, <2>1
<1> HIDE DEF st3
<1>9. SoundState(st4, r) /\ st3.cache \subseteq st4.cache /\ Over("fp4", st4) /\ Over("fp4_masked", st4)
  <2>1. cache[r] \subseteq st3.cache BY <1>5, <1>6, <1>7, <1>8
  <2>2. QED BY <1>2, <1>4, <1>8, <2>1
<1> HIDE DEF st4
<1>10. SoundState(st5, r) /\ st4.cache \subseteq st5.cache /\ Over("w4a16", st5) /\ Over("w4a16_masked", st5)
  <2>1. cache[r] \subseteq st4.cache BY <1>5, <1>6, <1>7, <1>8, <1>9
  <2>2. QED BY <1>2, <1>4, <1>9, <2>1
<1> HIDE DEF st5
<1>11. ASSUME NEW f \in Families PROVE Over(f, st5)
  <2>1. st1.cache \subseteq st5.cache /\ st2.cache \subseteq st5.cache /\ st3.cache \subseteq st5.cache
    BY <1>7, <1>8, <1>9, <1>10
  <2>2. CASE f \in {"fp8", "grouped_fp8"} BY <2>1, <2>2, <1>3, <1>6
  <2>3. CASE f \in {"int8", "grouped_int8"} BY <2>1, <2>3, <1>3, <1>7
  <2>4. CASE f \in {"bf16", "grouped_bf16"} BY <2>1, <2>4, <1>3, <1>8
  <2>5. CASE f \in {"fp4", "fp4_masked"} BY <1>10, <2>5, <1>3, <1>9
  <2>6. CASE f \in {"w4a16", "w4a16_masked"} BY <2>6, <1>10
  <2>7. QED BY <1>4, <2>2, <2>3, <2>4, <2>5, <2>6
<1>12. Covered(st5.cache, r)
  BY <1>11 DEF Covered, Over
<1>13. QED
  <2>1. SoundState(st5, r) BY <1>10
  <2>2. QED BY <1>1, <1>12, <2>1

--------------------------------------------------------------------------------
\* No rank has compiled anything, or returned.
LEMMA WarmInitInv == WarmInit => WarmInv
<1> SUFFICES ASSUME WarmInit PROVE WarmInv OBVIOUS
<1>1. Laid BY DEF WarmInit, Laid
<1>2. \A v \in {cache, launched, repeated, wcalls} : DOMAIN v = DOMAIN layersOf BY DEF WarmInit
<1>3. ASSUME NEW r \in LocalRanks PROVE SoundState(StateOf(r), r) /\ ~ (wcalls[r] > 0)
  <2>1. r \in DOMAIN layersOf BY DEF WarmInit
  <2>2. cache[r] = {} /\ launched[r] = {} /\ repeated[r] = {} /\ wcalls[r] = 0 BY <2>1 DEF WarmInit
  <2>3. QED BY <2>2 DEF SoundState, StateOf
<1>4. QED BY <1>1, <1>2, <1>3 DEF WarmInv

\* What the settings and the layers determine is the same after a step.
LEMMA LaidStays ==
  ASSUME wenv' = wenv, layersOf' = layersOf
  PROVE  /\ LocalRanks' = LocalRanks /\ (Laid' <=> Laid)
         /\ \A f, m : MayUse(f, m)' <=> MayUse(f, m)
         /\ \A f, m, w : Plan(f, m, w)' = Plan(f, m, w)
         /\ \A f, m, w, r : ShareOf(f, m, w, r)' = ShareOf(f, m, w, r)
<1>1. LocalRanks' = LocalRanks BY DEF LocalRanks, _get_local_rank_and_size
<1>2. Laid' <=> Laid BY <1>1 DEF Laid
<1>3. ASSUME NEW f, NEW m PROVE MayUse(f, m)' <=> MayUse(f, m)
  BY DEF MayUse, MoeMayUse,
   _fp8_linear_may_use_deep_gemm, _int8_linear_may_use_deep_gemm, _bf16_linear_may_use_deep_gemm,
   _fused_moe_grouped_gemm_may_use_deep_gemm, _fused_moe_grouped_gemm_may_use_deep_gemm_int8,
   _fused_moe_grouped_gemm_may_use_deep_gemm_bf16, _fused_moe_grouped_gemm_may_use_deep_gemm_fp4,
   _fused_moe_grouped_gemm_may_use_deep_gemm_fp4_masked, _fused_moe_grouped_gemm_may_use_deep_gemm_w4a16
<1>4. ASSUME NEW f, NEW m, NEW w PROVE Plan(f, m, w)' = Plan(f, m, w)
  BY DEF Plan, _get_gemm_nt_m_values
<1>5. ASSUME NEW f, NEW m, NEW w, NEW r PROVE ShareOf(f, m, w, r)' = ShareOf(f, m, w, r)
  BY <1>4 DEF ShareOf, _shard_m_values_chunked, _get_local_rank_and_size
<1>6. QED BY <1>1, <1>2, <1>3, <1>4, <1>5

\* A call does not disturb the other ranks, and leaves its own sound and, once it has
\* returned, covered.
LEMMA WarmNextInv == WarmInv /\ [WarmNext]_warmVars => WarmInv'
<1> SUFFICES ASSUME WarmInv, [WarmNext]_warmVars PROVE WarmInv' OBVIOUS
<1>0. wenv' = wenv /\ layersOf' = layersOf BY DEF WarmNext, warmVars, kernel_warmup
<1>1. /\ LocalRanks' = LocalRanks /\ Laid' /\ Laid /\ LocalRanks \subseteq DOMAIN layersOf
      /\ \A f, m : MayUse(f, m)' <=> MayUse(f, m)
      /\ \A f, m, w : Plan(f, m, w)' = Plan(f, m, w)
      /\ \A f, m, w, r : ShareOf(f, m, w, r)' = ShareOf(f, m, w, r)
  BY <1>0, LaidStays DEF WarmInv, Laid
<1> DEFINE New(q) == [cache |-> cache'[q], launched |-> launched'[q], repeated |-> repeated'[q]]
<1>2. SUFFICES /\ \A v \in {cache', launched', repeated', wcalls'} : DOMAIN v = DOMAIN layersOf
               /\ \A q \in LocalRanks : SoundState(New(q), q)
               /\ \A q \in LocalRanks :
                    wenv.warmup # "skip" /\ wcalls'[q] > 0 /\ q \notin wfailed' => Covered(cache'[q], q)
  <2>1. ASSUME NEW q \in LocalRanks, SoundState(New(q), q) PROVE SoundState(StateOf(q), q)'
    BY <2>1, <1>0, <1>1 DEF SoundState, StateOf
  <2>2. ASSUME NEW q \in LocalRanks, Covered(cache'[q], q) PROVE Covered(cache[q], q)'
    BY <2>2, <1>0, <1>1 DEF Covered
  <2>3. QED BY <1>0, <1>1, <1>2, <2>1, <2>2 DEF WarmInv
<1>3. CASE UNCHANGED warmVars
  <2>1. /\ cache' = cache /\ launched' = launched /\ repeated' = repeated /\ wcalls' = wcalls
        /\ wfailed' = wfailed BY <1>3 DEF warmVars
  <2>2. \A q \in LocalRanks : New(q) = StateOf(q) BY <2>1 DEF StateOf
  <2>3. QED BY <2>1, <2>2 DEF WarmInv
<1>4. ASSUME NEW r \in LocalRanks, NEW plo \in BOOLEAN, kernel_warmup(r, plo)
      PROVE  /\ \A v \in {cache', launched', repeated', wcalls'} : DOMAIN v = DOMAIN layersOf
             /\ \A q \in LocalRanks : SoundState(New(q), q)
             /\ \A q \in LocalRanks :
                  wenv.warmup # "skip" /\ wcalls'[q] > 0 /\ q \notin wfailed' => Covered(cache'[q], q)
  <2>0. /\ DOMAIN cache = DOMAIN layersOf /\ DOMAIN launched = DOMAIN layersOf
        /\ DOMAIN repeated = DOMAIN layersOf /\ DOMAIN wcalls = DOMAIN layersOf
    BY DEF WarmInv
  <2>1. /\ wcalls' = [wcalls EXCEPT ![r] = IF plo THEN wcalls[r] ELSE wcalls[r] + 1]
        /\ IF plo \/ ~ _ppu_deep_gemm_warmup_enabled
           THEN UNCHANGED << cache, launched, repeated, compileMode, wfailed >>
           ELSE deep_gemm_warmup(r)
    BY <1>4 DEF kernel_warmup
  <2>2. DOMAIN wcalls' = DOMAIN layersOf /\ (\A q \in LocalRanks : q # r \/ plo => wcalls'[q] = wcalls[q])
    BY <2>0, <2>1, <1>1
  <2>3. CASE plo
    <3>1. cache' = cache /\ launched' = launched /\ repeated' = repeated /\ wfailed' = wfailed BY <2>1, <2>3
    <3>2. \A q \in LocalRanks : New(q) = StateOf(q) BY <3>1 DEF StateOf
    <3>3. QED BY <2>0, <2>2, <2>3, <3>1, <3>2 DEF WarmInv
  <2>4. CASE ~ plo /\ ~ _ppu_deep_gemm_warmup_enabled
    <3>1. cache' = cache /\ launched' = launched /\ repeated' = repeated /\ wfailed' = wfailed BY <2>1, <2>4
    <3>2. \A q \in LocalRanks : New(q) = StateOf(q) BY <3>1 DEF StateOf
    <3>3. ASSUME wenv.warmup # "skip", NEW q \in LocalRanks PROVE Covered(cache[q], q)
      <4>1. wenv.moe # "unset" /\ wenv.dense # "unset" /\ ~ wenv.bf16
        BY <2>4, <3>3 DEF _ppu_deep_gemm_warmup_enabled
      <4>2. ASSUME NEW f \in Families, NEW m PROVE ~ MayUse(f, m)
        BY <4>1 DEF Families, DenseFamilies, MaskedFamilies, MayUse, MoeMayUse,
   _fp8_linear_may_use_deep_gemm, _int8_linear_may_use_deep_gemm, _bf16_linear_may_use_deep_gemm,
   _fused_moe_grouped_gemm_may_use_deep_gemm, _fused_moe_grouped_gemm_may_use_deep_gemm_int8,
   _fused_moe_grouped_gemm_may_use_deep_gemm_bf16, _fused_moe_grouped_gemm_may_use_deep_gemm_fp4,
   _fused_moe_grouped_gemm_may_use_deep_gemm_fp4_masked, _fused_moe_grouped_gemm_may_use_deep_gemm_w4a16
      <4>3. QED BY <4>2 DEF Covered
    <3>4. QED BY <2>0, <2>2, <3>1, <3>2, <3>3 DEF WarmInv
  <2>5. CASE ~ plo /\ _ppu_deep_gemm_warmup_enabled
    <3>1. deep_gemm_warmup(r) BY <2>1, <2>5
    <3>2. SoundState(StateOf(r), r) BY DEF WarmInv
    <3>3. r \in DOMAIN layersOf BY <1>1
    <3>4. \/ r \in wfailed' /\ UNCHANGED << cache, launched, repeated >> /\ wfailed' = wfailed \cup {r}
          \/ /\ UNCHANGED wfailed
             /\ \E st : /\ cache' = [cache EXCEPT ![r] = st.cache]
                        /\ launched' = [launched EXCEPT ![r] = st.launched]
                        /\ repeated' = [repeated EXCEPT ![r] = st.repeated]
                        /\ SoundState(st, r) /\ Covered(st.cache, r)
      BY <1>1, <2>0, <3>1, <3>2, <3>3, PassSound
    <3>5. CASE r \in wfailed' /\ UNCHANGED << cache, launched, repeated >> /\ wfailed' = wfailed \cup {r}
      <4>1. \A q \in LocalRanks : New(q) = StateOf(q) BY <3>5 DEF StateOf
      <4>2. \A q \in LocalRanks : q \notin wfailed' => q # r /\ q \notin wfailed BY <3>5
      <4>3. QED BY <2>0, <2>2, <3>5, <4>1, <4>2 DEF WarmInv
    <3>6. CASE /\ UNCHANGED wfailed
               /\ \E st : /\ cache' = [cache EXCEPT ![r] = st.cache]
                          /\ launched' = [launched EXCEPT ![r] = st.launched]
                          /\ repeated' = [repeated EXCEPT ![r] = st.repeated]
                          /\ SoundState(st, r) /\ Covered(st.cache, r)
      <4>1. PICK st : /\ cache' = [cache EXCEPT ![r] = st.cache]
                      /\ launched' = [launched EXCEPT ![r] = st.launched]
                      /\ repeated' = [repeated EXCEPT ![r] = st.repeated]
                      /\ SoundState(st, r) /\ Covered(st.cache, r)
        BY <3>6
      <4>2. /\ DOMAIN cache' = DOMAIN layersOf /\ DOMAIN launched' = DOMAIN layersOf
            /\ DOMAIN repeated' = DOMAIN layersOf BY <4>1, <2>0
      <4>3. cache'[r] = st.cache /\ launched'[r] = st.launched /\ repeated'[r] = st.repeated
        BY <4>1, <2>0, <3>3
      <4>4. \A q \in LocalRanks : q # r => New(q) = StateOf(q) BY <4>1, <2>0, <1>1 DEF StateOf
      <4>5. SoundState(New(r), r)
        <5>1. /\ New(r).cache = st.cache /\ New(r).launched = st.launched /\ New(r).repeated = st.repeated
          BY <4>3
        <5> HIDE DEF New
        <5>2. QED BY <5>1, <4>1 DEF SoundState
      <4>6. \A q \in LocalRanks : SoundState(New(q), q)
        <5> HIDE DEF New
        <5>1. ASSUME NEW q \in LocalRanks, q # r PROVE SoundState(New(q), q) BY <5>1, <4>4 DEF WarmInv
        <5>2. QED BY <4>5, <5>1
      <4>7. ASSUME NEW q \in LocalRanks, wenv.warmup # "skip", wcalls'[q] > 0, q \notin wfailed'
            PROVE  Covered(cache'[q], q)
        <5>1. CASE q = r BY <5>1, <4>1, <4>3
        <5>2. CASE q # r
          <6>1. cache'[q] = cache[q] /\ wcalls[q] > 0 /\ q \notin wfailed
            BY <5>2, <4>1, <2>0, <1>1, <2>2, <3>6, <4>7
          <6>2. QED BY <6>1, <4>7 DEF WarmInv
        <5>3. QED BY <5>1, <5>2
      <4>8. QED BY <2>2, <4>2, <4>6, <4>7
    <3>7. QED BY <3>4, <3>5, <3>6
  <2>6. QED BY <2>3, <2>4, <2>5
<1>5. QED BY <1>3, <1>4 DEF WarmNext

\* What a rank has compiled is its share of the plans of the shapes its caches have, through
\* any number of calls; and a rank that has returned left nothing of its layers.
THEOREM WarmUpIsSound == WarmSpec => []WarmInv
<1>1. WarmInv /\ [WarmNext]_warmVars => WarmInv' BY WarmNextInv
<1>2. QED BY <1>1, WarmInitInv, PTL DEF WarmSpec

--------------------------------------------------------------------------------
\* The parts of the ranks, put together, are the plan.
LEMMA InvCovers == WarmInv => ShardsCoverPlan
<1> SUFFICES ASSUME WarmInv, wenv.warmup # "skip", \A r \in LocalRanks : wcalls[r] > 0 /\ r \notin wfailed,
                    NEW f \in Families, NEW m \in ToSet(layersOf[0]), MayUse(f, m),
                    \A r \in LocalRanks : m \in ToSet(layersOf[r]), NEW w \in ToSet(Weights(m))
             PROVE  LET plan == Plan(f, m, w)
                        size == _get_local_rank_and_size
                        by(x) == { r \in LocalRanks : << f, w, x >> \in launched[r] }
                    IN /\ \A i \in 1 .. (Len(plan) \div size) * size : by(RowsRun(f, plan[i])) # {}
                       /\ \A i \in DOMAIN plan :
                            plan[i] < WarmMaxTokens =>
                              /\ \A r, q \in by(plan[i]) : r = q
                              /\ \A r \in LocalRanks : << f, w, plan[i] >> \notin repeated[r]
  BY DEF ShardsCoverPlan
<1> DEFINE plan == Plan(f, m, w)  size == _get_local_rank_and_size
<1>0. /\ Laid /\ wenv \in WarmEnvs /\ LocalRanks \subseteq DOMAIN layersOf
      /\ \A r \in LocalRanks : SoundState(StateOf(r), r)
      /\ \A r \in LocalRanks : Covered(cache[r], r)
  BY DEF WarmInv, Laid
<1>1. 0 \in LocalRanks BY <1>0, Sizes DEF LocalRanks
<1>2. m \in ModelLayers
  <2>1. layersOf[0] \in Seq(ModelLayers) BY <1>0, <1>1, WarmAssumption DEF Laid
  <2>2. QED BY <2>1 DEF ToSet
<1>3. IsPlan(plan) BY <1>2, PlansArePlans, WarmAssumption
<1> HIDE DEF plan
<1>4. plan \in Seq(Nat) /\ Len(plan) \in Nat /\ DOMAIN plan = 1 .. Len(plan) BY <1>3 DEF IsPlan
\* What a rank has launched of the weight is its part of the plan.
<1>5. ASSUME NEW r \in LocalRanks, NEW i \in Part(Len(plan), r) PROVE << f, w, RowsRun(f, plan[i]) >> \in launched[r]
  <2>1. i \in 1 .. Len(plan) /\ plan[i] \in ToSet(_shard_m_values_chunked(plan, r))
    BY <1>0, <1>4, <1>5, ShareIsPart
  <2>2. Len(plan) # 0 BY <2>1, <1>4
  <2>3. << f, w >> \in cache[r] BY <1>0, <2>2 DEF Covered, plan
  <2>4. ShareOf(f, m, w, r) \subseteq launched[r] BY <1>0, <2>3 DEF SoundState, StateOf
  <2>5. << f, w, RowsRun(f, plan[i]) >> \in ShareOf(f, m, w, r) BY <2>1 DEF ShareOf, plan
  <2>6. QED BY <2>4, <2>5
<1>6. ASSUME NEW r \in LocalRanks, NEW x, << f, w, x >> \in launched[r]
      PROVE  \E i \in Part(Len(plan), r) : i \in 1 .. Len(plan) /\ x = RowsRun(f, plan[i])
  <2>1. PICK g \in Families, n \in ToSet(layersOf[r]) :
          MayUse(g, n) /\ \E v \in ToSet(Weights(n)) : << f, w, x >> \in ShareOf(g, n, v, r)
    BY <1>0, <1>6 DEF SoundState, StateOf
  <2>2. PICK v \in ToSet(Weights(n)) : << f, w, x >> \in ShareOf(g, n, v, r) BY <2>1
  <2>3. PICK y \in ToSet(_shard_m_values_chunked(Plan(g, n, v), r)) : << f, w, x >> = << g, v, RowsRun(g, y) >>
    BY <2>2 DEF ShareOf
  <2>4. g = f /\ v = w /\ x = RowsRun(f, y) BY <2>3
  <2>5. Plan(f, n, w) = plan
    <3>1. 0 \in DOMAIN layersOf /\ r \in DOMAIN layersOf BY <1>0, <1>1
    <3>2. MayUse(f, n) /\ w \in ToSet(Weights(n)) BY <2>1, <2>2, <2>4
    <3>3. Plan(f, n, w) = Plan(f, m, w) BY <1>0, <3>1, <3>2, PlanIsOfShape
    <3>4. QED BY <3>3 DEF plan
  <2>6. y \in { plan[i] : i \in Part(Len(plan), r) } BY <1>0, <1>4, <2>3, <2>4, <2>5, ShareIsPart
  <2>7. Part(Len(plan), r) \subseteq 1 .. Len(plan) BY <1>0, <1>4, ShareIsPart
  <2>8. QED BY <2>4, <2>6, <2>7
<1>7. ASSUME NEW i \in 1 .. (Len(plan) \div size) * size
      PROVE  \E r \in LocalRanks : << f, w, RowsRun(f, plan[i]) >> \in launched[r]
  <2>1. PICK r \in LocalRanks : i \in Part(Len(plan), r)
    <3> HIDE DEF size
    <3> QED BY <1>0, <1>4, <1>7, PartsPartition DEF size
  <2>2. QED BY <2>1, <1>5
<1>8. ASSUME NEW i \in DOMAIN plan, plan[i] < WarmMaxTokens, NEW q \in LocalRanks, NEW r \in LocalRanks,
             << f, w, plan[i] >> \in launched[q], << f, w, plan[i] >> \in launched[r]
      PROVE  r = q
  <2>0. WarmMaxTokens \in Nat /\ \A k \in 1 .. Len(plan) : plan[k] \in Nat BY <1>4, WarmAssumption
  <2>1. \A k \in 1 .. Len(plan) : plan[i] = RowsRun(f, plan[k]) => k = i
    <3> TAKE k \in 1 .. Len(plan)
    <3>1. i \in 1 .. Len(plan) BY <1>4
    <3>2. plan[i] \in Nat /\ plan[k] \in Nat BY <2>0, <3>1
    <3>3. plan[i] = RowsRun(f, plan[k]) => plan[i] = plan[k] BY <2>0, <3>2, <1>8 DEF RowsRun
    <3>4. QED BY <3>1, <3>3, <1>3 DEF IsPlan
  <2>2. i \in Part(Len(plan), q) /\ i \in Part(Len(plan), r) BY <1>6, <1>8, <2>1
  <2>3. QED BY <1>0, <1>4, <2>2, PartsPartition
<1>9. \A r \in LocalRanks : repeated[r] = {} BY <1>0 DEF SoundState, StateOf
<1>10. QED
  BY <1>7, <1>8, <1>9 DEF plan

\* ShardsCoverPlan, for every number of tokens, every model and every layout of the ranks:
\* the counts that skip a group of families, the caches that skip a shape and the shares of
\* the ranks leave nothing of a plan out but its last Len(plan) % size numbers, and let no
\* two ranks compile the same.
THEOREM SharesAlwaysCover == WarmSpec => []ShardsCoverPlan
<1>1. WarmSpec => []WarmInv BY WarmUpIsSound
<1>2. QED BY <1>1, InvCovers, PTL
================================================================================
