------------------------------ MODULE NativeOps ------------------------------
(***************************************************************************)
(* Who provides an operator of torch.ops (native/).  The layers run in the *)
(* order of native.install(): the compiled extensions, the Torch           *)
(* implementations (portable.py), the Triton implementations               *)
(* (triton_ops.py), and stubs for what upstream defines and PPU lacks.     *)
(* Each claims an operator whose schema is absent.  native.install() runs  *)
(* again after a failure, and the device CI runs a strict preflight.       *)
(*                                                                         *)
(* A registration belongs to a Library object: it goes when the object     *)
(* goes.  A layer keeps the object after a complete registration; one that *)
(* fails half-way leaves it to the exception.                              *)
(***************************************************************************)
EXTENDS Naturals, Sequences, SequencesExt

CONSTANTS
  Extensions,        (* _EXTENSIONS: [ops, sentinel, required] each          *)
  PortableOps,       (* the operators of portable.install, in order          *)
  TritonOps,         (* IMPLEMENTATIONS, in order                            *)
  ExcludedOps,       (* load_schemas(), in order                             *)
  ForeignClaims,     (* the operators a vLLM build may bring: [ops, kernels] *)
  MaxNativeFailures  (* bound: registrations and imports that fail           *)

CompiledOps == UNION {Extensions[i].ops : i \in DOMAIN Extensions}
Ops == CompiledOps \cup ToSet(PortableOps) \cup ToSet(TritonOps) \cup ToSet(ExcludedOps)

\* The excluded operators are not compiled; a foreign library that claims a part of a
\* namespace has its sentinel.
ASSUME NativeAssumption ==
  /\ CompiledOps \cap (ToSet(PortableOps) \cup ToSet(ExcludedOps)) = {}
  /\ ToSet(TritonOps) \subseteq ToSet(ExcludedOps)
  /\ \A f \in ForeignClaims : f.kernels \subseteq f.ops /\ f.ops \subseteq Ops
       /\ \A i \in DOMAIN Extensions :
            f.ops \cap Extensions[i].ops # {} => Extensions[i].sentinel \in f.ops
  /\ MaxNativeFailures \in Nat
  /\ \A list \in {PortableOps, TritonOps, ExcludedOps} : list \in Seq(ToSet(list)) /\ list # << >>

VARIABLES
  foreign,         (* what the vLLM build brings                             *)
  outlives,        (* whether a failed call's exception is kept for a while  *)
  stableModule,    (* sys.modules["vllm._C_stable_libtorch"]                 *)
  op,              (* the registry: who claimed, and whether a kernel is there *)
  held,            (* operators whose Library only an exception keeps alive  *)
  imported,        (* _imported                                              *)
  portableInstalled, (* portable._installed                                  *)
  stage, at,       (* where a call is                                        *)
  strict,
  verdict,         (* how the last call ended                                *)
  nativeFailures

registry   == << op, held >>
nativeVars == << foreign, outlives, stableModule, registry, imported,
                 portableInstalled, stage, at, strict, verdict, nativeFailures >>

Unclaimed == [by |-> "nobody", kernel |-> FALSE]
Exists(o) == op[o] # Unclaimed

NativeInit ==
  /\ foreign \in ForeignClaims
  /\ outlives \in BOOLEAN
  /\ stableModule = "absent"
  /\ op = [o \in Ops |-> Unclaimed]
  /\ held = {}
  /\ imported = {}
  /\ portableInstalled = FALSE
  /\ stage = "start"
  /\ at = 1
  /\ strict = FALSE
  /\ verdict = "none"
  /\ nativeFailures = 0

Fail == nativeFailures < MaxNativeFailures /\ nativeFailures' = nativeFailures + 1

\* bootstrap.install: "The shim is installed only when no loaded or discoverable real
\* extension owns the name."
Bootstrap ==
  /\ stage = "start"
  /\ stableModule' = IF foreign.ops = {} THEN "shim" ELSE "absent"
  /\ stage' = "platform"
  /\ UNCHANGED << foreign, outlives, registry, imported, portableInstalled, at, strict,
                  verdict, nativeFailures >>

\* vllm.platforms.cuda imports the module; a real one claims its operators.
PlatformImport ==
  /\ stage = "platform"
  /\ stableModule' = IF stableModule = "shim" THEN "shim" ELSE "real"
  /\ op' = IF stableModule = "shim" THEN op
           ELSE [o \in Ops |-> IF o \in foreign.ops
                  THEN [by |-> "vllm", kernel |-> o \in foreign.kernels] ELSE op[o]]
  /\ stage' = "idle"
  /\ UNCHANGED << foreign, outlives, held, imported, portableInstalled, at, strict,
                  verdict, nativeFailures >>

--------------------------------------------------------------------------------
Goes(s, i) == stage' = s /\ at' = i

Begin(mode) ==
  /\ stage = "idle"
  /\ strict' = mode
  /\ Goes("extensions", 1)
  /\ verdict' = "running"
  /\ UNCHANGED << foreign, outlives, stableModule, registry, imported, portableInstalled,
                  nativeFailures >>

\* import_kernels(strict=True) alone is the preflight; native.install() is tolerant.
CallInstall   == Begin(FALSE)
CallPreflight == Begin(TRUE)

\* The exception leaves the call.  Unless something keeps it, the Library objects that
\* only its frames hold are gone, and their registrations with them.
Ends(v, registrations, alive) ==
  /\ Goes("idle", 1)
  /\ verdict' = v
  /\ held' = IF outlives THEN alive ELSE {}
  /\ op' = IF outlives THEN registrations
           ELSE [o \in Ops |-> IF o \in alive THEN Unclaimed ELSE registrations[o]]

\* _verify_ops, with the registrations as they are now.
Verdict(e, registrations) ==
  IF \E o \in e.required : registrations[o] = Unclaimed THEN "missing"
  ELSE IF \E o \in e.required : ~ registrations[o].kernel THEN "no_kernel"
  ELSE "ok"

\* The end of one turn of the loop over _EXTENSIONS.
ExtensionDone(registrations) ==
  LET v == Verdict(Extensions[at], registrations) IN
  IF strict /\ v # "ok" THEN Ends(v, registrations, held)
  ELSE IF at < Len(Extensions)
       THEN /\ Goes("extensions", at + 1) /\ op' = registrations /\ UNCHANGED << held, verdict >>
  ELSE IF strict THEN Ends("ok", registrations, held)
       ELSE /\ Goes("portable", 1) /\ op' = registrations /\ UNCHANGED << held, verdict >>

\* Imported before, or claimed by another library: not imported now.
ExtensionPresent ==
  /\ stage = "extensions"
  /\ at \in imported \/ Exists(Extensions[at].sentinel)
  /\ imported' = imported \cup {at}
  /\ ExtensionDone(op)
  /\ UNCHANGED << foreign, outlives, stableModule, portableInstalled, strict, nativeFailures >>

Absent == stage = "extensions" /\ at \notin imported /\ ~ Exists(Extensions[at].sentinel)

ImportExtension ==
  /\ Absent
  /\ imported' = imported \cup {at}
  /\ ExtensionDone([o \in Ops |-> IF o \in Extensions[at].ops
                      THEN [by |-> "extension", kernel |-> TRUE] ELSE op[o]])
  /\ UNCHANGED << foreign, outlives, stableModule, portableInstalled, strict, nativeFailures >>

\* "An unsuccessful import must not count as a loaded extension."
ImportExtensionFails ==
  /\ Absent /\ Fail
  /\ IF strict THEN Ends("load_error", op, held)
     ELSE /\ IF at < Len(Extensions) THEN Goes("extensions", at + 1) ELSE Goes("portable", 1)
          /\ UNCHANGED << registry, verdict >>
  /\ UNCHANGED << foreign, outlives, stableModule, imported, portableInstalled, strict >>

--------------------------------------------------------------------------------
\* One operator of a layer: left alone, provided, or refused by torch before or after
\* its schema is defined.
LeaveAlone(o) == Exists(o) /\ UNCHANGED << registry, nativeFailures, verdict >>
Provide(o, layer) ==
  /\ ~ Exists(o)
  /\ op' = [op EXCEPT ![o] = [by |-> layer, kernel |-> TRUE]]
  /\ UNCHANGED << held, nativeFailures, verdict >>
DefineFails(o) == ~ Exists(o) /\ Fail /\ Ends("failed", op, held)
ImplFails(o, layer) ==
  /\ ~ Exists(o) /\ Fail
  /\ Ends("failed", [op EXCEPT ![o] = [by |-> layer, kernel |-> FALSE]], held \cup {o})

Onward(list, this, then) ==
  IF at < Len(list) THEN Goes(this, at + 1) ELSE Goes(then, 1)

PortableSkipped ==
  /\ stage = "portable" /\ portableInstalled
  /\ Goes("triton", 1)
  /\ UNCHANGED << foreign, outlives, stableModule, registry, imported, portableInstalled,
                  strict, verdict, nativeFailures >>

\* MUTANT: the flag is set first.
PortableStepEarly ==
  /\ stage = "portable" /\ ~ portableInstalled
  /\ portableInstalled' = TRUE
  /\ LET o == PortableOps[at] IN
     \/ (LeaveAlone(o) \/ Provide(o, "portable")) /\ Onward(PortableOps, "portable", "triton")
     \/ DefineFails(o) \/ ImplFails(o, "portable")
  /\ UNCHANGED << foreign, outlives, stableModule, imported, strict >>

\* MUTANT: the stubs come before the Triton implementations.
PortableStepBeforeStubs ==
  /\ stage = "portable" /\ ~ portableInstalled
  /\ LET o == PortableOps[at] IN
     \/ /\ LeaveAlone(o) \/ Provide(o, "portable")
        /\ Onward(PortableOps, "portable", "stubs")
        /\ portableInstalled' = (at = Len(PortableOps))
     \/ /\ DefineFails(o) \/ ImplFails(o, "portable")
        /\ UNCHANGED portableInstalled
  /\ UNCHANGED << foreign, outlives, stableModule, imported, strict >>

\* portable.install, one operator; the flag is set after the last.
PortableStep ==
  /\ stage = "portable" /\ ~ portableInstalled
  /\ LET o == PortableOps[at] IN
     \/ /\ LeaveAlone(o) \/ Provide(o, "portable")
        /\ Onward(PortableOps, "portable", "triton")
        /\ portableInstalled' = (at = Len(PortableOps))
     \/ /\ DefineFails(o) \/ ImplFails(o, "portable")
        /\ UNCHANGED portableInstalled
  /\ UNCHANGED << foreign, outlives, stableModule, imported, strict >>

\* triton_ops.install: a registration that fails destroys its library.
TritonStep ==
  /\ stage = "triton"
  /\ LET o == TritonOps[at] IN
     \/ (LeaveAlone(o) \/ Provide(o, "triton")) /\ Onward(TritonOps, "triton", "stubs")
     \/ DefineFails(o)
  /\ UNCHANGED << foreign, outlives, stableModule, imported, portableInstalled, strict >>

\* stubs.install, one operator of excluded_ops.toml.
StubStep ==
  /\ stage = "stubs"
  /\ LET o == ExcludedOps[at] IN
     \/ /\ LeaveAlone(o) /\ at < Len(ExcludedOps) /\ Goes("stubs", at + 1)
     \/ /\ Provide(o, "stub") /\ at < Len(ExcludedOps) /\ Goes("stubs", at + 1)
     \/ /\ at = Len(ExcludedOps)
        /\ Ends("ok", [op EXCEPT ![o] = IF Exists(o) THEN @ ELSE [by |-> "stub", kernel |-> TRUE]],
                held)
        /\ UNCHANGED nativeFailures
     \/ DefineFails(o) \/ ImplFails(o, "stub")
  /\ UNCHANGED << foreign, outlives, stableModule, imported, portableInstalled, strict >>

\* A kept exception is dropped, between calls or during one.
Drop ==
  /\ held # {}
  /\ op' = [o \in Ops |-> IF o \in held THEN Unclaimed ELSE op[o]]
  /\ held' = {}
  /\ UNCHANGED << foreign, outlives, stableModule, imported, portableInstalled, stage, at,
                  strict, verdict, nativeFailures >>

NativeNext ==
  \/ Bootstrap \/ PlatformImport \/ CallInstall \/ CallPreflight
  \/ ExtensionPresent \/ ImportExtension \/ ImportExtensionFails
  \/ PortableSkipped \/ PortableStep \/ TritonStep \/ StubStep \/ Drop

NativeSpec == NativeInit /\ [][NativeNext]_nativeVars

--------------------------------------------------------------------------------
\* native.install() that returns has given every operator of its layers a kernel,
\* also after calls that failed half-way.  A kept exception voids this: the retry
\* takes its half-made schema for an operator, and the schema goes later.
InstalledIsComplete ==
  (stage = "idle" /\ verdict = "ok" /\ ~ strict /\ ~ outlives) =>
    \A o \in ToSet(PortableOps) \cup ToSet(ExcludedOps) :
      Exists(o) /\ (op[o].by # "vllm" => op[o].kernel)

\* "stubs must never shadow a real implementation": an operator that another layer
\* implements is never stubbed, whatever failed before (native.install).
StubsShadowNothing ==
  ~ outlives => \A o \in Ops :
    op[o].by = "stub" => o \notin CompiledOps \cup ToSet(PortableOps) \cup ToSet(TritonOps)
================================================================================
