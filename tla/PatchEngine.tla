------------------------------ MODULE PatchEngine ------------------------------
(***************************************************************************)
(* The runtime patches of vllm_sail/patch/utils.py: replacements installed *)
(* in the modules and classes of vLLM, with the bookkeeping they leave.    *)
(*                                                                         *)
(* A slot is one attribute of one module or class.  A slot of a module     *)
(* that copied a function of another one with `from m import f` is an      *)
(* alias: it is filled when its module is loaded, from what the provider   *)
(* holds then.  An attribute is what a slot holds: an implementation in a  *)
(* descriptor, with the other accessors of a property.                     *)
(***************************************************************************)
EXTENDS Sequences, Naturals

CONSTANTS
  Slots,         (* attributes that patches name                            *)
  ClassSlots,    (* the ones patched by a dotted path ("Class.method")      *)
  DataSlots,     (* the ones patch_value names; @patch names no such slot   *)
  Base,          (* slot -> slot of the base class it is inherited from     *)
  Source,        (* alias -> the provider's slot it copies                  *)
  Replacements,  (* implementations that patches install                    *)
  Values,        (* data that patch_value installs                          *)
  Foreign,       (* an implementation another plugin installed              *)
  NoSlot, Nil, Missing, Unloaded, Unset

Kinds == {"function", "static", "class", "property", "value"}

\* An implementation of vLLM has the name of the slot it was defined in.
Upstream == Slots \cup {Foreign}

Attributes == [kind : Kinds, impl : Upstream \cup Replacements \cup Values,
               rest : Upstream \cup {Nil}]

IsAlias(s) == Source[s] # NoSlot

ASSUME SlotAssumption ==
  /\ ClassSlots \subseteq Slots
  /\ DataSlots \subseteq Slots \ ClassSlots
  /\ Base \in [Slots -> ClassSlots \cup {NoSlot}]
  /\ Source \in [Slots -> Slots \cup {NoSlot}]
  /\ NoSlot \notin Slots
  /\ \A s \in Slots : IsAlias(s) =>
       Source[s] \notin ClassSlots \cup DataSlots /\ ~ IsAlias(Source[s])
  /\ \A s \in Slots : IsAlias(s) => s \notin ClassSlots \cup DataSlots
  /\ \A s \in Slots : Base[s] # NoSlot => s \in ClassSlots /\ ~ IsAlias(Base[s])

ASSUME ObjectAssumption ==
  /\ Replacements \cap Upstream = {}
  /\ Replacements \cap Values = {}
  /\ Missing \notin Attributes
  /\ Unloaded \notin Attributes \cup {Missing}
  /\ Unset \notin Attributes \cup {Missing}

VARIABLES
  pristine,   (* what each slot held before any patch                      *)
  attr,       (* what each slot holds                                      *)
  mark,       (* PATCH_MARKER of each replacement: slot -> what it replaced *)
  registry    (* PATCH_REGISTRY                                            *)

heap == << attr, mark, registry >>

--------------------------------------------------------------------------------
\* inspect.getattr_static: the slot, or the base class it inherits from.
Static(s) ==
  IF attr[s] = Missing /\ Base[s] # NoSlot THEN attr[Base[s]] ELSE attr[s]

\* MUTANT: without the rule for names that exist on a base class only.
OriginalInherited(s, additive) == Static(s)

\* The attribute a patch finds.  An additive patch (allow_missing) of a class
\* that only inherits the name shadows it: nothing is replaced.
Original(s, additive) ==
  IF additive /\ attr[s] = Missing THEN Missing ELSE Static(s)

Marked(o) == o \in Replacements /\ \E s \in Slots : mark[o][s] # Unset

AlreadyPatched(original, impl) ==
  original # Missing /\ (original.impl = impl \/ Marked(original.impl))

\* _build_class_attribute: the replacement in the descriptor of the original.
\* A module attribute is installed unchanged.
Build(s, original, a) ==
  IF original = Missing \/ s \notin ClassSlots THEN a
  ELSE [kind |-> original.kind, impl |-> a.impl, rest |-> original.rest]

\* A descriptor does not replace a plain function of a class.
Mismatch(s, original, a) ==
  /\ s \in ClassSlots
  /\ original # Missing
  /\ original.kind = "function"
  /\ a.kind # "function"

Record(s, kind, original) ==
  [target |-> s, kind |-> kind, was_missing |-> original = Missing]

Kind(s) == IF s \in ClassSlots THEN "class" ELSE "module"

--------------------------------------------------------------------------------
\* The conditions under which @patch(s)(a) raises.
Refused(s, a, additive) ==
  LET original == Original(s, additive) IN
  \/ original = Missing /\ ~ additive
  \/ AlreadyPatched(original, a.impl)
  \/ Mismatch(s, original, a)

\* MUTANT: the marker of a shared replacement is started afresh.
InstallFresh(s, a, additive) ==
  LET original == Original(s, additive) IN
  /\ ~ Refused(s, a, additive)
  /\ mark' = [mark EXCEPT ![a.impl] =
                [[t \in Slots |-> Unset] EXCEPT ![s] = original]]
  /\ attr' = [attr EXCEPT ![s] = Build(s, original, a)]
  /\ registry' = Append(registry, Record(s, Kind(s), original))

\* @patch(s)(a): record what is replaced, install, append to the registry.
Install(s, a, additive) ==
  LET original == Original(s, additive) IN
  /\ ~ Refused(s, a, additive)
  /\ mark' = [mark EXCEPT ![a.impl][s] = original]
  /\ attr' = [attr EXCEPT ![s] = Build(s, original, a)]
  /\ registry' = Append(registry, Record(s, Kind(s), original))

Value(v) == [kind |-> "value", impl |-> v, rest |-> Nil]

\* patch_value: an equal value is left alone, a different one refused.
ValueRefused(s, v) == Static(s) \notin {Missing, Value(v)}

InstallValue(s, v) ==
  /\ ~ ValueRefused(s, v)
  /\ IF Static(s) = Missing
     THEN /\ attr' = [attr EXCEPT ![s] = Value(v)]
          /\ registry' = Append(registry, Record(s, "value", Missing))
     ELSE UNCHANGED << attr, registry >>
  /\ UNCHANGED mark

\* The module of an alias is loaded: `from provider import f`.
LoadAlias(s) ==
  /\ attr[s] = Unloaded
  /\ attr' = [attr EXCEPT ![s] = attr[Source[s]]]
  /\ UNCHANGED << mark, registry >>

Pristine(s) == [kind |-> "function", impl |-> s, rest |-> Nil]

--------------------------------------------------------------------------------
(* The engine under any sequence of patches and loads.                      *)

HeapInit ==
  /\ attr = pristine
  /\ mark = [r \in Replacements |-> [s \in Slots |-> Unset]]
  /\ registry = << >>

Providers == {Source[s] : s \in {t \in Slots : IsAlias(t)}}

\* vLLM defines its slots, or not, with any descriptor in a class; providers are
\* functions, and the module of an alias may have been loaded or not.
Init ==
  /\ \E kind \in [ClassSlots -> Kinds \ {"value"}],
        data \in [DataSlots -> Values],
        absent \in SUBSET (Slots \ Providers) :
       pristine = [s \in Slots |->
         IF s \in absent THEN IF IsAlias(s) THEN Unloaded ELSE Missing
         ELSE IF IsAlias(s) THEN Pristine(Source[s])
         ELSE IF s \in DataSlots THEN Value(data[s])
         ELSE IF s \in ClassSlots
         THEN [kind |-> kind[s], impl |-> s,
               rest |-> IF kind[s] = "property" THEN s ELSE Nil]
         ELSE Pristine(s)]
  /\ HeapInit

\* A decorated replacement; a property written by a patch has no setter.
Decorated == [kind : Kinds \ {"value"}, impl : Replacements, rest : {Nil}]

Next ==
  /\ \/ \E s \in Slots \ DataSlots, a \in Decorated, additive \in BOOLEAN :
          /\ attr[s] # Unloaded
          /\ s \notin ClassSlots => a.kind = "function"
          /\ Install(s, a, additive)
     \/ \E s \in DataSlots, v \in Values : InstallValue(s, v)
     \/ \E s \in Slots : LoadAlias(s)
  /\ UNCHANGED pristine

vars == << pristine, attr, mark, registry >>

Spec == Init /\ [][Next]_vars

--------------------------------------------------------------------------------
PatchedSlots == {registry[i].target : i \in DOMAIN registry}

\* What a lookup of slot s found before any patch.
Held(s) ==
  IF pristine[s] = Unloaded THEN pristine[Source[s]]
  ELSE IF pristine[s] = Missing /\ Base[s] # NoSlot THEN pristine[Base[s]]
  ELSE pristine[s]

HeapTypeOK ==
  /\ pristine \in [Slots -> Attributes \cup {Missing, Unloaded}]
  /\ attr \in [Slots -> Attributes \cup {Missing, Unloaded}]
  /\ mark \in [Replacements -> [Slots -> Attributes \cup {Missing, Unset}]]
  /\ registry \in Seq([target : Slots, kind : {"module", "class", "value"},
                       was_missing : BOOLEAN])

\* original_of returns what vLLM (or another plugin) had put there, or refuses
\* because there was nothing: never a replacement of the plugin itself, in
\* every order of patches of base and derived classes, providers and aliases,
\* and for a replacement installed in several slots.
OriginalsKept ==
  \A i \in DOMAIN registry :
    LET s == registry[i].target
        o == mark[attr[s].impl][s]
    IN  registry[i].kind # "value" =>
          /\ attr[s].impl \in Replacements
          /\ IF registry[i].was_missing
             THEN o = Missing /\ pristine[s] = Missing
             ELSE o = Held(s)

================================================================================
