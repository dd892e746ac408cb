--------------------------- MODULE PatchEngineProofs ---------------------------
(***************************************************************************)
(* Theorems about the patch engine, for any slots, classes, aliases and    *)
(* replacements and any sequence of patches: the marker of a replacement   *)
(* always leads back to what vLLM had defined.                             *)
(***************************************************************************)
EXTENDS PatchEngine, SequenceTheorems, TLAPS

Records == [target : Slots, kind : {"module", "class", "value"}, was_missing : BOOLEAN]

\* What vLLM defines holds no replacement; an alias copies its provider.
PristineSound ==
  /\ \A s \in Slots : pristine[s] \in Attributes => pristine[s].impl \notin Replacements
  /\ \A s \in Slots : pristine[s] = Unloaded => IsAlias(s)
  /\ \A s \in Slots : IsAlias(s) => /\ pristine[Source[s]] \in Attributes
                                    /\ pristine[s] \in {Unloaded, pristine[Source[s]]}

Unrecorded(s) == \A i \in DOMAIN registry : registry[i].target # s

\* An unrecorded slot is as vLLM left it, unless it is an alias that was loaded
\* meanwhile: that one holds what vLLM defined, or a marked replacement.
UnrecordedSound ==
  \A s \in Slots : Unrecorded(s) =>
    \/ attr[s] = pristine[s]
    \/ /\ pristine[s] = Unloaded
       /\ attr[s] \in Attributes
       /\ attr[s] = Held(s) \/ Marked(attr[s].impl)

\* A recorded slot holds a replacement marked at this very slot.
RecordSound(i) ==
  LET s == registry[i].target IN
  /\ attr[s] \in Attributes
  /\ registry[i].kind = "value" <=> s \in DataSlots
  /\ s \notin DataSlots =>
       /\ attr[s].impl \in Replacements
       /\ mark[attr[s].impl][s] # Unset
       /\ registry[i].was_missing =>
            mark[attr[s].impl][s] = Missing /\ pristine[s] = Missing
       /\ ~ registry[i].was_missing => mark[attr[s].impl][s] = Held(s)

EngineInv == /\ HeapTypeOK
             /\ PristineSound
             /\ UnrecordedSound
             /\ \A i \in DOMAIN registry : RecordSound(i)

--------------------------------------------------------------------------------
\* A record of the registry is about a slot.
LEMMA RecordAt ==
  ASSUME NEW reg \in Seq(Records), NEW i \in DOMAIN reg
  PROVE  reg[i] \in Records /\ reg[i].target \in Slots
<1>1. reg[i] \in Records
  <2> HIDE DEF Records
  <2> QED BY LenProperties, ElementOfSeq
<1>2. QED
  BY <1>1 DEF Records

\* Appending a record keeps the records before it.
LEMMA AppendRecord ==
  ASSUME NEW reg \in Seq(Records), NEW rec \in Records
  PROVE  /\ Append(reg, rec) \in Seq(Records)
         /\ \A i \in DOMAIN Append(reg, rec) :
              \/ i \in DOMAIN reg /\ Append(reg, rec)[i] = reg[i]
              \/ Append(reg, rec)[i] = rec
         /\ \A i \in DOMAIN reg :
              i \in DOMAIN Append(reg, rec) /\ Append(reg, rec)[i] = reg[i]
         /\ \E i \in DOMAIN Append(reg, rec) : Append(reg, rec)[i] = rec
<1>1. /\ Append(reg, rec) \in Seq(Records)
      /\ Len(Append(reg, rec)) = Len(reg) + 1
      /\ \A i \in 1 .. Len(reg) : Append(reg, rec)[i] = reg[i]
      /\ Append(reg, rec)[Len(reg) + 1] = rec
  <2> HIDE DEF Records
  <2> QED BY AppendProperties
<1>2. /\ DOMAIN Append(reg, rec) = 1 .. Len(Append(reg, rec))
      /\ DOMAIN reg = 1 .. Len(reg)
      /\ Len(reg) \in Nat
  <2> HIDE DEF Records
  <2> QED BY <1>1, LenProperties
<1>3. DOMAIN Append(reg, rec) = 1 .. Len(reg) + 1
  BY <1>1, <1>2
<1>4. \A i \in 1 .. Len(reg) + 1 : i \in 1 .. Len(reg) \/ i = Len(reg) + 1
  BY <1>2
<1>5. /\ \A i \in 1 .. Len(reg) : i \in 1 .. Len(reg) + 1
      /\ Len(reg) + 1 \in 1 .. Len(reg) + 1
  BY <1>2
<1> HIDE DEF Records
<1>6. QED
  BY <1>1, <1>2, <1>3, <1>4, <1>5

\* A module or class attribute that @patch accepts was not recorded before.
LEMMA AcceptedSlotIsUnrecorded ==
  ASSUME EngineInv, NEW s \in Slots \ DataSlots, NEW a, NEW additive \in BOOLEAN,
         ~ Refused(s, a, additive)
  PROVE  Unrecorded(s)
<1> SUFFICES ASSUME NEW i \in DOMAIN registry, registry[i].target = s PROVE FALSE
  BY DEF Unrecorded
<1>1. RecordSound(i)
  BY DEF EngineInv
<1>2. /\ attr[s] \in Attributes
      /\ attr[s].impl \in Replacements
      /\ mark[attr[s].impl][s] # Unset
  BY <1>1 DEF RecordSound
<1>3. attr[s] # Missing
  BY <1>2, ObjectAssumption
<1>4. Original(s, additive) = attr[s]
  BY <1>3 DEF Original, Static
<1>5. Marked(attr[s].impl)
  BY <1>2 DEF Marked
<1>6. QED
  BY <1>3, <1>4, <1>5 DEF Refused, AlreadyPatched

\* What @patch finds is what vLLM defined: a slot, or a base class, that holds
\* a replacement is refused.
LEMMA OriginalIsHeld ==
  ASSUME EngineInv, NEW s \in Slots \ DataSlots, NEW a, NEW additive \in BOOLEAN,
         attr[s] # Unloaded, ~ Refused(s, a, additive)
  PROVE  \/ Original(s, additive) = Missing /\ pristine[s] = Missing
         \/ /\ Original(s, additive) \in Attributes
            /\ Original(s, additive) = Held(s)
<1> DEFINE o == Original(s, additive)
<1>1. Unrecorded(s)
  BY AcceptedSlotIsUnrecorded
<1>2. \/ attr[s] = pristine[s]
      \/ /\ pristine[s] = Unloaded
         /\ attr[s] \in Attributes
         /\ attr[s] = Held(s) \/ Marked(attr[s].impl)
  BY <1>1 DEF EngineInv, UnrecordedSound
<1>3. attr[s] \in Attributes \cup {Missing, Unloaded}
  BY DEF EngineInv, HeapTypeOK
<1>4. CASE attr[s] \in Attributes
  <2>1. o = attr[s] /\ o # Missing
    BY <1>4, ObjectAssumption DEF Original, Static
  <2>2. ~ Marked(attr[s].impl)
    BY <2>1 DEF Refused, AlreadyPatched
  <2>3. CASE attr[s] = pristine[s]
    <3>1. pristine[s] # Unloaded /\ pristine[s] # Missing
      BY <2>3, <1>4, ObjectAssumption
    <3>2. Held(s) = pristine[s]
      BY <3>1 DEF Held
    <3>3. QED
      BY <3>2, <2>3, <2>1, <1>4
  <2>4. CASE attr[s] # pristine[s]
    BY <2>4, <1>2, <2>1, <2>2, <1>4
  <2>5. QED
    BY <2>3, <2>4
<1>5. CASE attr[s] = Missing
  <2>1. pristine[s] = Missing
    BY <1>5, <1>2, ObjectAssumption
  <2>2. CASE o = Missing
    BY <2>1, <2>2
  <2>3. CASE o # Missing
    <3>1. o = attr[Base[s]] /\ Base[s] # NoSlot
      BY <1>5, <2>3 DEF Original, Static
    <3>2. Base[s] \in Slots /\ ~ IsAlias(Base[s]) /\ Base[s] \notin DataSlots
      BY <3>1, SlotAssumption
    <3>3. ~ Marked(o.impl)
      BY <2>3 DEF Refused, AlreadyPatched
    <3>4. o \in Attributes \cup {Unloaded}
      BY <3>1, <3>2, <2>3 DEF EngineInv, HeapTypeOK
    <3>5. pristine[Base[s]] # Unloaded
      BY <3>2 DEF EngineInv, PristineSound
    <3>6. Unrecorded(Base[s])
      <4> SUFFICES ASSUME NEW i \in DOMAIN registry, registry[i].target = Base[s]
                   PROVE  FALSE
        BY DEF Unrecorded
      <4>1. RecordSound(i)
        BY DEF EngineInv
      <4>2. Marked(attr[Base[s]].impl)
        BY <4>1, <3>2 DEF RecordSound, Marked
      <4>3. QED
        BY <4>2, <3>1, <3>3
    <3>7. o = pristine[Base[s]]
      BY <3>1, <3>2, <3>5, <3>6 DEF EngineInv, UnrecordedSound
    <3>8. Held(s) = pristine[Base[s]]
      BY <2>1, <3>1, ObjectAssumption DEF Held
    <3>9. QED
      BY <3>4, <3>5, <3>7, <3>8
  <2>4. QED
    BY <2>2, <2>3
<1>6. QED
  BY <1>3, <1>4, <1>5

--------------------------------------------------------------------------------
LEMMA InitSound == Init => EngineInv
<1> SUFFICES ASSUME Init PROVE EngineInv
  OBVIOUS
<1>1. PICK kind \in [ClassSlots -> Kinds \ {"value"}], data \in [DataSlots -> Values],
           absent \in SUBSET (Slots \ Providers) :
        pristine = [s \in Slots |->
         IF s \in absent THEN IF IsAlias(s) THEN Unloaded ELSE Missing
         ELSE IF IsAlias(s) THEN Pristine(Source[s])
         ELSE IF s \in DataSlots THEN Value(data[s])
         ELSE IF s \in ClassSlots
         THEN [kind |-> kind[s], impl |-> s,
               rest |-> IF kind[s] = "property" THEN s ELSE Nil]
         ELSE Pristine(s)]
  BY DEF Init
<1>2. ASSUME NEW s \in Slots PROVE Pristine(s) \in Attributes
  BY DEF Pristine, Attributes, Kinds, Upstream
<1>3. ASSUME NEW v \in Values PROVE Value(v) \in Attributes
  BY DEF Value, Attributes, Kinds
<1>4. ASSUME NEW s \in ClassSlots, NEW r \in {s, Nil}
      PROVE  [kind |-> kind[s], impl |-> s, rest |-> r] \in Attributes
  BY SlotAssumption DEF Attributes, Upstream
<1>5. ASSUME NEW s \in Slots
      PROVE  \/ IsAlias(s) /\ pristine[s] = Unloaded
             \/ IsAlias(s) /\ pristine[s] = Pristine(Source[s])
             \/ ~ IsAlias(s) /\ pristine[s] = Missing /\ s \in absent
             \/ /\ ~ IsAlias(s)
                /\ pristine[s] \in Attributes
                /\ pristine[s].impl \in Slots \cup Values
  <2>1. CASE IsAlias(s)
    BY <1>1, <2>1
  <2>2. CASE ~ IsAlias(s) /\ s \in absent
    BY <1>1, <2>2
  <2>3. CASE ~ IsAlias(s) /\ s \notin absent /\ s \in DataSlots
    <3>1. pristine[s] = Value(data[s])
      BY <1>1, <2>3
    <3>2. data[s] \in Values
      BY <2>3
    <3>3. QED
      BY <2>3, <3>1, <3>2, <1>3 DEF Value
  <2>4. CASE ~ IsAlias(s) /\ s \notin absent /\ s \notin DataSlots /\ s \in ClassSlots
    <3>1. PICK r \in {s, Nil} : pristine[s] = [kind |-> kind[s], impl |-> s, rest |-> r]
      BY <1>1, <2>4
    <3>2. pristine[s] \in Attributes
      BY <2>4, <3>1, <1>4
    <3>3. pristine[s].impl = s
      BY <3>1
    <3>4. QED
      BY <2>4, <3>2, <3>3
  <2>5. CASE ~ IsAlias(s) /\ s \notin absent /\ s \notin DataSlots /\ s \notin ClassSlots
    <3>1. pristine[s] = Pristine(s)
      BY <1>1, <2>5
    <3>2. QED
      BY <2>5, <3>1, <1>2 DEF Pristine
  <2>6. QED
    BY <2>1, <2>2, <2>3, <2>4, <2>5
<1>6. ASSUME NEW s \in Slots, IsAlias(s)
      PROVE  /\ Source[s] \in Slots
             /\ pristine[Source[s]] = Pristine(Source[s])
  <2>1. Source[s] \in Slots /\ Source[s] \notin ClassSlots \cup DataSlots
        /\ ~ IsAlias(Source[s])
    BY <1>6, SlotAssumption DEF IsAlias
  <2>2. Source[s] \notin absent
    BY <1>6 DEF Providers
  <2>3. QED
    BY <1>1, <2>1, <2>2
<1>7. ASSUME NEW s \in Slots PROVE pristine[s] \in Attributes \cup {Missing, Unloaded}
  BY <1>5, <1>6, <1>2
<1>8. pristine \in [Slots -> Attributes \cup {Missing, Unloaded}]
  BY <1>1, <1>7
<1>9. attr = pristine /\ registry = << >>
      /\ mark = [r \in Replacements |-> [s \in Slots |-> Unset]]
  BY DEF Init, HeapInit
<1>10. HeapTypeOK
  BY <1>8, <1>9 DEF HeapTypeOK
<1>11. PristineSound
  <2>1. ASSUME NEW s \in Slots, pristine[s] \in Attributes
        PROVE  pristine[s].impl \in Slots \cup Values
    <3>1. pristine[s] # Missing /\ pristine[s] # Unloaded
      BY <2>1, ObjectAssumption
    <3>2. CASE IsAlias(s) /\ pristine[s] = Pristine(Source[s])
      BY <3>2, <1>6 DEF Pristine
    <3>3. QED
      BY <3>1, <3>2, <1>5
  <2>2. ASSUME NEW s \in Slots, pristine[s] = Unloaded PROVE IsAlias(s)
    BY <2>2, <1>5, ObjectAssumption
  <2>3. ASSUME NEW s \in Slots, IsAlias(s)
        PROVE  /\ pristine[Source[s]] \in Attributes
               /\ pristine[s] \in {Unloaded, pristine[Source[s]]}
    BY <2>3, <1>5, <1>6, <1>2
  <2>4. QED
    BY <2>1, <2>2, <2>3, ObjectAssumption DEF PristineSound, Upstream
<1>12. UnrecordedSound
  BY <1>9 DEF UnrecordedSound
<1>13. DOMAIN registry = {}
  BY <1>9
<1>14. QED
  BY <1>10, <1>11, <1>12, <1>13 DEF EngineInv

--------------------------------------------------------------------------------
\* A patch keeps the invariant: the new record leads back to what was defined,
\* and no earlier record is about the slot whose marker entry is written.
LEMMA InstallSound ==
  ASSUME EngineInv, UNCHANGED pristine,
         NEW s \in Slots \ DataSlots, NEW a \in Decorated, NEW additive \in BOOLEAN,
         attr[s] # Unloaded, Install(s, a, additive)
  PROVE  EngineInv'
<1> DEFINE o == Original(s, additive)
           rec == Record(s, Kind(s), o)
<1>1. ~ Refused(s, a, additive)
  BY DEF Install
<1>2. Unrecorded(s)
  BY <1>1, AcceptedSlotIsUnrecorded
<1>3. \/ o = Missing /\ pristine[s] = Missing
      \/ o \in Attributes /\ o = Held(s)
  BY <1>1, OriginalIsHeld
<1>4. /\ mark' = [mark EXCEPT ![a.impl][s] = o]
      /\ attr' = [attr EXCEPT ![s] = Build(s, o, a)]
      /\ registry' = Append(registry, rec)
  BY DEF Install
<1>5. /\ pristine \in [Slots -> Attributes \cup {Missing, Unloaded}]
      /\ attr \in [Slots -> Attributes \cup {Missing, Unloaded}]
      /\ mark \in [Replacements -> [Slots -> Attributes \cup {Missing, Unset}]]
      /\ registry \in Seq(Records)
  BY DEF EngineInv, HeapTypeOK, Records
<1>6. a.impl \in Replacements /\ a \in Attributes
  BY DEF Decorated, Attributes, Kinds
<1>7. Build(s, o, a) \in Attributes /\ Build(s, o, a).impl = a.impl
  <2>1. CASE o = Missing \/ s \notin ClassSlots
    BY <2>1, <1>6 DEF Build
  <2>2. CASE o # Missing /\ s \in ClassSlots
    <3>1. o.kind \in Kinds /\ o.rest \in Upstream \cup {Nil}
      BY <2>2, <1>3 DEF Attributes
    <3>2. QED
      BY <2>2, <3>1, <1>6 DEF Build, Attributes
  <2>3. QED
    BY <2>1, <2>2
<1>8. rec \in Records
  BY DEF Record, Kind, Records
<1>9. /\ registry' \in Seq(Records)
      /\ \A i \in DOMAIN registry' :
           \/ i \in DOMAIN registry /\ registry'[i] = registry[i]
           \/ registry'[i] = rec
      /\ \A i \in DOMAIN registry : i \in DOMAIN registry' /\ registry'[i] = registry[i]
      /\ \E i \in DOMAIN registry' : registry'[i] = rec
  BY <1>4, <1>5, <1>8, AppendRecord
<1>10. HeapTypeOK'
  <2>1. attr' \in [Slots -> Attributes \cup {Missing, Unloaded}]
    BY <1>4, <1>5, <1>7
  <2>2. mark' \in [Replacements -> [Slots -> Attributes \cup {Missing, Unset}]]
    BY <1>3, <1>4, <1>5
  <2>3. QED
    BY <1>5, <1>9, <2>1, <2>2 DEF HeapTypeOK, Records
<1>11. PristineSound'
  BY DEF EngineInv, PristineSound, IsAlias
<1>12. \A t \in Slots : Held(t)' = Held(t)
  BY DEF Held
<1>13. /\ attr'[s] = Build(s, o, a)
       /\ mark'[a.impl][s] = o
       /\ \A t \in Slots \ {s} : attr'[t] = attr[t]
       /\ \A r \in Replacements, t \in Slots \ {s} : mark'[r][t] = mark[r][t]
  BY <1>4, <1>5, <1>6
<1>14. o # Unset
  BY <1>3, ObjectAssumption
<1>15. ASSUME NEW r, Marked(r)
       PROVE  r \in Replacements /\ \E u \in Slots : mark'[r][u] # Unset
  <2>1. PICK t \in Slots : mark[r][t] # Unset
    BY <1>15 DEF Marked
  <2>2. r \in Replacements
    BY <1>15 DEF Marked
  <2>3. mark'[r][t] # Unset
    BY <1>4, <1>5, <1>6, <1>14, <2>1, <2>2
  <2>4. QED
    BY <2>2, <2>3
<1>16. UnrecordedSound'
  <2> SUFFICES ASSUME NEW t \in Slots, Unrecorded(t)'
               PROVE  \/ attr'[t] = pristine[t]
                      \/ /\ pristine[t] = Unloaded
                         /\ attr'[t] \in Attributes
                         /\ \/ attr'[t] = Held(t)
                            \/ /\ attr'[t].impl \in Replacements
                               /\ \E u \in Slots : mark'[attr'[t].impl][u] # Unset
    BY <1>12 DEF UnrecordedSound, Marked
  <2>1. t # s
    BY <1>9 DEF Unrecorded, Record
  <2>2. Unrecorded(t)
    BY <1>9 DEF Unrecorded
  <2>3. \/ attr[t] = pristine[t]
        \/ /\ pristine[t] = Unloaded
           /\ attr[t] \in Attributes
           /\ attr[t] = Held(t) \/ Marked(attr[t].impl)
    BY <2>2 DEF EngineInv, UnrecordedSound
  <2>4. attr'[t] = attr[t]
    BY <2>1, <1>13
  <2>5. QED
    BY <2>3, <2>4, <1>15
<1>17. ASSUME NEW i \in DOMAIN registry' PROVE RecordSound(i)'
  <2>1. CASE i \in DOMAIN registry /\ registry'[i] = registry[i]
    <3> DEFINE t == registry[i].target
    <3>1. t \in Slots \ {s}
      <4>1. t \in Slots
        BY <1>5, <2>1, RecordAt
      <4>2. QED
        BY <4>1, <1>2, <2>1 DEF Unrecorded
    <3>2. RecordSound(i)
      BY <2>1 DEF EngineInv
    <3>3. attr'[t] = attr[t]
      BY <3>1, <1>13
    <3>4. t \notin DataSlots => mark'[attr[t].impl][t] = mark[attr[t].impl][t]
      BY <3>1, <3>2, <1>13 DEF RecordSound
    <3>5. QED
      BY <2>1, <3>1, <3>2, <3>3, <3>4 DEF RecordSound, Held
  <2>2. CASE registry'[i] = rec
    <3>1. /\ registry'[i].target = s
          /\ registry'[i].kind # "value"
          /\ registry'[i].was_missing <=> o = Missing
      <4>1. rec.target = s /\ rec.kind = Kind(s) /\ rec.was_missing = (o = Missing)
        BY DEF Record
      <4>2. Kind(s) # "value"
        BY DEF Kind
      <4>3. QED
        BY <4>1, <4>2, <2>2
    <3>2. attr'[s] \in Attributes /\ attr'[s].impl = a.impl
      BY <1>7, <1>13
    <3>3. o = Missing => pristine[s] = Missing
      BY <1>3, ObjectAssumption
    <3>4. o # Missing => o = Held(s)
      BY <1>3
    <3>5. QED
      BY <3>1, <3>2, <3>3, <3>4, <1>6, <1>13, <1>14 DEF RecordSound, Held
  <2>3. QED
    BY <2>1, <2>2, <1>9
<1>18. QED
  BY <1>10, <1>11, <1>16, <1>17 DEF EngineInv

\* Loading an alias copies a provider that is pristine or holds a replacement.
LEMMA LoadSound ==
  ASSUME EngineInv, UNCHANGED pristine, NEW s \in Slots, LoadAlias(s)
  PROVE  EngineInv'
<1>1. /\ attr[s] = Unloaded
      /\ attr' = [attr EXCEPT ![s] = attr[Source[s]]]
      /\ mark' = mark
      /\ registry' = registry
  BY DEF LoadAlias
<1>2. /\ pristine \in [Slots -> Attributes \cup {Missing, Unloaded}]
      /\ attr \in [Slots -> Attributes \cup {Missing, Unloaded}]
  BY DEF EngineInv, HeapTypeOK
<1>3. Unrecorded(s)
  <2> SUFFICES ASSUME NEW i \in DOMAIN registry, registry[i].target = s PROVE FALSE
    BY DEF Unrecorded
  <2>1. attr[s] \in Attributes
    BY DEF EngineInv, RecordSound
  <2>2. QED
    BY <2>1, <1>1, ObjectAssumption
<1>4. pristine[s] = Unloaded /\ IsAlias(s)
  <2>1. pristine[s] = Unloaded
    BY <1>1, <1>3, ObjectAssumption DEF EngineInv, UnrecordedSound
  <2>2. QED
    BY <2>1 DEF EngineInv, PristineSound
<1>5. /\ Source[s] \in Slots \ DataSlots
      /\ Source[s] # s
      /\ ~ IsAlias(Source[s])
  BY <1>4, SlotAssumption DEF IsAlias
<1>6. pristine[Source[s]] \in Attributes /\ Held(s) = pristine[Source[s]]
  BY <1>4 DEF EngineInv, PristineSound, Held
<1>7. /\ attr[Source[s]] \in Attributes
      /\ attr[Source[s]] = Held(s) \/ Marked(attr[Source[s]].impl)
  <2>1. CASE Unrecorded(Source[s])
    <3>1. pristine[Source[s]] # Unloaded
      BY <1>6, ObjectAssumption
    <3>2. attr[Source[s]] = pristine[Source[s]]
      BY <2>1, <1>5, <3>1 DEF EngineInv, UnrecordedSound
    <3>3. QED
      BY <1>6, <3>2
  <2>2. CASE ~ Unrecorded(Source[s])
    <3>1. PICK i \in DOMAIN registry : registry[i].target = Source[s]
      BY <2>2 DEF Unrecorded
    <3>2. RecordSound(i)
      BY DEF EngineInv
    <3>3. QED
      BY <3>1, <3>2, <1>5 DEF RecordSound, Marked
  <2>3. QED
    BY <2>1, <2>2
<1>8. HeapTypeOK'
  BY <1>1, <1>2, <1>7 DEF EngineInv, HeapTypeOK
<1>9. PristineSound'
  BY DEF EngineInv, PristineSound, IsAlias
<1>10. /\ attr'[s] = attr[Source[s]]
       /\ \A t \in Slots \ {s} : attr'[t] = attr[t]
  BY <1>1, <1>2
<1>11. UnrecordedSound'
  <2> SUFFICES ASSUME NEW t \in Slots, Unrecorded(t)
               PROVE  \/ attr'[t] = pristine[t]
                      \/ /\ pristine[t] = Unloaded
                         /\ attr'[t] \in Attributes
                         /\ attr'[t] = Held(t) \/ Marked(attr'[t].impl)
    BY <1>1 DEF UnrecordedSound, Unrecorded, Held, Marked
  <2>1. CASE t = s
    BY <2>1, <1>4, <1>7, <1>10
  <2>2. CASE t # s
    BY <2>2, <1>10 DEF EngineInv, UnrecordedSound
  <2>3. QED
    BY <2>1, <2>2
<1>12. ASSUME NEW i \in DOMAIN registry' PROVE RecordSound(i)'
  <2>1. RecordSound(i) /\ i \in DOMAIN registry
    BY <1>1 DEF EngineInv
  <2>2. registry[i].target \in Slots \ {s}
    <3>1. registry \in Seq(Records)
      BY DEF EngineInv, HeapTypeOK, Records
    <3>2. QED
      BY <3>1, <2>1, <1>3, RecordAt DEF Unrecorded
  <2>3. attr'[registry[i].target] = attr[registry[i].target]
    BY <2>2, <1>10
  <2>4. QED
    BY <1>1, <2>1, <2>2, <2>3 DEF RecordSound, Held
<1>13. QED
  BY <1>8, <1>9, <1>11, <1>12 DEF EngineInv

\* A value is installed in a slot of its own kind, or left alone.
LEMMA InstallValueSound ==
  ASSUME EngineInv, UNCHANGED pristine,
         NEW s \in DataSlots, NEW v \in Values, InstallValue(s, v)
  PROVE  EngineInv'
<1> DEFINE rec == Record(s, "value", Missing)
<1>1. mark' = mark /\ s \in Slots
  BY SlotAssumption DEF InstallValue
<1>2. CASE UNCHANGED << attr, registry >>
  <2>1. HeapTypeOK'
    BY <1>1, <1>2 DEF EngineInv, HeapTypeOK
  <2>2. PristineSound'
    BY DEF EngineInv, PristineSound, IsAlias
  <2>3. UnrecordedSound'
    BY <1>1, <1>2 DEF EngineInv, UnrecordedSound, Unrecorded, Held, Marked
  <2>4. (\A i \in DOMAIN registry : RecordSound(i))'
    BY <1>1, <1>2 DEF EngineInv, RecordSound, Held
  <2>5. QED
    BY <2>1, <2>2, <2>3, <2>4 DEF EngineInv
<1>3. CASE /\ attr' = [attr EXCEPT ![s] = Value(v)]
           /\ registry' = Append(registry, rec)
  <2>1. /\ pristine \in [Slots -> Attributes \cup {Missing, Unloaded}]
        /\ attr \in [Slots -> Attributes \cup {Missing, Unloaded}]
        /\ registry \in Seq(Records)
    BY DEF EngineInv, HeapTypeOK, Records
  <2>2. Value(v) \in Attributes
    BY DEF Value, Attributes, Kinds
  <2>3. rec \in Records /\ rec.target = s /\ rec.kind = "value"
    BY <1>1 DEF Record, Records
  <2>4. /\ registry' \in Seq(Records)
        /\ \A i \in DOMAIN registry' :
             \/ i \in DOMAIN registry /\ registry'[i] = registry[i]
             \/ registry'[i] = rec
        /\ \A i \in DOMAIN registry : i \in DOMAIN registry' /\ registry'[i] = registry[i]
        /\ \E i \in DOMAIN registry' : registry'[i] = rec
    BY <1>3, <2>1, <2>3, AppendRecord
  <2>5. /\ attr'[s] = Value(v)
        /\ \A t \in Slots \ {s} : attr'[t] = attr[t]
    BY <1>1, <1>3, <2>1
  <2>6. HeapTypeOK'
    <3>1. attr' \in [Slots -> Attributes \cup {Missing, Unloaded}]
      BY <1>3, <2>1, <2>2
    <3>2. QED
      BY <1>1, <2>4, <3>1 DEF EngineInv, HeapTypeOK, Records
  <2>7. PristineSound'
    BY DEF EngineInv, PristineSound, IsAlias
  <2>8. UnrecordedSound'
    <3> SUFFICES ASSUME NEW t \in Slots, Unrecorded(t)'
                 PROVE  \/ attr'[t] = pristine[t]
                        \/ /\ pristine[t] = Unloaded
                           /\ attr'[t] \in Attributes
                           /\ attr'[t] = Held(t) \/ Marked(attr'[t].impl)
      BY <1>1 DEF UnrecordedSound, Held, Marked
    <3>1. t # s /\ Unrecorded(t)
      BY <2>3, <2>4 DEF Unrecorded
    <3>2. attr'[t] = attr[t]
      BY <2>5, <3>1
    <3>3. QED
      BY <3>1, <3>2 DEF EngineInv, UnrecordedSound
  <2>9. ASSUME NEW i \in DOMAIN registry' PROVE RecordSound(i)'
    <3>1. CASE registry'[i].target = s
      <4>1. registry'[i].kind = "value"
        <5>1. CASE registry'[i] = rec
          BY <5>1, <2>3
        <5>2. CASE i \in DOMAIN registry /\ registry'[i] = registry[i]
          <6>1. RecordSound(i)
            BY <5>2 DEF EngineInv
          <6>2. QED
            BY <5>2, <6>1, <3>1 DEF RecordSound
        <5>3. QED
          BY <5>1, <5>2, <2>4
      <4>2. QED
        BY <3>1, <4>1, <2>2, <2>5 DEF RecordSound
    <3>2. CASE registry'[i].target # s
      <4>1. i \in DOMAIN registry /\ registry'[i] = registry[i]
        BY <3>2, <2>3, <2>4
      <4>2. registry[i].target \in Slots
        BY <4>1, <2>1, RecordAt
      <4>3. attr'[registry[i].target] = attr[registry[i].target]
        BY <3>2, <4>1, <4>2, <2>5
      <4>4. RecordSound(i)
        BY <4>1 DEF EngineInv
      <4>5. QED
        BY <1>1, <4>1, <4>3, <4>4 DEF RecordSound, Held
    <3>3. QED
      BY <3>1, <3>2
  <2>10. QED
    BY <2>6, <2>7, <2>8, <2>9 DEF EngineInv
<1>4. QED
  BY <1>2, <1>3 DEF InstallValue

--------------------------------------------------------------------------------
LEMMA NextSound == EngineInv /\ [Next]_vars => EngineInv'
<1> SUFFICES ASSUME EngineInv, [Next]_vars PROVE EngineInv'
  OBVIOUS
<1>1. CASE Next
  <2>1. ASSUME NEW s \in Slots \ DataSlots, NEW a \in Decorated, NEW additive \in BOOLEAN,
               attr[s] # Unloaded, Install(s, a, additive)
        PROVE  EngineInv'
    BY <1>1, <2>1, InstallSound DEF Next
  <2>2. ASSUME NEW s \in DataSlots, NEW v \in Values, InstallValue(s, v) PROVE EngineInv'
    BY <1>1, <2>2, InstallValueSound DEF Next
  <2>3. ASSUME NEW s \in Slots, LoadAlias(s) PROVE EngineInv'
    BY <1>1, <2>3, LoadSound DEF Next
  <2>4. QED
    BY <1>1, <2>1, <2>2, <2>3 DEF Next
<1>2. CASE UNCHANGED vars
  <2>1. /\ pristine' = pristine
        /\ attr' = attr
        /\ mark' = mark
        /\ registry' = registry
    BY <1>2 DEF vars
  <2>2. HeapTypeOK' /\ PristineSound'
    BY <2>1 DEF EngineInv, HeapTypeOK, PristineSound, IsAlias
  <2>3. UnrecordedSound'
    BY <2>1 DEF EngineInv, UnrecordedSound, Unrecorded, Held, Marked
  <2>4. (\A i \in DOMAIN registry : RecordSound(i))'
    BY <2>1 DEF EngineInv, RecordSound, Held
  <2>5. QED
    BY <2>2, <2>3, <2>4 DEF EngineInv
<1>3. QED
  BY <1>1, <1>2

\* Every patch that was ever accepted leads back to what it replaced, under any
\* sequence of @patch, patch_value and imports: the inductive invariant.
THEOREM EngineIsSound == Spec => []EngineInv
<1>1. Init => EngineInv
  BY InitSound
<1>2. EngineInv /\ [Next]_vars => EngineInv'
  BY NextSound
<1>3. QED
  BY <1>1, <1>2, PTL DEF Spec

\* Slots hold attributes, markers what was replaced, and PATCH_REGISTRY is a
\* sequence of records, for any slots and replacements.
THEOREM HeapTypeCorrect == Spec => []HeapTypeOK
<1>1. EngineInv => HeapTypeOK
  BY DEF EngineInv
<1>2. QED
  BY <1>1, EngineIsSound, PTL

\* original_of of utils.py never returns a replacement of the plugin, and returns
\* what a lookup found before any patch, for any slots and replacements.
THEOREM OriginalsAreKept == Spec => []OriginalsKept
<1>1. EngineInv => OriginalsKept
  <2> SUFFICES ASSUME EngineInv, NEW i \in DOMAIN registry, registry[i].kind # "value"
               PROVE  LET s == registry[i].target
                          o == mark[attr[s].impl][s]
                      IN  /\ attr[s].impl \in Replacements
                          /\ IF registry[i].was_missing
                             THEN o = Missing /\ pristine[s] = Missing
                             ELSE o = Held(s)
    BY DEF OriginalsKept
  <2>1. RecordSound(i)
    BY DEF EngineInv
  <2>2. QED
    BY <2>1 DEF RecordSound
<1>2. QED
  BY <1>1, EngineIsSound, PTL
================================================================================
