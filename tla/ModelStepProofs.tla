---------------------------- MODULE ModelStepProofs ----------------------------
(***************************************************************************)
(* Theorems about a step of the model in a worker.                         *)
(*                                                                         *)
(* The low-latency all-to-all, for any number of layers.  A combine takes  *)
(* the handle of its own dispatch because no step of the other micro-batch *)
(* writes it.  That nothing is read early depends on how the two take      *)
(* turns: Turns says who runs, how far each has come, and which transfer   *)
(* is still under way and with whom its hook was left.                     *)
(*                                                                         *)
(* The profiling ranges, for any number of iterations and any exceptions:  *)
(* the stack of NVTX is that of the calls.                                 *)
(*                                                                         *)
(* The kernels of linear attention, for any requests and settings: a layer *)
(* keeps to the choice of its construction, and the functions the plugin   *)
(* replaces choose within it.                                              *)
(*                                                                         *)
(* The tokens of linear attention, for any requests, prompts, drafts and   *)
(* orders of a step: the output of a token is the state of its request up  *)
(* to it.  What the slots hold depends on how far the step is: the drafts' *)
(* requests first have a state for each token, then the others their last; *)
(* and where a row is, in the step's buffer or in its part's, on what each *)
(* kernel was given to write to.                                           *)
(*                                                                         *)
(* The masked activation of the batched experts, for any sizes, rows and   *)
(* number of programs: what the second GEMM reads is the row's own value   *)
(* with the row's own scale, whatever order the programs run in.           *)
(*                                                                         *)
(* The compressed keys, for any number of requests, tokens and steps and   *)
(* any sizes of blocks: what attention reads of a request are the keys of  *)
(* its windows.  A row or a key that is missing, or of other tokens, is    *)
(* always one that a program of the step has still to write.               *)
(*                                                                         *)
(* The numbers of the caches, for any exponents, mantissas and entries: a  *)
(* byte is the E4M3 number nearest to what was stored, and a logit of the  *)
(* indexer is that of the vectors, to within their truncation.  A float's  *)
(* exponent says how many bits are cut; the rest is rounding to a multiple *)
(* of a power of two.                                                      *)
(***************************************************************************)
EXTENDS DeepEpLL, ProfilingRanges, RecurrentAttention, BatchedExperts, KeyCompressor,
        QuantizedKeys, FiniteSetTheorems, SequenceTheorems, TLAPS

--------------------------------------------------------------------------------
(* The low-latency all-to-all.                                                 *)

Steps     == {"attention", "dispatched", "experts", "combined", "done"}
Transfers == [kind : {"none", "dispatch", "combine"}, arrived : BOOLEAN, waited : Nat]

EpTypeOK ==
  /\ overlap \in BOOLEAN /\ sync \in BOOLEAN /\ recvHook \in BOOLEAN /\ nvfp4 \in BOOLEAN
  /\ overlap => ~ sync
  /\ quant \in QuantConfigs
  /\ running \in Batches
  /\ step \in [Batches -> Steps]
  /\ moeLayer \in [Batches -> 1 .. NumLayers]
  /\ handles \in [Batches -> {0, 1, NoBatch} \X Nat]
  /\ transfer \in [Batches -> Transfers]
  /\ leftHook \in [Batches -> {0, 1, NoBatch}]
  /\ used \in [Batches -> {0, 1, NoBatch} \X Nat]
  /\ experts \in [Batches -> {"nothing", "raw", "fp8", "int8", "mxfp4", "nvfp4", "twice"}]
  /\ readEarly \in BOOLEAN

\* The handle of a micro-batch is that of its dispatch until the next one, and what its
\* combine took.
HandlesAreOwn ==
  \A u \in Batches :
    /\ step[u] \in {"dispatched", "experts", "combined"} => handles[u] = << u, moeLayer[u] >>
    /\ step[u] = "combined" => used[u] = << u, moeLayer[u] >>

\* How far a micro-batch has come: two more for a layer, one more for a transfer.
Progress(u) ==
  CASE step[u] = "attention"               -> 2 * moeLayer[u]
    [] step[u] \in {"dispatched", "experts"} -> 2 * moeLayer[u] + 1
    [] OTHER                               -> 2 * moeLayer[u] + 2

Settled(u) == transfer[u].arrived /\ transfer[u].waited <= 1
Pending(u) == ~ transfer[u].arrived /\ transfer[u].waited = 0

\* Micro-batch u has just issued a transfer; its hook is left with the other, which runs.
Yielded(u) ==
  /\ running = Other(u)
  /\ step[u] \in {"dispatched", "combined"}
  /\ step[Other(u)] # "done"
  /\ leftHook[Other(u)] = u /\ leftHook[u] = NoBatch
  /\ Pending(u) /\ Settled(Other(u))

NothingLeft == \A u \in Batches : leftHook[u] = NoBatch /\ Settled(u)

\* The first runs ahead of the second by one transfer and waits for it to catch up.
Turns ==
  \/ /\ running = 0 /\ NothingLeft
     /\ \A u \in Batches : step[u] = "attention" /\ moeLayer[u] = 1
  \/ Yielded(0) /\ Progress(0) = Progress(1) + 1
  \/ Yielded(1) /\ Progress(0) = Progress(1)
  \/ /\ running = 1 /\ NothingLeft
     /\ step[0] = "done" /\ step[1] = "combined" /\ moeLayer[1] = NumLayers
  \/ NothingLeft /\ \A u \in Batches : step[u] = "done"

Alone ==
  /\ running = 0 /\ step[1] = "done"
  /\ leftHook[0] = NoBatch /\ Settled(0)

TurnsAreTaken ==
  /\ ~ readEarly
  /\ IF overlap THEN Turns ELSE Alone

EpInv == EpTypeOK /\ HandlesAreOwn /\ TurnsAreTaken

--------------------------------------------------------------------------------
\* The values of one micro-batch decide those of the other.
LEMMA TwoBatches ==
  /\ Other(0) = 1 /\ Other(1) = 0
  /\ \A u \in Batches : Other(u) \in Batches /\ Other(u) # u /\ u # NoBatch
  /\ \A u, v \in Batches : v = u \/ v = Other(u)
BY DEF Other, Batches, NoBatch

\* A hook that is run settles the transfer it belongs to, and touches no other.
LEMMA ReceivedType ==
  ASSUME EpTypeOK, NEW u \in Batches
  PROVE  /\ Received(u, transfer) \in [Batches -> Transfers]
         /\ \A v \in Batches :
              Received(u, transfer)[v] =
                IF leftHook[u] = v
                THEN [kind |-> transfer[v].kind, arrived |-> TRUE, waited |-> transfer[v].waited + 1]
                ELSE transfer[v]
<1>1. ASSUME NEW v \in Batches
      PROVE  transfer[v] \in Transfers
             /\ [kind |-> transfer[v].kind, arrived |-> TRUE, waited |-> transfer[v].waited + 1] \in Transfers
  BY <1>1 DEF EpTypeOK, Transfers
<1>2. QED
  BY <1>1 DEF Received

\* What is left after a transfer was issued whose completion goes to the other micro-batch.
LEMMA IssueLeavesHook ==
  ASSUME EpTypeOK, overlap, NEW u \in Batches, NEW kind \in {"dispatch", "combine"}, NEW atOnce,
         Issue(u, kind, atOnce, TRUE)
  PROVE  /\ transfer' \in [Batches -> Transfers]
         /\ transfer'[u] = [kind |-> kind, arrived |-> FALSE, waited |-> 0]
         /\ transfer'[Other(u)] = Received(u, transfer)[Other(u)]
         /\ leftHook' \in [Batches -> {0, 1, NoBatch}]
         /\ leftHook'[u] = NoBatch /\ leftHook'[Other(u)] = u
         /\ running' = IF step[Other(u)] = "done" THEN u ELSE Other(u)
<1>1. /\ transfer' = [Received(u, transfer) EXCEPT
                        ![u] = [kind |-> kind, arrived |-> FALSE, waited |-> 0]]
      /\ leftHook' = [leftHook EXCEPT ![u] = NoBatch, ![Other(u)] = u]
      /\ running' = IF step[Other(u)] = "done" THEN u ELSE Other(u)
  BY DEF Issue
<1>2. [kind |-> kind, arrived |-> FALSE, waited |-> 0] \in Transfers
  BY DEF Transfers
<1>3. QED
  BY <1>1, <1>2, ReceivedType, TwoBatches DEF EpTypeOK, Batches, NoBatch

\* And alone: the transfer arrives in the call, by itself or by its completion.
LEMMA IssueAlone ==
  ASSUME EpTypeOK, ~ overlap, NEW u \in Batches, NEW kind \in {"dispatch", "combine"},
         NEW atOnce \in BOOLEAN, NEW given \in BOOLEAN,
         Issue(u, kind, atOnce, given)
  PROVE  /\ transfer' \in [Batches -> Transfers]
         /\ transfer'[u] = [kind |-> kind, arrived |-> atOnce \/ given,
                            waited |-> IF atOnce \/ given THEN 1 ELSE 0]
         /\ transfer'[Other(u)] = Received(u, transfer)[Other(u)]
         /\ leftHook' = [leftHook EXCEPT ![u] = NoBatch]
         /\ running' = running
<1>1. /\ transfer' = [Received(u, transfer) EXCEPT
                        ![u] = [kind |-> kind, arrived |-> atOnce \/ given,
                                waited |-> IF atOnce \/ given THEN 1 ELSE 0]]
      /\ leftHook' = [leftHook EXCEPT ![u] = NoBatch]
      /\ running' = running
  BY DEF Issue
<1>2. [kind |-> kind, arrived |-> atOnce \/ given,
       waited |-> IF atOnce \/ given THEN 1 ELSE 0] \in Transfers
  BY DEF Transfers
<1>3. QED
  BY <1>1, <1>2, ReceivedType, TwoBatches DEF EpTypeOK

--------------------------------------------------------------------------------
LEMMA EpInvInit == EpInit => EpInv
<1> SUFFICES ASSUME EpInit PROVE EpInv
  OBVIOUS
<1>1. None \in Transfers
  BY DEF None, Transfers
<1>2. NumLayers \in Nat /\ 1 \in 1 .. NumLayers
  BY DeepEpAssumption
<1>3. EpTypeOK
  <2>1. handles \in [Batches -> {0, 1, NoBatch} \X Nat] /\ used \in [Batches -> {0, 1, NoBatch} \X Nat]
    BY DEF EpInit, Batches
  <2>2. step \in [Batches -> Steps] /\ running \in Batches
    BY DEF EpInit, Batches, Steps
  <2>3. transfer \in [Batches -> Transfers] /\ moeLayer \in [Batches -> 1 .. NumLayers]
    BY <1>1, <1>2 DEF EpInit
  <2>4. QED
    BY <2>1, <2>2, <2>3 DEF EpInit, EpTypeOK
<1>4. HandlesAreOwn
  BY DEF EpInit, HandlesAreOwn
<1>5. \A u \in Batches : Settled(u)
  BY DEF EpInit, Settled, None
<1>6. TurnsAreTaken
  <2>1. CASE overlap
    BY <1>5, <2>1 DEF EpInit, TurnsAreTaken, Turns, NothingLeft, Active
  <2>2. CASE ~ overlap
    BY <1>5, <2>2 DEF EpInit, TurnsAreTaken, Alone, Active, Batches
  <2>3. QED
    BY <2>1, <2>2
<1>7. QED
  BY <1>3, <1>4, <1>6 DEF EpInv

\* A transfer with its completion left to the other: the turn passes to it.
LEMMA IssueTurns ==
  ASSUME EpTypeOK, overlap, Turns, NEW u \in Batches, running = u,
         step[u] \in {"attention", "experts"},
         NEW kind \in {"dispatch", "combine"}, NEW atOnce, Issue(u, kind, atOnce, TRUE),
         step' = [step EXCEPT ![u] = IF step[u] = "attention" THEN "dispatched" ELSE "combined"],
         moeLayer' = moeLayer
  PROVE  Turns'
<1> DEFINE v == Other(u)
<1>1. /\ v \in Batches /\ v # u /\ u # NoBatch /\ v # NoBatch /\ Other(v) = u
      /\ \A x \in Batches : x = u \/ x = v
  BY TwoBatches DEF Batches, NoBatch, Other
<1>2. step'[u] \in {"dispatched", "combined"} /\ step'[v] = step[v]
  BY <1>1 DEF EpTypeOK
<1>3. Progress(u)' = Progress(u) + 1 /\ Progress(v)' = Progress(v)
  <2>1. moeLayer[u] \in Nat /\ moeLayer[v] \in Nat
    BY <1>1, DeepEpAssumption DEF EpTypeOK
  <2>2. step'[u] = IF step[u] = "attention" THEN "dispatched" ELSE "combined"
    BY DEF EpTypeOK
  <2>3. QED
    BY <1>2, <2>1, <2>2 DEF Progress
<1>4. step[v] # "done" /\ leftHook[u] # u
      /\ (leftHook[u] = v => Pending(v)) /\ (leftHook[u] # v => Settled(v))
  BY <1>1, TwoBatches DEF Turns, Yielded, NothingLeft, Batches
<1>5. Settled(v)'
  <2>1. transfer'[v] = IF leftHook[u] = v
                       THEN [kind |-> transfer[v].kind, arrived |-> TRUE,
                             waited |-> transfer[v].waited + 1]
                       ELSE transfer[v]
    <3>1. transfer'[v] = Received(u, transfer)[v]
      BY IssueLeavesHook
    <3>2. QED
      BY <1>1, <3>1, ReceivedType
  <2>2. QED
    BY <1>4, <2>1 DEF Settled, Pending
<1>6. Yielded(u)'
  <2>1. transfer'[u] = [kind |-> kind, arrived |-> FALSE, waited |-> 0]
        /\ leftHook'[u] = NoBatch /\ leftHook'[v] = u /\ running' = v
    BY <1>4, IssueLeavesHook
  <2>2. Pending(u)'
    BY <2>1 DEF Pending
  <2>3. QED
    BY <1>2, <1>4, <1>5, <2>1, <2>2 DEF Yielded
<1>7. CASE u = 0
  <2>1. v = 1 /\ Progress(0) = Progress(1)
    <3>1. CASE \A x \in Batches : step[x] = "attention" /\ moeLayer[x] = 1
      BY <1>7, <3>1 DEF Progress, Batches, Other
    <3>2. CASE Yielded(1) /\ Progress(0) = Progress(1)
      BY <1>7, <3>2 DEF Other
    <3>3. QED
      BY <1>7, <3>1, <3>2, TwoBatches DEF Turns, Yielded, Batches
  <2>2. Yielded(0)' /\ Progress(0)' = Progress(1)' + 1
    BY <1>3, <1>6, <1>7, <2>1
  <2>3. QED
    BY <2>2 DEF Turns
<1>8. CASE u = 1
  <2>1. v = 0 /\ Progress(0) = Progress(1) + 1
    BY <1>8, TwoBatches DEF Turns, Yielded, Batches
  <2>2. Progress(1) \in Nat
    BY <1>8, DeepEpAssumption DEF EpTypeOK, Progress, Batches
  <2>3. Yielded(1)' /\ Progress(0)' = Progress(1)'
    BY <1>3, <1>6, <1>8, <2>1, <2>2
  <2>4. QED
    BY <2>3 DEF Turns
<1>9. QED
  BY <1>7, <1>8 DEF Batches

\* The steps that issue nothing keep the turn, but for the end of a pass.
LEMMA ReceiveTurns ==
  ASSUME EpTypeOK, overlap, Turns, NEW u \in Batches, Receive(u)
  PROVE  Turns' /\ transfer[u].arrived
<1>1. /\ running = u /\ step[u] = "dispatched"
      /\ step' = [step EXCEPT ![u] = "experts"]
      /\ UNCHANGED << running, moeLayer, transfer, leftHook >>
  BY DEF Receive
<1>2. /\ Other(u) \in Batches /\ Other(u) # u
      /\ step'[u] = "experts" /\ step'[Other(u)] = step[Other(u)]
  BY <1>1, TwoBatches DEF EpTypeOK
<1>3. \A v \in Batches : Progress(v)' = Progress(v)
  BY <1>1, <1>2, TwoBatches DEF Progress
<1>4. Yielded(Other(u)) /\ Other(Other(u)) = u
  BY <1>1, TwoBatches DEF Turns, Yielded, Batches
<1>5. Yielded(Other(u))'
  BY <1>1, <1>2, <1>4 DEF Yielded, Settled, Pending
<1>6. transfer[u].arrived
  BY <1>4 DEF Yielded, Settled
<1>7. CASE u = 0
  <2>1. Yielded(1)' /\ Progress(0) = Progress(1)
    BY <1>1, <1>5, <1>7, TwoBatches DEF Turns, Yielded, Batches
  <2>2. QED
    BY <1>3, <1>6, <2>1 DEF Turns, Batches
<1>8. CASE u = 1
  <2>1. Yielded(0)' /\ Progress(0) = Progress(1) + 1
    BY <1>1, <1>5, <1>8, TwoBatches DEF Turns, Yielded, Batches
  <2>2. QED
    BY <1>3, <1>6, <2>1 DEF Turns, Batches
<1>9. QED
  BY <1>7, <1>8 DEF Batches

LEMMA AdvanceTurns ==
  ASSUME EpTypeOK, overlap, Turns, NEW u \in Batches, Advance(u)
  PROVE  Turns' /\ transfer[u].arrived
<1> DEFINE v == Other(u)
<1>1. /\ running = u /\ step[u] = "combined"
      /\ v \in Batches /\ v # u /\ Other(v) = u /\ u # NoBatch /\ v # NoBatch
      /\ \A x \in Batches : x = u \/ x = v
  BY TwoBatches DEF Advance, Batches, Other, NoBatch
<1>2. /\ moeLayer[u] \in 1 .. NumLayers /\ moeLayer[v] \in 1 .. NumLayers
      /\ NumLayers \in Nat
  BY <1>1, DeepEpAssumption DEF EpTypeOK
<1>3. CASE Yielded(v)
  <2>1. transfer[u].arrived
    BY <1>1, <1>3 DEF Yielded, Settled
  <2>2. CASE moeLayer[u] < NumLayers
    <3>1. /\ moeLayer' = [moeLayer EXCEPT ![u] = @ + 1]
          /\ step' = [step EXCEPT ![u] = "attention"]
          /\ UNCHANGED << transfer, leftHook, running >>
      BY <2>2 DEF Advance
    <3>2. /\ step'[u] = "attention" /\ step'[v] = step[v]
          /\ moeLayer'[u] = moeLayer[u] + 1 /\ moeLayer'[v] = moeLayer[v]
      BY <1>1, <3>1 DEF EpTypeOK
    <3>3. Progress(u)' = Progress(u) /\ Progress(v)' = Progress(v)
      BY <1>1, <1>2, <3>2 DEF Progress
    <3>4. Yielded(v)'
      BY <1>1, <1>3, <3>1, <3>2 DEF Yielded, Settled, Pending
    <3>5. \/ u = 0 /\ v = 1 /\ Progress(0) = Progress(1)
          \/ u = 1 /\ v = 0 /\ Progress(0) = Progress(1) + 1
      BY <1>1, <1>3, TwoBatches DEF Turns, Yielded, Batches
    <3>6. QED
      BY <2>1, <3>3, <3>4, <3>5 DEF Turns
  <2>3. CASE ~ moeLayer[u] < NumLayers
    <3>1. /\ step' = [step EXCEPT ![u] = "done"]
          /\ transfer' = Received(u, transfer)
          /\ leftHook' = [leftHook EXCEPT ![u] = NoBatch]
          /\ running' = v /\ moeLayer' = moeLayer
      BY <2>3 DEF Advance
    <3>2. moeLayer[u] = NumLayers /\ Progress(u) = 2 * NumLayers + 2
      BY <1>1, <1>2, <2>3 DEF Progress
    <3>3. Progress(v) <= 2 * NumLayers + 2
      BY <1>2 DEF Progress
    <3>4. u = 0 /\ v = 1 /\ Progress(0) = Progress(1)
      <4>1. CASE u = 1
        <5>1. v = 0 /\ Progress(0) = Progress(1) + 1
          BY <1>1, <1>3, <4>1, TwoBatches DEF Turns, Yielded, Batches
        <5>2. QED
          BY <1>2, <3>2, <3>3, <4>1, <5>1
      <4>2. CASE u = 0
        BY <1>1, <1>3, <4>2, TwoBatches DEF Turns, Yielded, Batches
      <4>3. QED
        BY <4>1, <4>2 DEF Batches
    <3>5. step[1] = "combined" /\ moeLayer[1] = NumLayers
      BY <1>2, <1>3, <3>2, <3>4 DEF Progress, Yielded
    <3>6. step'[0] = "done" /\ step'[1] = "combined" /\ moeLayer'[1] = NumLayers /\ running' = 1
      BY <1>1, <3>1, <3>4, <3>5 DEF EpTypeOK
    <3>7. \A x \in Batches : leftHook'[x] = NoBatch
      BY <1>1, <1>3, <3>1 DEF Yielded, EpTypeOK
    <3>8. Settled(u)'
      <4>1. transfer'[u] = transfer[u]
        <5>1. leftHook[u] # u
          BY <1>1, <1>3 DEF Yielded
        <5>2. QED
          BY <3>1, <5>1, ReceivedType
      <4>2. QED
        BY <1>1, <1>3, <4>1 DEF Yielded, Settled
    <3>9. Settled(v)'
      <4>1. transfer'[v] = [kind |-> transfer[v].kind, arrived |-> TRUE,
                            waited |-> transfer[v].waited + 1]
        BY <1>1, <1>3, <3>1, ReceivedType DEF Yielded
      <4>2. QED
        BY <1>3, <4>1 DEF Yielded, Pending, Settled
    <3>10. QED
      BY <1>1, <2>1, <3>6, <3>7, <3>8, <3>9 DEF Turns, NothingLeft
  <2>4. QED
    BY <2>2, <2>3
<1>4. CASE /\ running = 1 /\ NothingLeft
           /\ step[0] = "done" /\ step[1] = "combined" /\ moeLayer[1] = NumLayers
  <2>1. u = 1 /\ v = 0
    BY <1>1, <1>4, TwoBatches
  <2>2. /\ step' = [step EXCEPT ![u] = "done"]
        /\ transfer' = Received(u, transfer)
        /\ leftHook' = [leftHook EXCEPT ![u] = NoBatch]
    BY <1>2, <1>4, <2>1 DEF Advance
  <2>3. \A x \in Batches : transfer'[x] = transfer[x]
    BY <1>1, <1>4, <2>2, ReceivedType, ZenonT(40) DEF NothingLeft
  <2>4. NothingLeft'
    BY <1>4, <2>2, <2>3 DEF NothingLeft, Settled, EpTypeOK
  <2>5. \A x \in Batches : step'[x] = "done"
    BY <1>1, <1>4, <2>1, <2>2 DEF EpTypeOK
  <2>6. transfer[u].arrived
    BY <1>4 DEF NothingLeft, Settled
  <2>7. QED
    BY <2>4, <2>5, <2>6 DEF Turns
<1>5. QED
  BY <1>1, <1>3, <1>4, TwoBatches DEF Turns, Yielded, Batches

\* Without overlap a transfer has arrived when the call that issued it returns.
LEMMA AloneStep ==
  ASSUME EpTypeOK, ~ overlap, Alone, NEW u \in Batches,
         Prepare(u) \/ Receive(u) \/ Finalize(u) \/ Advance(u)
  PROVE  Alone' /\ transfer[u].arrived
<1>1. u = 0 /\ 0 \in Batches /\ 1 \in Batches /\ transfer[u].arrived
  BY DEF Prepare, Receive, Finalize, Advance, Alone, Settled, Batches
<1>2. ASSUME NEW kind \in {"dispatch", "combine"}, NEW atOnce \in BOOLEAN, NEW given \in BOOLEAN,
             atOnce \/ given, Issue(u, kind, atOnce, given)
      PROVE  running' = 0 /\ leftHook'[0] = NoBatch /\ Settled(0)'
  <2>1. /\ transfer'[u] = [kind |-> kind, arrived |-> atOnce \/ given,
                           waited |-> IF atOnce \/ given THEN 1 ELSE 0]
        /\ leftHook' = [leftHook EXCEPT ![u] = NoBatch]
        /\ running' = running
    BY <1>2, IssueAlone
  <2>2. Settled(0)'
    BY <1>1, <1>2, <2>1 DEF Settled
  <2>3. QED
    BY <1>1, <2>1, <2>2 DEF Alone, EpTypeOK
<1>3. CASE Prepare(u)
  <2>1. Issue(u, "dispatch", FALSE, TRUE) /\ step' = [step EXCEPT ![u] = "dispatched"]
    BY <1>3 DEF Prepare
  <2>2. step'[1] = "done"
    BY <1>1, <2>1 DEF Alone, EpTypeOK
  <2>3. running' = 0 /\ leftHook'[0] = NoBatch /\ Settled(0)'
    BY <1>2, <2>1
  <2>4. QED
    BY <1>1, <2>2, <2>3 DEF Alone
<1>4. CASE Receive(u)
  BY <1>1, <1>4 DEF Receive, Alone, Settled, EpTypeOK
<1>5. CASE Finalize(u)
  <2>1. /\ Issue(u, "combine", ~ DoRecvHook /\ ~ AsyncFinish, Completion)
        /\ step' = [step EXCEPT ![u] = "combined"]
    BY <1>5 DEF Finalize
  <2>2. (~ DoRecvHook /\ ~ AsyncFinish) \/ Completion
    BY DEF AsyncFinish, Completion, DoRecvHook, AsyncPath, EpTypeOK
  <2>3. (~ DoRecvHook /\ ~ AsyncFinish) \in BOOLEAN /\ Completion \in BOOLEAN
    BY DEF Completion
  <2>4. step'[1] = "done"
    BY <1>1, <2>1 DEF Alone, EpTypeOK
  <2>5. running' = 0 /\ leftHook'[0] = NoBatch /\ Settled(0)'
    BY <1>2, <2>1, <2>2, <2>3
  <2>6. QED
    BY <1>1, <2>4, <2>5 DEF Alone
<1>6. CASE Advance(u)
  <2>1. step'[1] = "done" /\ running' = 0 /\ leftHook'[0] = NoBatch
    BY <1>1, <1>6 DEF Advance, Alone, EpTypeOK
  <2>2. transfer'[0] = transfer[0]
    <3>1. leftHook[0] # 0
      BY DEF Alone, NoBatch
    <3>2. transfer' = transfer \/ transfer' = Received(u, transfer)
      BY <1>6 DEF Advance
    <3>3. Received(u, transfer)[0] = transfer[0]
      BY <1>1, <3>1, ReceivedType
    <3>4. QED
      BY <3>2, <3>3
  <2>3. QED
    BY <1>1, <2>1, <2>2 DEF Alone, Settled
<1>7. QED
  BY <1>3, <1>4, <1>5, <1>6

--------------------------------------------------------------------------------
LEMMA IssueType ==
  ASSUME EpTypeOK, NEW u \in Batches, NEW kind \in {"dispatch", "combine"},
         NEW atOnce \in BOOLEAN, NEW given \in BOOLEAN, Issue(u, kind, atOnce, given)
  PROVE  /\ transfer' \in [Batches -> Transfers]
         /\ leftHook' \in [Batches -> {0, 1, NoBatch}]
         /\ running' \in Batches
<1> DEFINE mine(received) == [kind |-> kind, arrived |-> received, waited |-> IF received THEN 1 ELSE 0]
<1>1. \A received \in BOOLEAN : mine(received) \in Transfers
  BY DEF Transfers
<1>2. \E received \in BOOLEAN : transfer' = [Received(u, transfer) EXCEPT ![u] = mine(received)]
  BY DEF Issue
<1>3. transfer' \in [Batches -> Transfers]
  BY <1>1, <1>2, ReceivedType
<1>4. /\ \/ leftHook' = [leftHook EXCEPT ![u] = NoBatch, ![Other(u)] = u]
         \/ leftHook' = [leftHook EXCEPT ![u] = NoBatch]
      /\ running' \in {running, u, Other(u)}
  BY DEF Issue
<1>5. QED
  BY <1>3, <1>4, TwoBatches DEF EpTypeOK, Batches

LEMMA EpTypeStep == ASSUME EpTypeOK, EpNext PROVE EpTypeOK'
<1> PICK u \in Batches : Prepare(u) \/ Receive(u) \/ Finalize(u) \/ Advance(u)
  BY DEF EpNext
<1>1. UNCHANGED << overlap, sync, recvHook, nvfp4, quant >>
  BY DEF Prepare, Receive, Finalize, Advance
<1>2. moeLayer[u] \in Nat /\ NumLayers \in Nat /\ u \in {0, 1, NoBatch}
  BY DeepEpAssumption DEF EpTypeOK, Batches
<1>3. CASE Prepare(u)
  <2>1. /\ transfer' \in [Batches -> Transfers]
        /\ leftHook' \in [Batches -> {0, 1, NoBatch}]
        /\ running' \in Batches
    BY <1>3, IssueType DEF Prepare
  <2>2. handles' \in [Batches -> {0, 1, NoBatch} \X Nat]
    BY <1>2, <1>3 DEF Prepare, EpTypeOK
  <2>3. step' \in [Batches -> Steps]
    BY <1>3 DEF Prepare, EpTypeOK, Steps
  <2>4. UNCHANGED << moeLayer, used, experts, readEarly >>
    BY <1>3 DEF Prepare
  <2>5. QED
    BY <1>1, <2>1, <2>2, <2>3, <2>4 DEF EpTypeOK
<1>4. CASE Receive(u)
  <2>1. DoQuant(Dispatched) \in {"nothing", "raw", "fp8", "int8", "mxfp4", "nvfp4", "twice"}
    BY DEF DoQuant, Dispatched, Quantize, EpTypeOK, QuantConfigs
  <2>2. step' \in [Batches -> Steps] /\ readEarly' \in BOOLEAN
    BY <1>4 DEF Receive, EpTypeOK, Steps
  <2>3. experts' \in [Batches -> {"nothing", "raw", "fp8", "int8", "mxfp4", "nvfp4", "twice"}]
    BY <1>4, <2>1 DEF Receive, EpTypeOK
  <2>4. UNCHANGED << running, moeLayer, handles, transfer, leftHook, used >>
    BY <1>4 DEF Receive
  <2>5. QED
    BY <1>1, <2>2, <2>3, <2>4 DEF EpTypeOK
<1>5. CASE Finalize(u)
  <2>1. /\ transfer' \in [Batches -> Transfers]
        /\ leftHook' \in [Batches -> {0, 1, NoBatch}]
        /\ running' \in Batches
    <3>1. (~ DoRecvHook /\ ~ AsyncFinish) \in BOOLEAN /\ Completion \in BOOLEAN
      BY DEF Completion
    <3>2. Issue(u, "combine", ~ DoRecvHook /\ ~ AsyncFinish, Completion)
      BY <1>5 DEF Finalize
    <3>3. QED
      BY <3>1, <3>2, IssueType
  <2>2. used' \in [Batches -> {0, 1, NoBatch} \X Nat]
    BY <1>5 DEF Finalize, EpTypeOK
  <2>3. step' \in [Batches -> Steps]
    BY <1>5 DEF Finalize, EpTypeOK, Steps
  <2>4. UNCHANGED << moeLayer, handles, experts, readEarly >>
    BY <1>5 DEF Finalize
  <2>5. QED
    BY <1>1, <2>1, <2>2, <2>3, <2>4 DEF EpTypeOK
<1>6. CASE Advance(u)
  <2>1. step' \in [Batches -> Steps] /\ readEarly' \in BOOLEAN
    BY <1>6 DEF Advance, EpTypeOK, Steps
  <2>2. moeLayer' \in [Batches -> 1 .. NumLayers]
    <3>1. moeLayer[u] < NumLayers => moeLayer[u] + 1 \in 1 .. NumLayers
      BY <1>2 DEF EpTypeOK
    <3>2. QED
      BY <1>6, <3>1 DEF Advance, EpTypeOK
  <2>3. /\ transfer' \in [Batches -> Transfers]
        /\ leftHook' \in [Batches -> {0, 1, NoBatch}]
        /\ running' \in Batches
    BY <1>6, ReceivedType, TwoBatches DEF Advance, EpTypeOK
  <2>4. UNCHANGED << handles, used, experts >>
    BY <1>6 DEF Advance
  <2>5. QED
    BY <1>1, <2>1, <2>2, <2>3, <2>4 DEF EpTypeOK
<1>7. QED
  BY <1>3, <1>4, <1>5, <1>6

LEMMA HandlesStep == ASSUME EpTypeOK, HandlesAreOwn, EpNext PROVE HandlesAreOwn'
<1> PICK u \in Batches : Prepare(u) \/ Receive(u) \/ Finalize(u) \/ Advance(u)
  BY DEF EpNext
<1> SUFFICES ASSUME NEW v \in Batches
             PROVE  /\ step'[v] \in {"dispatched", "experts", "combined"} =>
                          handles'[v] = << v, moeLayer'[v] >>
                    /\ step'[v] = "combined" => used'[v] = << v, moeLayer'[v] >>
  BY DEF HandlesAreOwn
<1>1. CASE Prepare(u)
  BY <1>1 DEF Prepare, HandlesAreOwn, EpTypeOK
<1>2. CASE Receive(u)
  BY <1>2 DEF Receive, HandlesAreOwn, EpTypeOK
<1>3. CASE Finalize(u)
  BY <1>3 DEF Finalize, HandlesAreOwn, EpTypeOK
<1>4. CASE Advance(u)
  BY <1>4 DEF Advance, HandlesAreOwn, EpTypeOK
<1>5. QED
  BY <1>1, <1>2, <1>3, <1>4

LEMMA TurnsStep == ASSUME EpTypeOK, TurnsAreTaken, EpNext PROVE TurnsAreTaken'
<1> PICK u \in Batches : Prepare(u) \/ Receive(u) \/ Finalize(u) \/ Advance(u)
  BY DEF EpNext
<1>1. overlap' = overlap
  BY DEF Prepare, Receive, Finalize, Advance
<1>2. CASE overlap
  <2>1. Turns /\ ~ readEarly
    BY <1>2 DEF TurnsAreTaken
  <2>2. Turns' /\ (Receive(u) \/ Advance(u) => transfer[u].arrived)
    <3>1. CASE Prepare(u)
      <4>1. /\ running = u /\ step[u] = "attention"
            /\ Issue(u, "dispatch", FALSE, TRUE) /\ moeLayer' = moeLayer
            /\ step' = [step EXCEPT ![u] = "dispatched"]
        BY <3>1 DEF Prepare
      <4>2. Turns'
        BY <1>2, <2>1, <4>1, IssueTurns
      <4>3. ~ Receive(u) /\ ~ Advance(u)
        BY <4>1 DEF Receive, Advance
      <4>4. QED
        BY <4>2, <4>3
    <3>2. CASE Finalize(u)
      <4>1. /\ running = u /\ step[u] = "experts" /\ moeLayer' = moeLayer
            /\ Issue(u, "combine", ~ DoRecvHook /\ ~ AsyncFinish, Completion)
            /\ step' = [step EXCEPT ![u] = "combined"]
        BY <3>2 DEF Finalize
      <4>2. Completion = TRUE
        BY <1>2 DEF Completion, AsyncFinish, DoRecvHook, AsyncPath, EpTypeOK
      <4>3. Turns'
        BY <1>2, <2>1, <4>1, <4>2, IssueTurns
      <4>4. ~ Receive(u) /\ ~ Advance(u)
        BY <4>1 DEF Receive, Advance
      <4>5. QED
        BY <4>3, <4>4
    <3>3. CASE Receive(u)
      BY <1>2, <2>1, <3>3, ReceiveTurns
    <3>4. CASE Advance(u)
      BY <1>2, <2>1, <3>4, AdvanceTurns
    <3>5. QED
      BY <3>1, <3>2, <3>3, <3>4
  <2>3. ~ readEarly'
    BY <2>1, <2>2 DEF Prepare, Receive, Finalize, Advance
  <2>4. QED
    BY <1>1, <1>2, <2>2, <2>3 DEF TurnsAreTaken
<1>3. CASE ~ overlap
  <2>1. Alone /\ ~ readEarly
    BY <1>3 DEF TurnsAreTaken
  <2>2. Alone' /\ transfer[u].arrived
    BY <1>3, <2>1, AloneStep
  <2>3. ~ readEarly'
    BY <2>1, <2>2 DEF Prepare, Receive, Finalize, Advance
  <2>4. QED
    BY <1>1, <1>3, <2>2, <2>3 DEF TurnsAreTaken
<1>4. QED
  BY <1>2, <1>3

LEMMA EpInvStutter == ASSUME EpInv, UNCHANGED epVars PROVE EpInv'
<1> USE DEF epVars
<1>1. EpTypeOK'
  BY DEF EpInv, EpTypeOK
<1>2. HandlesAreOwn'
  BY DEF EpInv, HandlesAreOwn
<1>3. TurnsAreTaken'
  BY DEF EpInv, TurnsAreTaken, Turns, Alone, Yielded, NothingLeft, Settled, Pending, Progress
<1>4. QED
  BY <1>1, <1>2, <1>3 DEF EpInv

\* The inductive invariant: types, handles, and the turns of the two micro-batches.
THEOREM ExchangeIsSound == EpSpec => []EpInv
<1>1. EpInv /\ [EpNext]_epVars => EpInv'
  BY EpTypeStep, HandlesStep, TurnsStep, EpInvStutter DEF EpInv
<1>2. QED
  BY EpInvInit, <1>1, PTL DEF EpSpec

--------------------------------------------------------------------------------
\* A combine returns the tokens of its own dispatch in its own layer, for any number of
\* layers and whatever the other micro-batch did in between (self.handles).
THEOREM CombinesMatch == EpSpec => []CombineMatchesDispatch
<1>1. EpInv => CombineMatchesDispatch
  BY DEF EpInv, HandlesAreOwn, CombineMatchesDispatch, Active, Batches
<1>2. QED
  BY ExchangeIsSound, <1>1, PTL

\* No tensor is read before its hook ran or its event was waited on, no completion is
\* waited for twice, and none is left at the end of a pass.
THEOREM EveryTransferIsAwaited == EpSpec => []TransfersAreAwaited
<1>1. EpInv => TransfersAreAwaited
  <2> SUFFICES ASSUME EpInv PROVE TransfersAreAwaited
    OBVIOUS
  <2>1. CASE overlap
    <3>1. Turns /\ ~ readEarly /\ Active = Batches
      BY <2>1 DEF EpInv, TurnsAreTaken, Active
    <3>2. \A u \in Batches : transfer[u].waited <= 1
      <4>1. NothingLeft \/ \E v \in Batches : Pending(v) /\ Settled(Other(v))
        BY <3>1 DEF Turns, Yielded, Batches
      <4>2. \A u \in Batches : Pending(u) \/ Settled(u)
        BY <4>1, TwoBatches DEF NothingLeft
      <4>3. QED
        BY <4>2 DEF Pending, Settled
    <3>3. (\A u \in Batches : step[u] = "done") => NothingLeft
      BY <3>1 DEF Turns, Yielded, Batches
    <3>4. QED
      BY <3>1, <3>2, <3>3 DEF TransfersAreAwaited, NothingLeft, Settled
  <2>2. CASE ~ overlap
    BY <2>2 DEF EpInv, TurnsAreTaken, Alone, Active, Settled, TransfersAreAwaited
  <2>3. QED
    BY <2>1, <2>2
<1>2. QED
  BY ExchangeIsSound, <1>1, PTL

--------------------------------------------------------------------------------
\* What the experts are given is what the kernel sent after what the receiver did.
GivenToExperts ==
  \A u \in Batches : step[u] = "experts" => experts[u] = DoQuant(Dispatched)

\* Dispatch and receiver quantize once between them, for every configuration.
LEMMA OneQuantization ==
  ASSUME EpTypeOK
  PROVE  DoQuant(Dispatched) = IF quant.dtype = "none" \/ (quant.dtype = "nvfp4" /\ ~ nvfp4)
                               THEN "raw" ELSE quant.dtype
<1>1. quant.dtype \in {"none", "fp8", "int8", "mxfp4", "nvfp4"}
  BY DEF EpTypeOK, QuantConfigs
<1>2. CASE quant.dtype = "none"
  BY <1>2 DEF DoQuant, Dispatched, Quantize, UseFp8, UseInt8, UseMxfp4
<1>3. CASE quant.dtype = "fp8"
  BY <1>3 DEF DoQuant, Dispatched, Quantize, UseFp8, UseInt8, UseMxfp4
<1>4. CASE quant.dtype = "int8"
  BY <1>4 DEF DoQuant, Dispatched, Quantize, UseFp8, UseInt8, UseMxfp4
<1>5. CASE quant.dtype = "mxfp4"
  BY <1>5 DEF DoQuant, Dispatched, Quantize, UseFp8, UseInt8, UseMxfp4
<1>6. CASE quant.dtype = "nvfp4"
  BY <1>6 DEF DoQuant, Dispatched, Quantize, UseFp8, UseInt8, UseMxfp4
<1>7. QED
  BY <1>1, <1>2, <1>3, <1>4, <1>5, <1>6

\* The experts are given tokens that were quantized once, in the layer's own format.
THEOREM TokensAreQuantizedOnce == EpSpec => []QuantizedOnce
<1>1. EpInit => GivenToExperts
  BY DEF EpInit, GivenToExperts
<1>2. EpTypeOK /\ GivenToExperts /\ [EpNext]_epVars => GivenToExperts'
  <2> SUFFICES ASSUME EpTypeOK, GivenToExperts, [EpNext]_epVars PROVE GivenToExperts'
    OBVIOUS
  <2>1. CASE UNCHANGED epVars
    BY <2>1 DEF epVars, GivenToExperts, DoQuant, Dispatched, Quantize, UseFp8, UseInt8, UseMxfp4
  <2>2. CASE EpNext
    <3> PICK u \in Batches : Prepare(u) \/ Receive(u) \/ Finalize(u) \/ Advance(u)
      BY <2>2 DEF EpNext
    <3>1. quant' = quant /\ nvfp4' = nvfp4
      BY DEF Prepare, Receive, Finalize, Advance
    <3>2. DoQuant(Dispatched)' = DoQuant(Dispatched)
      BY <3>1 DEF DoQuant, Dispatched, Quantize, UseFp8, UseInt8, UseMxfp4
    <3>3. \A v \in Batches : step'[v] = "experts" => experts'[v] = DoQuant(Dispatched)
      BY DEF GivenToExperts, EpTypeOK, Prepare, Receive, Finalize, Advance
    <3>4. QED
      BY <3>2, <3>3 DEF GivenToExperts
  <2>3. QED
    BY <2>1, <2>2
<1>3. EpTypeOK /\ GivenToExperts => QuantizedOnce
  BY OneQuantization DEF GivenToExperts, QuantizedOnce, Active, Batches
<1>4. EpInv => EpTypeOK
  BY DEF EpInv
<1>5. QED
  BY ExchangeIsSound, <1>1, <1>2, <1>3, <1>4, PTL DEF EpSpec

--------------------------------------------------------------------------------
(* The profiling ranges.                                                       *)

Bodies == {"step", "execute_model", "_model_forward", "compute_logits", "_sample", "linear", "moe"}
Frame  == [f : Bodies, label : Nat]

ProfTypeOK ==
  /\ works \in BOOLEAN /\ raising \in BOOLEAN
  /\ calls \in Seq(Frame) /\ ranges \in Seq(Nat)
  /\ stash \in Nat /\ leaks \in Nat /\ raised \in Nat
  /\ iteration \in [engine : Nat, runner : Nat]

\* A step of the engine is the first call, execute_model is it or is called by it.
StackInOrder ==
  \A i \in DOMAIN calls :
    /\ calls[i].f = "step" => i = 1
    /\ calls[i].f = "execute_model" => i = 1 \/ (i = 2 /\ calls[1].f = "step")
    /\ calls[i].f = "linear" => calls[i].label # 0

Executing == \E i \in DOMAIN calls : calls[i].f = "execute_model"

\* The batch is stashed on the runner for as long as execute_model runs.
StashFollows == stash = IF Executing THEN iteration.runner ELSE 0

\* The calls of a stack that opened a range, how many they are, which of the ranges is
\* that of the call at place i, and whether the ranges r have their labels.
OpenedOf(c)     == {i \in DOMAIN c : c[i].label # 0}
Count(c)        == Cardinality(OpenedOf(c))
RankOf(c, i)    == Cardinality({j \in OpenedOf(c) : j <= i})
LabelsFit(r, c) == \A i \in OpenedOf(c) : r[RankOf(c, i)] = c[i].label

\* Sequence d is c with e on top.
OnTop(d, c, e) == /\ Len(d) = Len(c) + 1
                  /\ d[Len(c) + 1] = e
                  /\ \A i \in 1 .. Len(c) : d[i] = c[i]

--------------------------------------------------------------------------------
LEMMA CountType ==
  ASSUME NEW c \in Seq(Frame)
  PROVE  /\ IsFiniteSet(OpenedOf(c)) /\ Count(c) \in Nat
         /\ \A i \in OpenedOf(c) : RankOf(c, i) \in 1 .. Count(c)
<1>1. DOMAIN c = 1 .. Len(c) /\ Len(c) \in Nat
  BY LenProperties
<1>2. IsFiniteSet(1 .. Len(c))
  BY <1>1, FS_Interval
<1>3. OpenedOf(c) \in SUBSET (1 .. Len(c))
  BY <1>1 DEF OpenedOf
<1>4. IsFiniteSet(OpenedOf(c)) /\ Count(c) \in Nat
  BY <1>2, <1>3, FS_Subset, FS_CardinalityType DEF Count
<1>5. ASSUME NEW i \in OpenedOf(c)
      PROVE  RankOf(c, i) \in 1 .. Count(c)
  <2> DEFINE T == {j \in OpenedOf(c) : j <= i}
  <2>1. T \in SUBSET OpenedOf(c)
    OBVIOUS
  <2>2. IsFiniteSet(T) /\ Cardinality(T) <= Count(c) /\ Cardinality(T) \in Nat
    BY <1>4, <2>1, FS_Subset, FS_CardinalityType DEF Count
  <2>3. i \in T
    BY <1>3
  <2>4. Cardinality(T) # 0
    <3> HIDE DEF T
    <3> QED BY <2>2, <2>3, FS_EmptySet
  <2>5. QED
    BY <1>4, <2>2, <2>4 DEF RankOf
<1>6. QED
  BY <1>4, <1>5

\* A call that is made adds its range, and leaves the places of the others.
LEMMA OpenedGrows ==
  ASSUME NEW c \in Seq(Frame), NEW d \in Seq(Frame), NEW e \in Frame, OnTop(d, c, e)
  PROVE  /\ \A i \in OpenedOf(c) : i \in OpenedOf(d) /\ d[i] = c[i] /\ RankOf(d, i) = RankOf(c, i)
         /\ e.label = 0 => OpenedOf(d) = OpenedOf(c) /\ Count(d) = Count(c)
         /\ e.label # 0 =>
              /\ OpenedOf(d) = OpenedOf(c) \cup {Len(c) + 1}
              /\ Count(d) = Count(c) + 1
              /\ RankOf(d, Len(c) + 1) = Count(d)
              /\ d[Len(c) + 1] = e
<1>1. /\ Len(d) = Len(c) + 1 /\ d[Len(c) + 1] = e
      /\ \A i \in 1 .. Len(c) : d[i] = c[i]
  BY DEF OnTop
<1>2. DOMAIN c = 1 .. Len(c) /\ DOMAIN d = 1 .. Len(c) + 1 /\ Len(c) \in Nat
  BY <1>1, LenProperties
<1>3. e.label = 0 => OpenedOf(d) = OpenedOf(c)
  BY <1>1, <1>2 DEF OpenedOf
<1>4. e.label # 0 => OpenedOf(d) = OpenedOf(c) \cup {Len(c) + 1}
  BY <1>1, <1>2 DEF OpenedOf
<1>5. ASSUME NEW i \in OpenedOf(c)
      PROVE  i \in OpenedOf(d) /\ d[i] = c[i] /\ RankOf(d, i) = RankOf(c, i)
  <2>1. i \in 1 .. Len(c)
    BY <1>2 DEF OpenedOf
  <2>2. {j \in OpenedOf(d) : j <= i} = {j \in OpenedOf(c) : j <= i}
    BY <1>1, <1>2, <2>1 DEF OpenedOf
  <2>3. RankOf(d, i) = RankOf(c, i)
    BY <2>2 DEF RankOf
  <2>4. QED
    BY <1>1, <1>2, <2>1, <2>3 DEF OpenedOf
<1>6. ASSUME e.label # 0
      PROVE  Count(d) = Count(c) + 1 /\ RankOf(d, Len(c) + 1) = Count(d)
  <2>1. Len(c) + 1 \notin OpenedOf(c)
    BY <1>2 DEF OpenedOf
  <2>2. Count(d) = Count(c) + 1
    BY <1>4, <1>6, <2>1, CountType, FS_AddElement DEF Count
  <2>3. {j \in OpenedOf(d) : j <= Len(c) + 1} = OpenedOf(d)
    BY <1>2 DEF OpenedOf
  <2>4. QED
    BY <2>2, <2>3 DEF RankOf, Count
<1>7. QED
  BY <1>1, <1>3, <1>4, <1>5, <1>6 DEF Count

\* The ranges keep the labels of their calls when a call opens one, and when it is closed.
LEMMA LabelsKept ==
  ASSUME NEW c \in Seq(Frame), NEW d \in Seq(Frame), NEW e \in Frame, OnTop(d, c, e),
         e.label # 0,
         NEW r \in Seq(Nat), NEW q \in Seq(Nat), OnTop(q, r, e.label), Len(r) = Count(c)
  PROVE  LabelsFit(q, d) <=> LabelsFit(r, c)
<1>1. /\ \A i \in OpenedOf(c) : i \in OpenedOf(d) /\ d[i] = c[i] /\ RankOf(d, i) = RankOf(c, i)
      /\ OpenedOf(d) = OpenedOf(c) \cup {Len(c) + 1}
      /\ RankOf(d, Len(c) + 1) = Count(c) + 1
      /\ d[Len(c) + 1] = e
  BY OpenedGrows
<1>2. \A i \in OpenedOf(c) : RankOf(c, i) \in 1 .. Len(r)
  BY CountType
<1>3. q[Len(r) + 1] = e.label /\ \A n \in 1 .. Len(r) : q[n] = r[n]
  BY DEF OnTop
<1>4. \A i \in OpenedOf(c) : q[RankOf(d, i)] = r[RankOf(c, i)]
  BY <1>1, <1>2, <1>3
<1>5. q[RankOf(d, Len(c) + 1)] = d[Len(c) + 1].label
  BY <1>1, <1>3
<1>6. QED
  BY <1>1, <1>4, <1>5 DEF LabelsFit

LEMMA NoLabel ==
  ASSUME NEW c \in Seq(Frame), NEW d \in Seq(Frame), NEW e \in Frame, OnTop(d, c, e)
  PROVE  e.label = 0 => /\ Count(d) = Count(c)
                        /\ \A r : LabelsFit(r, d) <=> LabelsFit(r, c)
<1>1. /\ \A i \in OpenedOf(c) : d[i] = c[i] /\ RankOf(d, i) = RankOf(c, i)
      /\ e.label = 0 => OpenedOf(d) = OpenedOf(c) /\ Count(d) = Count(c)
  BY OpenedGrows
<1>2. QED
  BY <1>1 DEF LabelsFit

LEMMA AppendsOnTop ==
  ASSUME NEW S, NEW s \in Seq(S), NEW e \in S
  PROVE  Append(s, e) \in Seq(S) /\ OnTop(Append(s, e), s, e)
<1> DEFINE t == Append(s, e)
<1>1. /\ t \in Seq(S) /\ Len(t) = Len(s) + 1
      /\ \A i \in 1 .. Len(s) : t[i] = s[i]
      /\ t[Len(s) + 1] = e
  BY AppendProperties
<1> HIDE DEF t
<1>2. t \in Seq(S) /\ OnTop(t, s, e)
  BY <1>1 DEF OnTop
<1>3. QED
  BY <1>2 DEF t

LEMMA FrontAndLast ==
  ASSUME NEW S, NEW s \in Seq(S), s # << >>
  PROVE  Front(s) \in Seq(S) /\ Last(s) \in S /\ OnTop(s, Front(s), Last(s))
<1> DEFINE front == Front(s)
           last  == Last(s)
<1>1. Len(s) \in Nat /\ Len(s) # 0 /\ DOMAIN s = 1 .. Len(s) /\ \A i \in 1 .. Len(s) : s[i] \in S
  BY LenProperties, EmptySeq, ElementOfSeq
<1>2. /\ front \in Seq(S) /\ Len(front) = Len(s) - 1
      /\ \A i \in 1 .. Len(s) - 1 : front[i] = s[i]
  <2>1. /\ SubSeq(s, 1, Len(s) - 1) \in Seq(S)
        /\ Len(SubSeq(s, 1, Len(s) - 1)) = IF 1 <= Len(s) - 1 THEN Len(s) - 1 - 1 + 1 ELSE 0
        /\ \A i \in 1 .. Len(s) - 1 - 1 + 1 : SubSeq(s, 1, Len(s) - 1)[i] = s[1 + i - 1]
    BY <1>1, SubSeqProperties
  <2>2. QED
    BY <1>1, <2>1 DEF Front
<1>3. last \in S /\ last = s[Len(s)]
  BY <1>1 DEF Last
<1> HIDE DEF front, last
<1>4. OnTop(s, front, last)
  BY <1>1, <1>2, <1>3 DEF OnTop
<1>5. QED
  BY <1>2, <1>3, <1>4 DEF front, last

\* What RangesFollowCalls says of the ranges.
RangesMatch == works => /\ Len(ranges) = Count(calls) + leaks
                        /\ leaks = 0 => LabelsFit(ranges, calls)

\* The ranges after a call that may have opened one.
LEMMA CallKeepsRanges ==
  ASSUME ProfTypeOK, RangesMatch, NEW e \in Frame, calls' = Append(calls, e),
         UNCHANGED << works, leaks >>,
         ranges' = IF e.label = 0 THEN ranges ELSE Opens(e.label)
  PROVE  calls' \in Seq(Frame) /\ ranges' \in Seq(Nat) /\ RangesMatch'
<1>1. calls \in Seq(Frame) /\ ranges \in Seq(Nat) /\ leaks \in Nat /\ e.label \in Nat
  BY DEF ProfTypeOK, Frame
<1>2. PICK c \in Seq(Frame), d \in Seq(Frame) : c = calls /\ d = calls' /\ OnTop(d, c, e)
  BY <1>1, AppendsOnTop
<1>3. PICK r \in Seq(Nat), q \in Seq(Nat) : r = ranges /\ q = Append(ranges, e.label)
                                            /\ OnTop(q, r, e.label)
  BY <1>1, AppendsOnTop
<1>4. ranges' = IF works /\ e.label # 0 THEN q ELSE r
  BY <1>3 DEF Opens
<1>5. Count(c) \in Nat /\ Len(r) \in Nat /\ Len(q) = Len(r) + 1
  BY <1>3, CountType, LenProperties DEF OnTop
<1>6. works => Len(r) = Count(c) + leaks /\ (leaks = 0 => LabelsFit(r, c))
  BY <1>2, <1>3 DEF RangesMatch
<1>7. e.label = 0 => Count(d) = Count(c) /\ (LabelsFit(r, d) <=> LabelsFit(r, c))
  BY <1>2, NoLabel
<1>8. CASE e.label = 0
  <2>1. Count(d) = Count(c) /\ (LabelsFit(r, d) <=> LabelsFit(r, c))
    BY <1>7, <1>8
  <2>2. QED
    BY <1>2, <1>4, <1>6, <1>8, <2>1 DEF RangesMatch
<1>9. CASE e.label # 0
  <2>1. Count(d) = Count(c) + 1
    BY <1>2, <1>9, OpenedGrows
  <2>2. works /\ leaks = 0 => LabelsFit(q, d)
    <3>1. works /\ leaks = 0 => Len(r) = Count(c) /\ LabelsFit(r, c)
      BY <1>5, <1>6
    <3>2. QED
      BY <1>2, <1>3, <1>9, <3>1, LabelsKept, ZenonT(40)
  <2>3. calls' \in Seq(Frame) /\ ranges' \in Seq(Nat)
    BY <1>2, <1>4
  <2>4. works => Len(q) = Count(d) + leaks
    <3>1. works => Len(r) = Count(c) + leaks
      BY <1>6
    <3>2. Len(q) = Len(r) + 1 /\ Count(d) = Count(c) + 1 /\ leaks \in Nat
          /\ Count(c) \in Nat /\ Len(r) \in Nat
      BY <1>1, <1>5, <2>1
    <3>3. QED
      BY <3>1, <3>2
  <2>5. QED
    BY <1>2, <1>4, <1>9, <2>2, <2>3, <2>4 DEF RangesMatch
<1>10. QED
  BY <1>8, <1>9

\* The ranges after a call that returned or was unwound.
LEMMA LeaveKeepsRanges ==
  ASSUME ProfTypeOK, StackInOrder, RangesMatch, Leave
  PROVE  calls' \in Seq(Frame) /\ ranges' \in Seq(Nat) /\ leaks' \in Nat /\ RangesMatch'
<1>1. calls \in Seq(Frame) /\ ranges \in Seq(Nat) /\ leaks \in Nat
  BY DEF ProfTypeOK
<1>2. /\ calls # << >> /\ calls' = Front(calls) /\ works' = works
      /\ leaks' = IF raising /\ Top = "linear" THEN leaks + 1 ELSE leaks
      /\ ranges' = IF Last(calls).label = 0 \/ (raising /\ Top = "linear") THEN ranges ELSE Closes
  BY DEF Leave
<1>3. PICK c \in Seq(Frame), d \in Seq(Frame), e \in Frame :
        d = calls /\ c = calls' /\ e = Last(calls) /\ OnTop(d, c, e)
  BY <1>1, <1>2, FrontAndLast
<1>4. PICK q \in Seq(Nat) : q = ranges
  BY <1>1
<1>5. Count(c) \in Nat /\ Count(d) \in Nat /\ Len(q) \in Nat
  BY CountType, LenProperties
<1>6. works => Len(q) = Count(d) + leaks /\ (leaks = 0 => LabelsFit(q, d))
  BY <1>3, <1>4 DEF RangesMatch
<1>7. Top = e.f
  BY <1>2, <1>3 DEF Top
<1>8. /\ e.label = 0 => Count(d) = Count(c) /\ (LabelsFit(q, d) <=> LabelsFit(q, c))
      /\ e.label # 0 => Count(d) = Count(c) + 1
  <2>1. e.label = 0 => Count(d) = Count(c) /\ (LabelsFit(q, d) <=> LabelsFit(q, c))
    BY <1>3, NoLabel
  <2>2. e.label # 0 => Count(d) = Count(c) + 1
    BY <1>3, OpenedGrows
  <2>3. QED
    BY <2>1, <2>2
<1>9. CASE raising /\ Top = "linear"
  <2>1. leaks' = leaks + 1 /\ ranges' = q
    BY <1>2, <1>4, <1>9
  <2>2. e.label # 0
    <3>1. Len(calls) \in DOMAIN calls /\ calls[Len(calls)] = e
      BY <1>1, <1>2, <1>3, LenProperties, EmptySeq DEF Last
    <3>2. QED
      BY <1>7, <1>9, <3>1 DEF StackInOrder
  <2>3. QED
    BY <1>1, <1>2, <1>3, <1>5, <1>6, <1>8, <2>1, <2>2 DEF RangesMatch
<1>10. CASE ~ (raising /\ Top = "linear") /\ e.label = 0
  BY <1>1, <1>2, <1>3, <1>4, <1>5, <1>6, <1>8, <1>10 DEF RangesMatch
<1>11. CASE ~ (raising /\ Top = "linear") /\ e.label # 0
  <2>1. leaks' = leaks /\ ranges' = IF works /\ ranges # << >> THEN Front(ranges) ELSE ranges
    BY <1>2, <1>3, <1>11 DEF Closes
  <2>2. CASE works
    <3>1. ranges # << >>
      <4>1. Len(q) # 0
        BY <1>1, <1>5, <1>6, <1>8, <1>11, <2>2
      <4>2. QED
        BY <1>4, <4>1, EmptySeq
    <3>2. PICK r \in Seq(Nat), label \in Nat : r = ranges' /\ OnTop(q, r, label)
      BY <1>1, <1>4, <2>1, <2>2, <3>1, FrontAndLast
    <3>3. Len(q) = Len(r) + 1 /\ q[Len(r) + 1] = label /\ Len(r) \in Nat
      BY <3>2, LenProperties DEF OnTop
    <3>4. ASSUME leaks = 0 PROVE LabelsFit(r, c)
      <4>1. Len(r) = Count(c)
        BY <1>5, <1>6, <1>8, <1>11, <2>2, <3>3, <3>4
      <4>2. label = e.label
        <5>1. RankOf(d, Len(c) + 1) = Count(d) /\ d[Len(c) + 1] = e /\ Len(c) + 1 \in OpenedOf(d)
          BY <1>3, <1>11, OpenedGrows
        <5>2. q[RankOf(d, Len(c) + 1)] = d[Len(c) + 1].label
          BY <1>6, <2>2, <3>4, <5>1 DEF LabelsFit
        <5>3. QED
          BY <1>8, <1>11, <3>3, <4>1, <5>1, <5>2
      <4>3. QED
        BY <1>3, <1>6, <1>11, <2>2, <3>2, <3>4, <4>1, <4>2, LabelsKept
    <3>5. Len(r) = Count(c) + leaks
      <4>1. Len(q) = Count(d) + leaks /\ Count(d) = Count(c) + 1
        BY <1>6, <1>8, <1>11, <2>2
      <4>2. QED
        BY <1>1, <1>5, <3>3, <4>1, SMTT(40)
    <3>6. QED
      BY <1>1, <1>2, <1>3, <2>1, <3>2, <3>4, <3>5 DEF RangesMatch
  <2>3. CASE ~ works
    BY <1>1, <1>2, <1>3, <2>1, <2>3 DEF RangesMatch
  <2>4. QED
    BY <2>2, <2>3
<1>12. QED
  BY <1>9, <1>10, <1>11

--------------------------------------------------------------------------------
\* The batch of the runner.
BatchesMatch ==
  \A i \in DOMAIN calls : calls[i].f = "_model_forward" =>
    calls[i].label = IF \E j \in 1 .. i - 1 : calls[j].f = "execute_model"
                     THEN iteration.runner ELSE 0

StackSound == StackInOrder /\ StashFollows /\ BatchesMatch

\* A call on top changes nothing below it.
LEMMA CallKeepsStack ==
  ASSUME ProfTypeOK, StackSound, NEW e \in Frame, calls' = Append(calls, e),
         e.f \in Callees[Top],
         e.f = "linear" => e.label # 0,
         e.f = "_model_forward" => e.label = stash,
         IF e.f = "execute_model"
         THEN stash' = iteration'.runner
         ELSE UNCHANGED stash /\ iteration'.runner = iteration.runner
  PROVE  StackSound'
<1> DEFINE n == Len(calls)
<1>1. /\ calls \in Seq(Frame) /\ n \in Nat /\ DOMAIN calls = 1 .. n
      /\ \A i \in 1 .. n : calls[i].f \in Bodies
  <2>1. calls \in Seq(Frame)
    BY DEF ProfTypeOK
  <2>2. \A i \in 1 .. n : calls[i] \in Frame
    BY <2>1, ElementOfSeq
  <2>3. QED
    BY <2>1, <2>2, LenProperties DEF Frame
<1>2. /\ calls' \in Seq(Frame) /\ DOMAIN calls' = 1 .. n + 1
      /\ \A i \in 1 .. n : calls'[i] = calls[i]
      /\ calls'[n + 1] = e
  <2>1. /\ calls' \in Seq(Frame) /\ Len(calls') = n + 1
        /\ \A i \in 1 .. n : calls'[i] = calls[i]
        /\ calls'[n + 1] = e
    BY <1>1, AppendsOnTop DEF OnTop
  <2>2. QED
    BY <2>1, LenProperties
<1>3. Top = IF n = 0 THEN "idle" ELSE calls[n].f
  BY <1>1, EmptySeq DEF Top, Last
<1> HIDE DEF n
<1>4. /\ e.f = "step" => n = 0
      /\ e.f = "execute_model" => n = 0 \/ (n = 1 /\ calls[1].f = "step")
  <2>1. /\ e.f = "step" => Top = "idle"
        /\ e.f = "execute_model" => Top \in {"idle", "step"}
    <3>1. Top \in Bodies \cup {"idle"}
      BY <1>1, <1>3
    <3>2. QED
      BY <3>1 DEF Callees, Bodies
  <2>2. Top = "idle" => n = 0
    BY <1>1, <1>3 DEF Bodies
  <2>3. Top = "step" => n = 1 /\ calls[1].f = "step"
    BY <1>1, <1>3 DEF StackSound, StackInOrder
  <2>4. QED
    BY <2>1, <2>2, <2>3
<1>5. StackInOrder'
  BY <1>1, <1>2, <1>4 DEF StackSound, StackInOrder
<1>6. Executing' <=> Executing \/ e.f = "execute_model"
  BY <1>1, <1>2 DEF Executing
<1>7. StashFollows'
  BY <1>6 DEF StackSound, StashFollows
<1>8. BatchesMatch'
  <2>1. CASE e.f = "execute_model"
    <3>1. \A i \in 1 .. n + 1 : calls'[i].f # "_model_forward"
      BY <1>1, <1>2, <1>4, <2>1
    <3>2. QED
      BY <1>2, <3>1 DEF BatchesMatch
  <2>2. CASE e.f # "execute_model"
    <3> SUFFICES ASSUME NEW i \in 1 .. n + 1, calls'[i].f = "_model_forward"
                 PROVE  calls'[i].label = IF \E j \in 1 .. i - 1 : calls'[j].f = "execute_model"
                                          THEN iteration.runner ELSE 0
      BY <1>2, <2>2 DEF BatchesMatch
    <3>1. \A j \in 1 .. i - 1 : j \in 1 .. n /\ calls'[j] = calls[j]
      BY <1>1, <1>2
    <3>2. CASE i \in 1 .. n
      BY <1>1, <1>2, <3>1, <3>2 DEF StackSound, BatchesMatch
    <3>3. CASE i = n + 1
      <4>1. e.label = IF Executing THEN iteration.runner ELSE 0
        BY <1>2, <3>3 DEF StackSound, StashFollows
      <4>2. Executing <=> \E j \in 1 .. i - 1 : calls[j].f = "execute_model"
        BY <1>1, <3>3 DEF Executing
      <4>3. QED
        BY <1>2, <3>1, <3>3, <4>1, <4>2
    <3>4. QED
      BY <1>1, <3>2, <3>3
  <2>3. QED
    BY <2>1, <2>2
<1>9. QED
  BY <1>5, <1>7, <1>8 DEF StackSound

LEMMA LeaveKeepsStack ==
  ASSUME ProfTypeOK, StackSound, Leave
  PROVE  StackSound'
<1> DEFINE n == Len(calls)
<1>1. /\ calls \in Seq(Frame) /\ n \in Nat /\ DOMAIN calls = 1 .. n /\ n > 0
      /\ calls # << >>
      /\ calls' \in Seq(Frame) /\ DOMAIN calls' = 1 .. n - 1
      /\ \A i \in 1 .. n - 1 : calls'[i] = calls[i]
  <2>1. calls \in Seq(Frame) /\ calls # << >> /\ calls' = Front(calls)
    BY DEF ProfTypeOK, Leave
  <2>2. calls' \in Seq(Frame) /\ Len(calls') = n - 1 /\ n > 0 /\ \A i \in 1 .. n - 1 : calls'[i] = calls[i]
    BY <2>1, FrontAndLast, LenProperties DEF OnTop
  <2>3. QED
    BY <2>1, <2>2, LenProperties
<1>2. Top = calls[n].f /\ stash' = (IF Top = "execute_model" THEN 0 ELSE stash)
      /\ iteration' = iteration
  BY <1>1 DEF Leave, Top, Last
<1> HIDE DEF n
<1>3. StackInOrder'
  BY <1>1 DEF StackSound, StackInOrder
<1>4. CASE Top = "execute_model"
  <2>1. ~ Executing'
    <3>1. \A i \in 1 .. n - 1 : calls[i].f # "execute_model"
      <4>1. n \in DOMAIN calls /\ calls[n].f = "execute_model"
        BY <1>1, <1>2, <1>4
      <4>2. n = 1 \/ (n = 2 /\ calls[1].f = "step")
        BY <4>1 DEF StackSound, StackInOrder
      <4>3. QED
        BY <1>1, <4>2
    <3>2. QED
      BY <1>1, <3>1 DEF Executing
  <2>2. QED
    <3>1. StashFollows'
      BY <1>2, <1>4, <2>1 DEF StashFollows
    <3>2. BatchesMatch'
      BY <1>1, <1>2 DEF StackSound, BatchesMatch
    <3>3. QED
      BY <1>3, <3>1, <3>2 DEF StackSound
<1>5. CASE Top # "execute_model"
  <2>1. Executing' <=> Executing
    BY <1>1, <1>2, <1>5 DEF Executing
  <2>2. StashFollows'
    BY <1>2, <1>5, <2>1 DEF StackSound, StashFollows
  <2>3. BatchesMatch'
    BY <1>1, <1>2 DEF StackSound, BatchesMatch
  <2>4. QED
    BY <1>3, <2>2, <2>3 DEF StackSound
<1>6. QED
  BY <1>4, <1>5

--------------------------------------------------------------------------------
ProfInductive == ProfTypeOK /\ StackSound /\ RangesMatch

LEMMA ProfInitSound == ProfInit => ProfInductive
<1> SUFFICES ASSUME ProfInit PROVE ProfInductive
  OBVIOUS
<1>1. /\ calls = << >> /\ ranges = << >> /\ stash = 0 /\ leaks = 0 /\ Len(ranges) = 0
      /\ DOMAIN calls = {}
  BY DEF ProfInit
<1>2. ProfTypeOK
  <2>1. calls \in Seq(Frame) /\ ranges \in Seq(Nat)
    BY <1>1, EmptySeq
  <2>2. works \in BOOLEAN /\ raising \in BOOLEAN
    BY DEF ProfInit
  <2>3. stash \in Nat /\ leaks \in Nat /\ raised \in Nat
        /\ iteration \in [engine : Nat, runner : Nat]
    BY DEF ProfInit
  <2>4. QED
    BY <2>1, <2>2, <2>3 DEF ProfTypeOK
<1>3. StackSound
  BY <1>1 DEF StackSound, StackInOrder, StashFollows, Executing, BatchesMatch
<1>4. RangesMatch
  <2>1. OpenedOf(calls) = {} /\ Count(calls) = 0
    BY <1>1, FS_EmptySet DEF OpenedOf, Count
  <2>2. QED
    BY <1>1, <2>1 DEF RangesMatch, LabelsFit
<1>5. QED
  BY <1>2, <1>3, <1>4 DEF ProfInductive

\* The calls that are made.
LEMMA CallsSound ==
  ASSUME ProfInductive,
         \/ Step \/ ExecuteModel \/ ModelForward
         \/ \E f \in {"_sample", "compute_logits", "moe"} : Around(f)
  PROVE  ProfInductive'
<1>1. ProfTypeOK /\ StackSound /\ RangesMatch
  BY DEF ProfInductive
<1>2. PICK e \in Frame :
        /\ calls' = Append(calls, e) /\ e.f \in Callees[Top] /\ e.f # "linear"
        /\ e.f = "_model_forward" => e.label = stash
        /\ ranges' = IF e.label = 0 THEN ranges ELSE Opens(e.label)
        /\ IF e.f = "execute_model"
           THEN stash' = iteration'.runner
           ELSE UNCHANGED stash /\ iteration'.runner = iteration.runner
        /\ UNCHANGED << works, raising, raised, leaks >>
        /\ stash' \in Nat /\ iteration' \in [engine : Nat, runner : Nat]
  <2>1. CASE Step
    <3> DEFINE e == [f |-> "step", label |-> iteration.engine + 1]
    <3>1. /\ iteration.engine \in Nat /\ iteration.runner \in Nat
          /\ iteration' = [iteration EXCEPT !.engine = @ + 1]
          /\ iteration' \in [engine : Nat, runner : Nat]
          /\ iteration'.engine = iteration.engine + 1
          /\ iteration'.runner = iteration.runner
      BY <1>1, <2>1 DEF Step, ProfTypeOK
    <3>2. e \in Frame /\ e.label # 0 /\ e.f = "step" /\ e.label = iteration.engine + 1
      BY <3>1 DEF Frame, Bodies
    <3>3. calls' = Append(calls, e) /\ e.f \in Callees[Top] /\ ranges' = Opens(e.label)
          /\ UNCHANGED << works, raising, raised, leaks >>
      BY <2>1 DEF Step, Enter
    <3>4. stash' = stash /\ stash \in Nat
      BY <1>1, <2>1 DEF Step, ProfTypeOK
    <3> HIDE DEF e
    <3>5. QED
      BY <3>1, <3>2, <3>3, <3>4
  <2>2. CASE ExecuteModel
    <3> DEFINE e == [f |-> "execute_model", label |-> iteration.runner + 1]
    <3>1. /\ iteration.engine \in Nat /\ iteration.runner \in Nat
          /\ iteration' = [iteration EXCEPT !.runner = @ + 1]
          /\ iteration' \in [engine : Nat, runner : Nat]
          /\ iteration'.runner = iteration.runner + 1
      BY <1>1, <2>2, SMTT(40) DEF ExecuteModel, ProfTypeOK
    <3>2. e \in Frame /\ e.label # 0 /\ e.f = "execute_model" /\ e.label = iteration.runner + 1
      BY <3>1 DEF Frame, Bodies
    <3>3. calls' = Append(calls, e) /\ e.f \in Callees[Top] /\ ranges' = Opens(e.label)
          /\ UNCHANGED << works, raising, raised, leaks >>
      BY <2>2 DEF ExecuteModel, Enter
    <3>4. stash' = iteration.runner + 1
      BY <1>1, <2>2 DEF ExecuteModel, ProfTypeOK
    <3> HIDE DEF e
    <3>5. QED
      BY <3>1, <3>2, <3>3, <3>4
  <2>3. CASE ModelForward
    <3> DEFINE e == [f |-> "_model_forward", label |-> stash]
    <3>1. e \in Frame
      BY <1>1 DEF ProfTypeOK, Frame, Bodies
    <3>2. QED
      BY <1>1, <2>3, <3>1 DEF ModelForward, Enter, ProfTypeOK
  <2>4. ASSUME NEW f \in {"_sample", "compute_logits", "moe"}, Around(f)
        PROVE  \E e \in Frame :
        /\ calls' = Append(calls, e) /\ e.f \in Callees[Top] /\ e.f # "linear"
        /\ e.f = "_model_forward" => e.label = stash
        /\ ranges' = IF e.label = 0 THEN ranges ELSE Opens(e.label)
        /\ IF e.f = "execute_model"
           THEN stash' = iteration'.runner
           ELSE UNCHANGED stash /\ iteration'.runner = iteration.runner
        /\ UNCHANGED << works, raising, raised, leaks >>
        /\ stash' \in Nat /\ iteration' \in [engine : Nat, runner : Nat]
    <3> DEFINE e == [f |-> f, label |-> 1]
    <3>1. e \in Frame
      BY DEF Frame, Bodies
    <3>2. QED
      BY <1>1, <2>4, <3>1 DEF Around, Enter, ProfTypeOK
  <2>5. QED
    BY <2>1, <2>2, <2>3, <2>4
<1>3. calls' \in Seq(Frame) /\ ranges' \in Seq(Nat) /\ RangesMatch'
  BY <1>1, <1>2, CallKeepsRanges
<1>4. StackSound'
  BY <1>1, <1>2, CallKeepsStack
<1>5. ProfTypeOK'
  BY <1>1, <1>2, <1>3 DEF ProfTypeOK
<1>6. QED
  BY <1>3, <1>4, <1>5 DEF ProfInductive

\* The linear layers: without NVTX their push raises before the call is made.
LEMMA LinearSound ==
  ASSUME ProfInductive, Linear
  PROVE  ProfInductive'
<1>1. ProfTypeOK /\ StackSound /\ RangesMatch
  BY DEF ProfInductive
<1>2. CASE works
  <2> DEFINE e == [f |-> "linear", label |-> 1]
  <2>1. /\ e \in Frame /\ e.label # 0 /\ e.f = "linear" /\ e.label = 1
        /\ calls' = Append(calls, e) /\ e.f \in Callees[Top]
        /\ ranges' = Opens(1)
        /\ UNCHANGED << works, raising, stash, iteration, raised, leaks >>
    BY <1>2 DEF Linear, Frame, Bodies
  <2> HIDE DEF e
  <2>2. calls' \in Seq(Frame) /\ ranges' \in Seq(Nat) /\ RangesMatch'
    BY <1>1, <2>1, CallKeepsRanges
  <2>3. StackSound'
    BY <1>1, <2>1, CallKeepsStack
  <2>4. QED
    BY <1>1, <2>1, <2>2, <2>3 DEF ProfInductive, ProfTypeOK
<1>3. CASE ~ works
  <2>1. UNCHANGED << works, calls, ranges, stash, iteration, raised, leaks >> /\ raising' = TRUE
    BY <1>3 DEF Linear, Opens
  <2>2. QED
    BY <1>1, <2>1 DEF ProfInductive, ProfTypeOK, StackSound, StackInOrder, StashFollows, Executing,
       BatchesMatch, RangesMatch
<1>4. QED
  BY <1>1, <1>2, <1>3 DEF ProfTypeOK

LEMMA LeaveSound ==
  ASSUME ProfInductive, Leave
  PROVE  ProfInductive'
<1>1. ProfTypeOK /\ StackSound /\ RangesMatch /\ StackInOrder
  BY DEF ProfInductive, StackSound
<1>2. calls' \in Seq(Frame) /\ ranges' \in Seq(Nat) /\ leaks' \in Nat /\ RangesMatch'
  BY <1>1, LeaveKeepsRanges
<1>3. StackSound'
  BY <1>1, LeaveKeepsStack
<1>4. ProfTypeOK'
  BY <1>1, <1>2 DEF ProfTypeOK, Leave
<1>5. QED
  BY <1>2, <1>3, <1>4 DEF ProfInductive

LEMMA ProfNextSound == ProfInductive /\ [ProfNext]_profVars => ProfInductive'
<1> SUFFICES ASSUME ProfInductive, [ProfNext]_profVars PROVE ProfInductive'
  OBVIOUS
<1>1. CASE BodyRaises \/ Catch \/ UNCHANGED profVars
  <2>1. raising \in BOOLEAN /\ raised \in Nat
    BY DEF ProfInductive, ProfTypeOK
  <2>2. /\ UNCHANGED << works, calls, ranges, stash, iteration, leaks >>
        /\ raising' \in BOOLEAN /\ raised' \in Nat
    <3>1. CASE BodyRaises
      BY <2>1, <3>1 DEF BodyRaises
    <3>2. CASE Catch
      BY <2>1, <3>2 DEF Catch
    <3>3. CASE UNCHANGED profVars
      BY <2>1, <3>3 DEF profVars
    <3>4. QED
      BY <1>1, <3>1, <3>2, <3>3
  <2>3. QED
    BY <2>2 DEF ProfInductive, ProfTypeOK, StackSound, StackInOrder, StashFollows, Executing,
       BatchesMatch, RangesMatch
<1>2. QED
  BY <1>1, CallsSound, LinearSound, LeaveSound DEF ProfNext

\* The inductive invariant of the ranges: which call runs in which, the batch stashed on
\* the runner for as long as execute_model runs, and the stack of NVTX as the calls have it.
THEOREM ProfilingIsSound == ProfSpec => []ProfInductive
BY ProfInitSound, ProfNextSound, PTL DEF ProfSpec

\* For any number of iterations and whatever raises at any depth, the open ranges are
\* those of the calls on the stack, in their order, and a forward pass has the label of
\* the batch it runs in.
THEOREM RangesAlwaysFollowCalls == ProfSpec => []RangesFollowCalls
<1>1. ProfInductive => RangesFollowCalls
  BY DEF ProfInductive, StackSound, BatchesMatch, RangesMatch, RangesFollowCalls,
     Opened, OpenedOf, Count, RangeOf, RankOf, LabelsFit
<1>2. QED
  BY <1>1, ProfilingIsSound, PTL

--------------------------------------------------------------------------------
(* The kernels of linear attention.                                            *)

\* The stages of a layer that was constructed; a step of one kind of layer does not
\* reach the functions of the other.
GdnStages == {"spec", "nonspec", "norm"}
KdaStages == {"forward", "nonspec-kda", "restore", "raised"}

\* What a layer decided at its construction is what the settings ask for, and a layer
\* that could not have it is never called.
ChoiceStands ==
  /\ laEnv \in LayerEnvs
  /\ laStage # "construct" =>
       laBackend \in IF laEnv.kind = "gdn" THEN {GdnBackends} ELSE KdaBackends
  /\ laStage \notin {"construct", "refused"} =>
       laBackend.decode # "raises" /\ laBackend.prefill # "raises"
  /\ laStage \in GdnStages => laEnv.kind = "gdn"
  /\ laStage \in KdaStages => laEnv.kind = "kda"
  /\ laStage \in {"construct", "refused"} => kernels = {}

KernelsInv == ChoiceStands /\ PlaOnlyWhereAsked

\* A kernel of a GDN decode that the settings allow, one of a KDA decode, and one of the
\* prefill of either.
GdnDecodes(kernel) ==
  CASE laEnv.requested = "pla" -> kernel \in {"k_last", "k_last_packed"}
    [] laEnv.requested = "cuda" -> kernel \in {"fused_gdn", "triton"}
    [] laEnv.requested = "triton" -> kernel = "triton"
    [] laEnv.requested = "auto" -> kernel \in {"k_last", "k_last_packed"} => laEnv.use_pla
KdaDecodes(kernel) == kernel # "triton" => laEnv.use_pla /\ laEnv.requested \in {"auto", "pla"}
Fills(kernel) == kernel # "triton" => laEnv.use_pla /\ laEnv.prefill \in {"auto", "pla"}

\* What a setting of the layer is.
LEMMA EnvType ==
  ASSUME ChoiceStands
  PROVE  /\ laEnv.kind \in {"gdn", "kda"}
         /\ laEnv.requested \in {"auto", "pla", "cuda", "triton"}
         /\ laEnv.prefill \in {"auto", "pla", "triton", "other"}
         /\ laEnv.use_pla \in BOOLEAN
BY LayerAssumption DEF ChoiceStands

\* One more kernel keeps the rule, if it is within it.
LEMMA OneMoreKernel ==
  ASSUME KernelsInv, laEnv' = laEnv, NEW part, NEW kernel,
         kernels' \subseteq kernels \cup {<< part, kernel >>},
         part = "prefill" => Fills(kernel),
         part = "decode" /\ laEnv.kind = "kda" => KdaDecodes(kernel),
         part = "decode" /\ laEnv.kind = "gdn" => GdnDecodes(kernel)
  PROVE  PlaOnlyWhereAsked'
<1>1. ASSUME NEW k \in kernels'
      PROVE  /\ k[1] = "prefill" => Fills(k[2])
             /\ k[1] = "decode" /\ laEnv.kind = "kda" => KdaDecodes(k[2])
             /\ k[1] = "decode" /\ laEnv.kind = "gdn" => GdnDecodes(k[2])
  <2>1. CASE k \in kernels
    BY <2>1 DEF KernelsInv, PlaOnlyWhereAsked, Fills, KdaDecodes, GdnDecodes
  <2>2. CASE k = << part, kernel >>
    <3>1. k[1] = part /\ k[2] = kernel BY <2>2
    <3> QED BY <3>1, Zenon
  <2> QED BY <1>1, <2>1, <2>2
<1>2. \A k \in kernels' : k[1] = "prefill" /\ k[2] # "triton" =>
        laEnv.use_pla /\ laEnv.prefill \in {"auto", "pla"}
  BY <1>1 DEF Fills
<1>3. laEnv.kind = "kda" => \A k \in kernels' : k[1] = "decode" /\ k[2] # "triton" =>
        laEnv.use_pla /\ laEnv.requested \in {"auto", "pla"}
  BY <1>1 DEF KdaDecodes
<1>4. laEnv.kind = "gdn" => \A k \in kernels' : k[1] = "decode" => GdnDecodes(k[2]) BY <1>1
<1> QED BY <1>2, <1>3, <1>4, Zenon DEF PlaOnlyWhereAsked, GdnDecodes

\* Where a layer was constructed with its decode kernel, the functions that the plugin
\* replaces choose within what was asked for.
LEMMA GdnChoices ==
  ASSUME ChoiceStands, laStage \in GdnStages
  PROVE  /\ GdnDecodes(fused_sigmoid_gating_delta_rule_update)
         /\ GdnDecodes(fused_recurrent_gated_delta_rule_packed_decode)
         /\ _can_use_fused_gdn_mtp_decode => GdnDecodes("fused_gdn")
         /\ Fills(laBackend.prefill)
<1>1. GdnPatched BY DEF GdnPatched, GdnRebound
<1>2. /\ laEnv.kind = "gdn" /\ laBackend = GdnBackends
      /\ laBackend.decode = resolve_gdn_decode_backend
      /\ laBackend.prefill = _resolve_gdn_prefill_backend
      /\ resolve_gdn_decode_backend # "raises"
  BY DEF ChoiceStands, GdnStages, GdnBackends
<1>5. Fills(laBackend.prefill)
  BY <1>2 DEF Fills, _resolve_gdn_prefill_backend, _pla_prefill_supported
<1>3. CASE laEnv.requested = "pla"
  <2>1. _pla_unsupported_reason = "none" BY <1>2, <1>3 DEF resolve_gdn_decode_backend
  <2>2. laEnv.k128 /\ laEnv.fp32 /\ get_sail_cuda_pla_k_last
    BY <2>1 DEF _pla_unsupported_reason
  <2>3. resolve_gdn_decode_backend = "pla" BY <1>3, <2>1 DEF resolve_gdn_decode_backend
  <2> QED BY <1>1, <1>2, <1>3, <1>5, <2>2, <2>3
          DEF GdnDecodes, fused_sigmoid_gating_delta_rule_update,
              fused_recurrent_gated_delta_rule_packed_decode, _can_use_fused_gdn_mtp_decode
<1>4. CASE laEnv.requested # "pla"
  <2>1. get_sail_cuda_pla_k_last => laEnv.requested = "auto" /\ laEnv.use_pla
    BY <1>4 DEF get_sail_cuda_pla_k_last, pla_decode_enabled
  <2>2. resolve_gdn_decode_backend = "cuda" => laEnv.requested \in {"auto", "cuda"}
    BY <1>4, EnvType DEF resolve_gdn_decode_backend
  <2> QED BY <1>2, <1>4, <1>5, <2>1, <2>2, EnvType
          DEF GdnDecodes, fused_sigmoid_gating_delta_rule_update,
              fused_recurrent_gated_delta_rule_packed_decode, _can_use_fused_gdn_mtp_decode
<1> QED BY <1>3, <1>4

\* What a resolver of vLLM may answer: a kernel that was probed for, and no other was named.
LEMMA ResolvedTo ==
  ASSUME NEW name \in {"auto", "pla", "cuda", "triton", "other"},
         NEW support \in {"none", "kernel", "raises"}, NEW kernel,
         NEW b \in Resolved(name, support, kernel), b # "raises", b # "triton"
  PROVE  b = kernel /\ support = "kernel" /\ name \in {"auto", "pla"}
<1>1. name \in {"auto", "pla"}
  <2>1. CASE name = "triton" BY <2>1 DEF Resolved
  <2>2. CASE name \in {"cuda", "other"} BY <2>2 DEF Resolved
  <2> QED BY <2>1, <2>2
<1>2. support = "kernel" /\ b = kernel BY <1>1 DEF Resolved
<1> QED BY <1>1, <1>2

\* What the two probes of KDA may find.
LEMMA KdaProbes ==
  /\ is_fused_kda_decode_supported \in {"none", "kernel", "raises"}
  /\ is_flashkda_supported \in {"none", "kernel", "raises"}
  /\ ~ laEnv.use_pla => is_fused_kda_decode_supported # "kernel" /\ is_flashkda_supported # "kernel"
<1>1. /\ get_pla_kda_kernel \in {"none", "kernel", "raises"}
      /\ ~ laEnv.use_pla => get_pla_kda_kernel = "none"
  BY DEF get_pla_kda_kernel
<1> QED BY <1>1 DEF is_fused_kda_decode_supported, is_flashkda_supported

\* What KDA's layer was constructed with.
LEMMA KdaConstructed ==
  ASSUME ChoiceStands, laStage \in KdaStages
  PROVE  /\ laEnv.kind = "kda"
         /\ laBackend.decode # "triton" =>
              is_fused_kda_decode_supported = "kernel" /\ laEnv.requested \in {"auto", "pla"}
         /\ laBackend.prefill # "triton" =>
              /\ laBackend.prefill = "flashkda" /\ is_flashkda_supported = "kernel"
              /\ laEnv.prefill \in {"auto", "pla"}
         /\ laBackend.checkpoint_blocks = _get_kv_cache_spec(laBackend.prefill)
<1>1. /\ laEnv.kind = "kda" /\ laBackend \in KdaBackends
      /\ laBackend.decode # "raises" /\ laBackend.prefill # "raises"
  BY DEF ChoiceStands, KdaStages
<1>2. PICK decode \in Resolved(laEnv.requested, is_fused_kda_decode_supported, "fused"),
           prefill \in Resolved(laEnv.prefill, is_flashkda_supported, "flashkda") :
        laBackend = [decode |-> decode, prefill |-> prefill,
                     checkpoint_blocks |-> _get_kv_cache_spec(prefill)]
  BY <1>1 DEF KdaBackends
<1>3. /\ laBackend.decode = decode /\ laBackend.prefill = prefill
      /\ laBackend.checkpoint_blocks = _get_kv_cache_spec(prefill)
  BY <1>2
<1>4. /\ laEnv.requested \in {"auto", "pla", "cuda", "triton", "other"}
      /\ laEnv.prefill \in {"auto", "pla", "cuda", "triton", "other"}
  BY EnvType
<1>5. decode # "triton" => is_fused_kda_decode_supported = "kernel" /\ laEnv.requested \in {"auto", "pla"}
  BY <1>1, <1>3, <1>4, KdaProbes, ResolvedTo
<1>6. prefill # "triton" =>
        prefill = "flashkda" /\ is_flashkda_supported = "kernel" /\ laEnv.prefill \in {"auto", "pla"}
  BY <1>1, <1>3, <1>4, KdaProbes, ResolvedTo
<1> QED BY <1>1, <1>3, <1>5, <1>6

\* KDA has kernels other than Triton's only behind the switch, and where no other was named.
LEMMA KdaChoices ==
  ASSUME ChoiceStands, laStage \in KdaStages
  PROVE  /\ laBackend.decode # "triton" => KdaDecodes("mega")
         /\ Fills(laBackend.prefill)
BY KdaConstructed, KdaProbes DEF KdaDecodes, Fills

\* The choice does not change while the settings do not.
LEMMA ChoicesSame ==
  ASSUME laEnv' = laEnv
  PROVE  GdnBackends' = GdnBackends /\ KdaBackends' = KdaBackends
<1>1. get_pla_kda_kernel' = get_pla_kda_kernel BY DEF get_pla_kda_kernel
<1>2. /\ is_fused_kda_decode_supported' = is_fused_kda_decode_supported
      /\ is_flashkda_supported' = is_flashkda_supported
  BY <1>1 DEF is_fused_kda_decode_supported, is_flashkda_supported
<1>3. \A prefill : _get_kv_cache_spec(prefill)' = _get_kv_cache_spec(prefill)
  BY DEF _get_kv_cache_spec
<1>4. KdaBackends' = KdaBackends BY <1>2, <1>3 DEF KdaBackends, Resolved
<1>5. GdnBackends' = GdnBackends
  BY DEF GdnBackends, resolve_gdn_decode_backend, _resolve_gdn_prefill_backend,
         _pla_unsupported_reason, _fused_gdn_decode_unsupported_reason,
         _pla_prefill_supported, get_sail_cuda_pla_k_last, pla_decode_enabled
<1> QED BY <1>4, <1>5

\* A layer is not constructed again, and a step changes neither its settings nor kind.
LEMMA ChoiceKept ==
  ASSUME KernelsInv, UNCHANGED << laEnv, laBackend >>,
         laStage \notin {"construct", "refused"}, laStage' \notin {"construct", "refused"},
         laStage' \in GdnStages => laEnv.kind = "gdn",
         laStage' \in KdaStages => laEnv.kind = "kda"
  PROVE  ChoiceStands'
<1> USE DEF KernelsInv, ChoiceStands
<1>1. GdnBackends' = GdnBackends /\ KdaBackends' = KdaBackends BY ChoicesSame
<1> QED BY <1>1

\* A step that runs no kernel keeps the rule.
LEMMA RuleKept ==
  ASSUME KernelsInv, laEnv' = laEnv, kernels' \subseteq kernels
  PROVE  PlaOnlyWhereAsked'
BY DEF KernelsInv, PlaOnlyWhereAsked

\* Each function of a GDN step keeps to the choice.
LEMMA GdnStepKeeps ==
  ASSUME KernelsInv, gdn_spec \/ gdn_decode \/ gdn_prefill \/ gdn_norm
  PROVE  KernelsInv'
<1>1. laEnv.kind = "gdn" /\ laStage \in GdnStages
  BY DEF KernelsInv, ChoiceStands, GdnStages, gdn_spec, gdn_decode, gdn_prefill, gdn_norm
<1>2. ChoiceStands'
  BY <1>1, ChoiceKept DEF GdnStages, KdaStages, gdn_spec, gdn_decode, gdn_prefill, gdn_norm
<1>3. PlaOnlyWhereAsked'
  <2>1. CASE gdn_spec
    <3> DEFINE kernel == IF _can_use_fused_gdn_mtp_decode /\ NonSpecSeqs = {} THEN "fused_gdn"
                         ELSE fused_sigmoid_gating_delta_rule_update
    <3>1. GdnDecodes(kernel) BY <1>1, GdnChoices DEF KernelsInv
    <3>2. laEnv' = laEnv /\ kernels' \subseteq kernels \cup {<< "decode", kernel >>}
      BY <2>1 DEF gdn_spec
    <3> HIDE DEF kernel
    <3> QED BY <1>1, <3>1, <3>2, OneMoreKernel
  <2>2. CASE gdn_decode
    <3> DEFINE kernel == IF HasSpec THEN fused_sigmoid_gating_delta_rule_update
                         ELSE fused_recurrent_gated_delta_rule_packed_decode
    <3>1. GdnDecodes(kernel) BY <1>1, GdnChoices DEF KernelsInv
    <3>2. laEnv' = laEnv /\ kernels' \subseteq kernels \cup {<< "decode", kernel >>}
      BY <2>2 DEF gdn_decode
    <3> HIDE DEF kernel
    <3> QED BY <1>1, <3>1, <3>2, OneMoreKernel
  <2>3. CASE gdn_prefill
    <3>1. Fills(laBackend.prefill) BY <1>1, GdnChoices DEF KernelsInv
    <3>2. laEnv' = laEnv /\ kernels' \subseteq kernels \cup {<< "prefill", laBackend.prefill >>}
      BY <2>3 DEF gdn_prefill
    <3> QED BY <3>1, <3>2, OneMoreKernel
  <2>4. CASE gdn_norm BY <2>4, RuleKept DEF gdn_norm
  <2> QED BY <2>1, <2>2, <2>3, <2>4
<1> QED BY <1>2, <1>3 DEF KernelsInv

\* Each function of a KDA step keeps to the choice.
LEMMA KdaStepKeeps ==
  ASSUME KernelsInv,
         \/ fused_kda_decode_mega_forward \/ kda_spec \/ kda_prefill
         \/ fused_recurrent_kda_packed_decode \/ restore
  PROVE  KernelsInv'
<1>1. laEnv.kind = "kda" /\ laStage \in KdaStages
  BY DEF KernelsInv, ChoiceStands, KdaStages, fused_kda_decode_mega_forward, kda_spec,
         kda_prefill, fused_recurrent_kda_packed_decode, restore
<1>2. ChoiceStands'
  <2>1. UNCHANGED << laEnv, laBackend >>
    BY DEF fused_kda_decode_mega_forward, kda_spec, kda_prefill,
           fused_recurrent_kda_packed_decode, restore
  <2>2. laStage' \in {"served", "raised", "nonspec-kda", "restore"}
    BY DEF fused_kda_decode_mega_forward, kda_spec, kda_prefill,
           fused_recurrent_kda_packed_decode, restore
  <2> QED BY <1>1, <2>1, <2>2, ChoiceKept DEF GdnStages, KdaStages
<1>3. PlaOnlyWhereAsked'
  <2>1. CASE fused_kda_decode_mega_forward
    <3>1. laBackend.decode # "triton" /\ laEnv' = laEnv
          /\ kernels' \subseteq kernels \cup {<< "decode", "mega" >>}
      BY <2>1 DEF fused_kda_decode_mega_forward
    <3>2. KdaDecodes("mega") BY <1>1, <3>1, KdaChoices DEF KernelsInv
    <3> QED BY <1>1, <3>1, <3>2, OneMoreKernel
  <2>2. CASE kda_prefill
    <3>1. Fills(laBackend.prefill) BY <1>1, KdaChoices DEF KernelsInv
    <3>2. laEnv' = laEnv /\ kernels' \subseteq kernels \cup {<< "prefill", laBackend.prefill >>}
      BY <2>2 DEF kda_prefill
    <3> QED BY <3>1, <3>2, OneMoreKernel
  <2>3. CASE kda_spec BY <2>3, RuleKept DEF kda_spec
  <2>4. CASE fused_recurrent_kda_packed_decode
    BY <2>4, RuleKept DEF fused_recurrent_kda_packed_decode
  <2>5. CASE restore BY <2>5, RuleKept DEF restore
  <2> QED BY <2>1, <2>2, <2>3, <2>4, <2>5
<1> QED BY <1>2, <1>3 DEF KernelsInv

\* Before the layer is constructed nothing has run.
LEMMA KernelsInit == LayerInit => KernelsInv
BY DEF LayerInit, KernelsInv, ChoiceStands, PlaOnlyWhereAsked, GdnStages, KdaStages

\* The construction makes the choice that the settings ask for.
LEMMA ConstructKeeps == ASSUME KernelsInv, construct_layer PROVE KernelsInv'
<1> USE DEF KernelsInv, ChoiceStands
<1>1. laEnv' = laEnv /\ kernels' = kernels /\ kernels = {} BY DEF construct_layer
<1>2. laBackend' \in (IF laEnv.kind = "gdn" THEN {GdnBackends} ELSE KdaBackends)
  BY DEF construct_layer
<1>3. GdnBackends' = GdnBackends /\ KdaBackends' = KdaBackends BY <1>1, ChoicesSame
<1>4. laStage' \in {"refused", "idle"} /\
      (laStage' = "idle" => laBackend'.decode # "raises" /\ laBackend'.prefill # "raises")
  BY DEF construct_layer
<1>5. ChoiceStands' BY <1>1, <1>2, <1>3, <1>4 DEF GdnStages, KdaStages
<1> QED BY <1>1, <1>5 DEF PlaOnlyWhereAsked

\* Every step keeps to the choice.
LEMMA KernelsNext == KernelsInv /\ [LayerNext]_laVars => KernelsInv'
<1> SUFFICES ASSUME KernelsInv, [LayerNext]_laVars PROVE KernelsInv' OBVIOUS
<1>1. CASE construct_layer BY <1>1, ConstructKeeps
<1>2. CASE ScheduleLayer
  <2>1. /\ UNCHANGED << laEnv, laBackend, kernels >> /\ laStage = "idle"
        /\ laStage' = (IF laEnv.kind = "gdn" THEN "spec" ELSE "forward")
    BY <1>2 DEF ScheduleLayer
  <2>2. laEnv.kind \in {"gdn", "kda"} BY EnvType DEF KernelsInv
  <2>3. ChoiceStands' BY <2>1, <2>2, ChoiceKept DEF GdnStages, KdaStages
  <2> QED BY <2>1, <2>3, RuleKept DEF KernelsInv
<1>3. CASE AcceptLayer
  <2>1. /\ UNCHANGED << laEnv, laBackend >> /\ laStage = "served" /\ laStage' = "idle"
        /\ kernels' = {}
    BY <1>3 DEF AcceptLayer
  <2>2. ChoiceStands' BY <2>1, ChoiceKept DEF GdnStages, KdaStages
  <2> QED BY <2>1, <2>2, RuleKept DEF KernelsInv
<1>4. CASE \E r \in Reqs : NextRequest(r)
  <2>1. UNCHANGED << laEnv, laBackend, laStage, kernels >> /\ laStage = "idle"
    BY <1>4 DEF NextRequest
  <2>2. ChoiceStands' BY <2>1, ChoiceKept DEF GdnStages, KdaStages
  <2> QED BY <2>1, <2>2, RuleKept DEF KernelsInv
<1>5. CASE gdn_spec \/ gdn_decode \/ gdn_prefill \/ gdn_norm BY <1>5, GdnStepKeeps
<1>6. CASE \/ fused_kda_decode_mega_forward \/ kda_spec \/ kda_prefill
           \/ fused_recurrent_kda_packed_decode \/ restore
  BY <1>6, KdaStepKeeps
<1>7. CASE UNCHANGED laVars
  <2>1. UNCHANGED << laEnv, laBackend, laStage, kernels >> BY <1>7 DEF laVars
  <2>2. CASE laStage \notin {"construct", "refused"}
    BY <2>1, <2>2, ChoiceKept, RuleKept DEF KernelsInv, ChoiceStands
  <2>3. CASE laStage \in {"construct", "refused"}
    <3>1. GdnBackends' = GdnBackends /\ KdaBackends' = KdaBackends BY <2>1, ChoicesSame
    <3> QED BY <2>1, <3>1, RuleKept DEF KernelsInv, ChoiceStands
  <2> QED BY <2>2, <2>3
<1> QED BY <1>1, <1>2, <1>3, <1>4, <1>5, <1>6, <1>7 DEF LayerNext

\* In every step the kernels that ran are within the choice that the layer made when it was
\* constructed, which is one its settings allow: the kernels named for decode and prefill, in
\* the variable or in additional_config, and the switch; a layer that was refused runs none.
THEOREM KernelsAreAsked == LayerSpec => []KernelsInv
BY KernelsInit, KernelsNext, PTL DEF LayerSpec

\* For any settings of a layer, and whatever it is asked to compute: GDN decodes with the
\* kernel that was named, or where none was with PLA only if the switch is on; GDN's prefill
\* and both of KDA's run PLA only with the switch on and no other kernel named.
THEOREM PlaIsAsked == LayerSpec => []PlaOnlyWhereAsked
BY KernelsAreAsked, PTL DEF KernelsInv

--------------------------------------------------------------------------------
(* The tokens of linear attention.                                             *)

\* The state of a request after its first n tokens.
StateAt(r, n) == [layout |-> "vk", tokens |-> Prefix(r, n)]

\* The tokens computed of a request, and of its last step those accepted.
LayerTypeOK ==
  /\ done \in [Reqs -> 0 .. LayerContext]
  /\ accepted \in [Reqs -> 1 .. Width]
  /\ DOMAIN text = Reqs /\ \A r \in Reqs : DOMAIN text[r] = 0 .. LayerContext - 1

\* The requests of a step are different ones, within their rows of slots and their length;
\* one without drafts starts from its first slot.
StepFits ==
  /\ laStep \in Seq([req : Reqs, len : 1 .. LayerContext, spec : BOOLEAN])
  /\ \A k, q \in DOMAIN laStep : laStep[k].req = laStep[q].req => k = q
  /\ \A k \in DOMAIN laStep : done[laStep[k].req] + laStep[k].len <= LayerContext
  /\ \A k \in SpecSeqs : laStep[k].len <= Width /\ ~ InPrompt(laStep[k].req)
  /\ \A k \in NonSpecSeqs : InPrompt(laStep[k].req) \/ accepted[laStep[k].req] = 1

\* The slot that a request starts from, and what a step leaves in its slots.
Held(states, r) ==
  done[r] > 0 => states[Slot(r, IF InPrompt(r) THEN 1 ELSE accepted[r])] = StateAt(r, done[r])
Stepped(states, k) ==
  \A j \in 1 .. laStep[k].len :
    states[Slot(laStep[k].req, j)] = StateAt(laStep[k].req, done[laStep[k].req] + j)
Ended(states, k) ==
  states[Slot(laStep[k].req, 1)] = StateAt(laStep[k].req, done[laStep[k].req] + laStep[k].len)
\* A request with nothing in a part of the step.
NotOf(part, r) == \A k \in part : laStep[k].req # r

\* The stages between steps, and those of a step: before its drafts, between them and the
\* others, and after.
BetweenStages == {"construct", "refused", "idle"}
FirstStages   == {"spec", "forward"}
MiddleStages  == {"nonspec", "nonspec-kda"}
LastStages    == {"norm", "restore", "served"}

\* What the slots hold in a stage of a step.
SlotsHold(stage, states) ==
  /\ DOMAIN states = 0 .. Len(LayerPrompts) * Width
  /\ stage \in BetweenStages \cup FirstStages => \A r \in Reqs : Held(states, r)
  /\ stage \in MiddleStages \cup LastStages =>
       /\ \A r \in Reqs : NotOf(DOMAIN laStep, r) => Held(states, r)
       /\ \A k \in SpecSeqs : Stepped(states, k)
  /\ stage \in MiddleStages => \A k \in NonSpecSeqs : Held(states, laStep[k].req)
  /\ stage \in LastStages => \A k \in NonSpecSeqs : Ended(states, k)

\* The output of a token, in its row of the step, or in its row of a part.
OutputOf(t, n) ==
  [state |-> Prefix(laStep[t[1]].req, done[laStep[t[1]].req] + t[2]), norms |-> n]
InRows(attn, part, n) == \A t \in StepTokens(part) : attn[StepRow(t)] = OutputOf(t, n)
InOwnRows(buf, part) == \A t \in StepTokens(part) : buf[RowAmong(part, t)] = OutputOf(t, 0)

\* The prompts and plain decodes were written in place.
WrittenInPlace == Sliced \/ (~ HasSpec /\ Prefills # {} /\ laBackend.prefill = "flashkda")

\* Where the outputs are in a stage of a step.
RowsHold(stage, attn, spec, nonspec) ==
  /\ stage \notin BetweenStages => DOMAIN attn = PartRows(DOMAIN laStep)
  /\ stage = "nonspec" => InRows(attn, SpecSeqs, 0)
  /\ stage = "norm" => InRows(attn, DOMAIN laStep, 0)
  /\ stage = "served" => InRows(attn, DOMAIN laStep, 1)
  /\ stage \in {"nonspec-kda", "restore"} =>
       IF NonSpecSeqs = {} \/ Sliced THEN InRows(attn, SpecSeqs, 0) ELSE InOwnRows(spec, SpecSeqs)
  /\ stage = "restore" =>
       IF WrittenInPlace THEN InRows(attn, NonSpecSeqs, 0) ELSE InOwnRows(nonspec, NonSpecSeqs)

\* The invariant, of the slots and rows that a step is about to leave.
TokensAre(stage, states, attn, spec, nonspec) ==
  /\ stage \in BetweenStages \cup FirstStages \cup MiddleStages \cup LastStages
  /\ LayerTypeOK
  /\ stage \notin BetweenStages => StepFits
  /\ SlotsHold(stage, states) /\ RowsHold(stage, attn, spec, nonspec)

TokensInv == TokensAre(laStage, slots, attnOut, specOut, nonSpecOut)

--------------------------------------------------------------------------------
StepShape == laStep \in Seq([req : Reqs, len : 1 .. LayerContext, spec : BOOLEAN])

\* The tokens of a part of a step are finitely many, and so are those before a request.
LEMMA StepTokensFinite ==
  ASSUME StepShape, NEW part \in SUBSET DOMAIN laStep
  PROVE  /\ IsFiniteSet(StepTokens(part)) /\ Cardinality(StepTokens(part)) \in Nat
         /\ \A k \in Int : /\ IsFiniteSet({ t \in StepTokens(part) : t[1] < k })
                           /\ query_start_loc(part, k) \in Nat
<1>1. IsFiniteSet(part \X (1 .. LayerContext))
  <2>1. IsFiniteSet(1 .. Len(laStep)) /\ DOMAIN laStep = 1 .. Len(laStep)
    BY FS_Interval, LenProperties DEF StepShape
  <2>2. IsFiniteSet(part) BY <2>1, FS_Subset
  <2>3. IsFiniteSet(1 .. LayerContext) BY PromptAssumption, FS_Interval
  <2> QED BY <2>2, <2>3, FS_Product
<1>2. IsFiniteSet(StepTokens(part)) BY <1>1, FS_Subset DEF StepTokens
<1>3. Cardinality(StepTokens(part)) \in Nat BY <1>2, FS_CardinalityType
<1>4. ASSUME NEW k \in Int
      PROVE  /\ IsFiniteSet({ t \in StepTokens(part) : t[1] < k })
             /\ query_start_loc(part, k) \in Nat
  <2>1. IsFiniteSet({ t \in StepTokens(part) : t[1] < k }) BY <1>2, FS_Subset
  <2> QED BY <2>1, FS_CardinalityType DEF query_start_loc
<1> QED BY <1>2, <1>3, <1>4

\* A token of a step: its request, its place, and its query length.
LEMMA TokenType ==
  ASSUME StepShape, NEW part \in SUBSET DOMAIN laStep, NEW t \in StepTokens(part)
  PROVE  /\ t[1] \in part /\ t[1] \in DOMAIN laStep /\ t[1] \in Nat
         /\ laStep[t[1]].len \in 1 .. LayerContext /\ laStep[t[1]].req \in Reqs
         /\ t[2] \in 1 .. laStep[t[1]].len /\ t = << t[1], t[2] >>
<1>1. t \in part \X (1 .. LayerContext) /\ t[2] <= laStep[t[1]].len BY DEF StepTokens
<1>2. t[1] \in DOMAIN laStep /\ DOMAIN laStep = 1 .. Len(laStep) /\ Len(laStep) \in Nat
  BY <1>1, LenProperties DEF StepShape
<1>3. laStep[t[1]] \in [req : Reqs, len : 1 .. LayerContext, spec : BOOLEAN]
  BY <1>2, ElementOfSeq DEF StepShape
<1> QED BY <1>1, <1>2, <1>3, PromptAssumption

\* The rows of a request come before those of the next, and the last are the part's last.
LEMMA RowsInOrder ==
  ASSUME StepShape, NEW part \in SUBSET DOMAIN laStep, NEW t \in StepTokens(part),
         NEW C \in SUBSET StepTokens(part),
         \A v \in StepTokens(part) : v[1] <= t[1] => v \in C
  PROVE  RowAmong(part, t) <= Cardinality(C)
<1> DEFINE k == t[1]
           A == { v \in StepTokens(part) : v[1] < k }
           B == {k} \X (1 .. laStep[k].len)
<1>1. /\ k \in part /\ k \in Nat /\ laStep[k].len \in 1 .. LayerContext /\ t[2] \in 1 .. laStep[k].len
  BY TokenType
<1>2. IsFiniteSet(A) /\ Cardinality(A) = query_start_loc(part, k) /\ Cardinality(A) \in Nat
  BY <1>1, StepTokensFinite DEF query_start_loc
<1>3. IsFiniteSet(B) /\ Cardinality(B) = laStep[k].len
  <2>1. IsFiniteSet({k}) /\ Cardinality({k}) = 1 BY FS_Singleton
  <2>2. IsFiniteSet(1 .. laStep[k].len) /\ Cardinality(1 .. laStep[k].len) = laStep[k].len
    <3>1. \A n \in Nat \ {0} : IsFiniteSet(1 .. n) /\ Cardinality(1 .. n) = n BY FS_Interval
    <3> HIDE DEF k
    <3>2. laStep[k].len \in Nat \ {0} BY <1>1
    <3> QED BY <3>1, <3>2
  <2>3. IsFiniteSet(B) /\ Cardinality(B) = 1 * laStep[k].len BY <2>1, <2>2, FS_Product
  <2> QED BY <1>1, <2>3
<1>4. B \subseteq StepTokens(part)
  <2> SUFFICES ASSUME NEW b \in B PROVE b \in StepTokens(part) OBVIOUS
  <2>1. b = << k, b[2] >> /\ b[1] = k /\ b[2] \in 1 .. laStep[k].len BY <1>1
  <2>2. b[2] \in 1 .. LayerContext /\ b[2] <= laStep[k].len BY <1>1, <2>1, PromptAssumption
  <2>3. b \in part \X (1 .. LayerContext) BY <1>1, <2>1, <2>2
  <2> QED BY <2>1, <2>2, <2>3 DEF StepTokens
<1>5. A \cap B = {} BY <1>1
<1>6. Cardinality(A \cup B) = Cardinality(A) + laStep[k].len
  <2>1. Cardinality(A \cap B) = 0 BY <1>5, FS_EmptySet
  <2>2. Cardinality(A \cup B) = Cardinality(A) + Cardinality(B) - Cardinality(A \cap B)
    BY <1>2, <1>3, FS_Union
  <2> HIDE DEF A, B
  <2> QED BY <1>1, <1>2, <1>3, <2>1, <2>2
<1>7. A \cup B \subseteq C
  <2>1. \A v \in A : v \in C
    <3> SUFFICES ASSUME NEW v \in A PROVE v \in C OBVIOUS
    <3>1. v \in StepTokens(part) /\ v[1] < k /\ v[1] \in Nat BY TokenType
    <3> QED BY <1>1, <3>1
  <2>2. \A v \in B : v \in C
    <3> SUFFICES ASSUME NEW v \in B PROVE v \in C OBVIOUS
    <3>1. v \in StepTokens(part) /\ v[1] = k BY <1>4
    <3> QED BY <1>1, <3>1
  <2> QED BY <2>1, <2>2
<1>8. Cardinality(A \cup B) <= Cardinality(C) /\ Cardinality(C) \in Nat
  <2>1. IsFiniteSet(C) BY StepTokensFinite, FS_Subset
  <2>2. Cardinality(C) \in Nat BY <2>1, FS_CardinalityType
  <2> HIDE DEF A, B
  <2> QED BY <1>7, <2>1, <2>2, FS_Subset
<1>9. RowAmong(part, t) = Cardinality(A) + t[2] BY <1>2 DEF RowAmong
<1> HIDE DEF A, B, k
<1> QED BY <1>1, <1>2, <1>6, <1>8, <1>9

\* A row for every token of a part, and a token for every row.
LEMMA RowsAreTokens ==
  ASSUME StepShape, NEW part \in SUBSET DOMAIN laStep
  PROVE  /\ \A t \in StepTokens(part) : RowAmong(part, t) \in PartRows(part)
         /\ \A t, u \in StepTokens(part) : RowAmong(part, t) = RowAmong(part, u) => t = u
         /\ \A j \in PartRows(part) : \E t \in StepTokens(part) : RowAmong(part, t) = j
<1>1. \A t \in StepTokens(part) :
        /\ query_start_loc(part, t[1]) \in Nat /\ t[2] \in Nat \ {0} /\ t[1] \in Nat
        /\ RowAmong(part, t) = query_start_loc(part, t[1]) + t[2] /\ t = << t[1], t[2] >>
  <2> SUFFICES ASSUME NEW t \in StepTokens(part)
               PROVE  /\ query_start_loc(part, t[1]) \in Nat /\ t[2] \in Nat \ {0} /\ t[1] \in Nat
                      /\ t = << t[1], t[2] >>
    BY DEF RowAmong
  <2>1. t[1] \in Nat /\ t[2] \in 1 .. laStep[t[1]].len /\ laStep[t[1]].len \in 1 .. LayerContext
        /\ t = << t[1], t[2] >>
    BY TokenType
  <2>2. t[1] \in Int /\ t[2] \in Nat \ {0} BY <2>1
  <2> QED BY <2>1, <2>2, StepTokensFinite
<1>2. \A t \in StepTokens(part) : RowAmong(part, t) \in PartRows(part)
  <2> SUFFICES ASSUME NEW t \in StepTokens(part) PROVE RowAmong(part, t) \in PartRows(part) OBVIOUS
  <2>1. RowAmong(part, t) <= Cardinality(StepTokens(part)) BY RowsInOrder
  <2>2. Cardinality(StepTokens(part)) \in Nat BY StepTokensFinite
  <2> QED BY <1>1, <2>1, <2>2 DEF PartRows
<1>3. \A t, u \in StepTokens(part) : t[1] < u[1] => RowAmong(part, t) < RowAmong(part, u)
  <2> SUFFICES ASSUME NEW t \in StepTokens(part), NEW u \in StepTokens(part), t[1] < u[1]
               PROVE  RowAmong(part, t) < RowAmong(part, u)
    OBVIOUS
  <2> DEFINE C == { v \in StepTokens(part) : v[1] < u[1] }
  <2>1. \A v \in StepTokens(part) : v[1] <= t[1] => v \in C BY <1>1
  <2>2. C \in SUBSET StepTokens(part) OBVIOUS
  <2>3. Cardinality(C) = query_start_loc(part, u[1]) BY DEF query_start_loc
  <2> HIDE DEF C
  <2>4. RowAmong(part, t) <= Cardinality(C) BY <2>1, <2>2, RowsInOrder
  <2> QED BY <1>1, <2>3, <2>4
<1>4. ASSUME NEW t \in StepTokens(part), NEW u \in StepTokens(part), RowAmong(part, t) = RowAmong(part, u)
      PROVE  t = u
  <2>1. ~ (t[1] < u[1]) /\ ~ (u[1] < t[1])
    <3>1. RowAmong(part, t) \in Int /\ RowAmong(part, u) \in Int BY <1>1
    <3> QED BY <1>3, <1>4, <3>1
  <2>2. t[1] = u[1] BY <1>1, <2>1
  <2>3. t[2] = u[2] BY <1>1, <1>4, <2>2
  <2> QED BY <1>1, <2>2, <2>3
<1>5. ASSUME NEW j \in PartRows(part) PROVE \E t \in StepTokens(part) : RowAmong(part, t) = j
  <2> DEFINE N == Cardinality(StepTokens(part))
             f == [t \in StepTokens(part) |-> RowAmong(part, t)]
  <2>1. N \in Nat /\ PartRows(part) = 1 .. N /\ IsFiniteSet(1 .. N) /\ Cardinality(1 .. N) = N
    <3>1. N \in Nat BY StepTokensFinite
    <3> HIDE DEF N
    <3>2. IsFiniteSet(1 .. N) /\ Cardinality(1 .. N) = N BY <3>1, FS_Interval
    <3> QED BY <3>1, <3>2 DEF PartRows, N
  <2>2. f \in Injection(StepTokens(part), 1 .. N)
    <3>1. f \in [StepTokens(part) -> 1 .. N] BY <1>2, <2>1
    <3>2. \A t, u \in StepTokens(part) : f[t] = f[u] => t = u BY <1>4
    <3> QED BY <3>1, <3>2 DEF Injection, IsInjective
  <2>3. f \in Surjection(StepTokens(part), 1 .. N) BY <2>1, <2>2, FS_Injection
  <2>4. \E t \in StepTokens(part) : f[t] = j BY <2>1, <2>3 DEF Surjection
  <2> QED BY <2>4
<1> QED BY <1>2, <1>4, <1>5

\* A row's token, and a token's row.
LEMMA TokenOfRow ==
  ASSUME StepShape, NEW part \in SUBSET DOMAIN laStep
  PROVE  /\ \A t \in StepTokens(part) : TokenInRow(part, RowAmong(part, t)) = t
         /\ \A j \in PartRows(part) : TokenInRow(part, j) \in StepTokens(part) /\ RowAmong(part, TokenInRow(part, j)) = j
<1>1. \A j \in PartRows(part) : TokenInRow(part, j) \in StepTokens(part) /\ RowAmong(part, TokenInRow(part, j)) = j
  <2> SUFFICES ASSUME NEW j \in PartRows(part)
               PROVE TokenInRow(part, j) \in StepTokens(part) /\ RowAmong(part, TokenInRow(part, j)) = j
    OBVIOUS
  <2>1. \E t \in StepTokens(part) : RowAmong(part, t) = j BY RowsAreTokens
  <2> QED BY <2>1, Zenon DEF TokenInRow
<1> QED BY <1>1, RowsAreTokens

\* Writing a part puts each of its rows in its own place of the step, and no other.
LEMMA PutRows ==
  ASSUME StepShape, NEW part \in SUBSET DOMAIN laStep, NEW attn, NEW buf,
         DOMAIN attn = PartRows(DOMAIN laStep)
  PROVE  /\ DOMAIN Put(attn, RowsOf(part), buf) = PartRows(DOMAIN laStep)
         /\ \A t \in StepTokens(DOMAIN laStep) :
              Put(attn, RowsOf(part), buf)[StepRow(t)]
                = IF t[1] \in part THEN buf[RowAmong(part, t)] ELSE attn[StepRow(t)]
<1>1. DOMAIN Put(attn, RowsOf(part), buf) = PartRows(DOMAIN laStep) BY DEF Put
<1>2. DOMAIN RowsOf(part) = PartRows(part)
      /\ \A j \in PartRows(part) : RowsOf(part)[j] = StepRow(TokenInRow(part, j))
  BY DEF RowsOf
<1>3. StepTokens(part) \subseteq StepTokens(DOMAIN laStep) BY DEF StepTokens
<1>4. ASSUME NEW t \in StepTokens(DOMAIN laStep)
      PROVE  Put(attn, RowsOf(part), buf)[StepRow(t)]
               = IF t[1] \in part THEN buf[RowAmong(part, t)] ELSE attn[StepRow(t)]
  <2>1. StepRow(t) \in DOMAIN attn BY RowsAreTokens DEF StepRow
  <2>2. Put(attn, RowsOf(part), buf)[StepRow(t)] =
          IF \E j \in PartRows(part) : RowsOf(part)[j] = StepRow(t)
          THEN buf[CHOOSE j \in PartRows(part) : RowsOf(part)[j] = StepRow(t)] ELSE attn[StepRow(t)]
    BY <1>2, <2>1 DEF Put
  <2>3. \A j \in PartRows(part) :
          RowsOf(part)[j] = StepRow(t) => t \in StepTokens(part) /\ j = RowAmong(part, t)
    <3> SUFFICES ASSUME NEW j \in PartRows(part), StepRow(TokenInRow(part, j)) = StepRow(t)
                 PROVE  t \in StepTokens(part) /\ j = RowAmong(part, t)
      BY <1>2
    <3>1. TokenInRow(part, j) \in StepTokens(part) /\ RowAmong(part, TokenInRow(part, j)) = j BY TokenOfRow
    <3>2. TokenInRow(part, j) = t BY <1>3, <3>1, RowsAreTokens DEF StepRow
    <3> QED BY <3>1, <3>2
  <2>4. CASE t[1] \in part
    <3>1. t \in StepTokens(part) BY <2>4 DEF StepTokens
    <3>2. RowAmong(part, t) \in PartRows(part) /\ TokenInRow(part, RowAmong(part, t)) = t
      BY <3>1, RowsAreTokens, TokenOfRow
    <3>3. RowsOf(part)[RowAmong(part, t)] = StepRow(t) BY <1>2, <3>2
    <3>4. (CHOOSE j \in PartRows(part) : RowsOf(part)[j] = StepRow(t)) = RowAmong(part, t)
      BY <2>3, <3>2, <3>3, Zenon
    <3> QED BY <2>2, <2>4, <3>2, <3>3, <3>4, Zenon
  <2>5. CASE t[1] \notin part
    <3>1. t \notin StepTokens(part) BY <2>5 DEF StepTokens
    <3> QED BY <2>2, <2>3, <2>5, <3>1, Zenon
  <2> QED BY <2>4, <2>5
<1> QED BY <1>1, <1>4

\* A part's own rows are those of its requests' outputs.
LEMMA OwnRows ==
  ASSUME StepShape, NEW part \in SUBSET DOMAIN laStep, NEW Of, NEW t \in StepTokens(part)
  PROVE  AllRows(part, Of)[RowAmong(part, t)] = Outputs(Of[t[1]])[t[2]]
<1>1. RowAmong(part, t) \in PartRows(part) /\ TokenInRow(part, RowAmong(part, t)) = t
  BY RowsAreTokens, TokenOfRow
<1> QED BY <1>1, Zenon DEF AllRows

--------------------------------------------------------------------------------
\* Rows of slots do not overlap.
LEMMA RowsOfSlots ==
  ASSUME NEW W \in Nat \ {0}, NEW r \in Nat \ {0}, NEW q \in Nat \ {0}, NEW j \in 1 .. W, NEW i \in 1 .. W,
         1 + (r - 1) * W + j - 1 = 1 + (q - 1) * W + i - 1
  PROVE  r = q /\ j = i
<1>1. ASSUME NEW a \in Nat, NEW b \in Nat, a < b PROVE a * W + W <= b * W
  <2>1. PICK d \in Nat : b = a + 1 + d
    <3>1. b - a - 1 \in Nat /\ b = a + 1 + (b - a - 1) BY <1>1
    <3> QED BY <3>1
  <2>2. b * W = a * W + W + d * W BY <2>1
  <2>3. d * W \in Nat /\ a * W \in Nat BY <2>1
  <2> QED BY <2>2, <2>3
<1> DEFINE x == (r - 1) * W
           y == (q - 1) * W
<1>2. x \in Nat /\ y \in Nat
  <2>1. r - 1 \in Nat /\ q - 1 \in Nat OBVIOUS
  <2> QED BY <2>1
<1>3. r < q => x + W <= y
  <2>1. r - 1 \in Nat /\ q - 1 \in Nat /\ (r < q => r - 1 < q - 1) OBVIOUS
  <2> QED BY <1>1, <2>1
<1>4. q < r => y + W <= x
  <2>1. r - 1 \in Nat /\ q - 1 \in Nat /\ (q < r => q - 1 < r - 1) OBVIOUS
  <2> QED BY <1>1, <2>1
<1>5. x + j = y + i BY <1>2
<1>6. r = q => x = y OBVIOUS
<1> HIDE DEF x, y
<1> QED BY <1>2, <1>3, <1>4, <1>5, <1>6

\* The requests are numbered.
LEMMA RequestRange == Len(LayerPrompts) \in Nat /\ Reqs = 1 .. Len(LayerPrompts)
BY PromptAssumption, LenProperties DEF Reqs

\* The slots of a request are within the cache, and no others have them.
LEMMA SlotsApart ==
  ASSUME laEnv \in LayerEnvs
  PROVE  /\ Width \in Nat \ {0}
         /\ \A r \in Reqs, j \in 1 .. Width : Slot(r, j) \in 0 .. Len(LayerPrompts) * Width
         /\ \A r, q \in Reqs, j, i \in 1 .. Width : Slot(r, j) = Slot(q, i) => r = q /\ j = i
<1>1. Width \in Nat \ {0}
  <2>1. laEnv.drafts \in Nat BY LayerAssumption
  <2> QED BY <2>1 DEF Width
<1>2. ASSUME NEW r \in Reqs, NEW j \in 1 .. Width PROVE Slot(r, j) \in 0 .. Len(LayerPrompts) * Width
  <2> DEFINE W == Width
             n == Len(LayerPrompts)
  <2>1. W \in Nat \ {0} /\ r \in 1 .. n /\ n \in Nat /\ j \in 1 .. W BY <1>1, RequestRange
  <2>2. Slot(r, j) = 1 + (r - 1) * W + j - 1 BY DEF Slot
  <2> HIDE DEF W, n
  <2>3. PICK d \in Nat : n = r + d
    <3>1. n - r \in Nat /\ n = r + (n - r) BY <2>1
    <3> QED BY <3>1
  <2>4. n * W = (r - 1) * W + W + d * W BY <2>1, <2>3
  <2>5. (r - 1) * W \in Nat /\ d * W \in Nat
    <3>1. r - 1 \in Nat BY <2>1
    <3> QED BY <2>1, <2>3, <3>1
  <2> DEFINE x == (r - 1) * W
             y == d * W
             z == n * W
  <2>6. z = x + W + y /\ x \in Nat /\ y \in Nat /\ Slot(r, j) = 1 + x + j - 1 BY <2>2, <2>4, <2>5
  <2>7. Slot(r, j) \in 0 .. z
    <3> HIDE DEF x, y, z
    <3> QED BY <2>1, <2>6
  <2> QED BY <2>7 DEF W, n
<1>3. ASSUME NEW r \in Reqs, NEW q \in Reqs, NEW j \in 1 .. Width, NEW i \in 1 .. Width,
             Slot(r, j) = Slot(q, i)
      PROVE  r = q /\ j = i
  <2>1. r \in Nat \ {0} /\ q \in Nat \ {0} BY RequestRange
  <2>2. 1 + (r - 1) * Width + j - 1 = 1 + (q - 1) * Width + i - 1 BY <1>3 DEF Slot
  <2> QED BY <1>1, <2>1, <2>2, RowsOfSlots
<1> QED BY <1>1, <1>2, <1>3

\* A step's request and its length, wherever the step is.
LEMMA StepType ==
  ASSUME StepFits, NEW k \in DOMAIN laStep
  PROVE  /\ laStep[k].req \in Reqs /\ laStep[k].len \in 1 .. LayerContext /\ laStep[k].len \in Nat \ {0}
         /\ StepShape
<1>1. laStep \in Seq([req : Reqs, len : 1 .. LayerContext, spec : BOOLEAN]) BY DEF StepFits
<1>2. k \in 1 .. Len(laStep) BY <1>1, LenProperties
<1>3. laStep[k] \in [req : Reqs, len : 1 .. LayerContext, spec : BOOLEAN] BY <1>1, <1>2, ElementOfSeq
<1> QED BY <1>1, <1>3, PromptAssumption DEF StepShape

\* Verifying leaves the state of each token in its own slot, and other requests' slots alone.
LEMMA VerifiedAre ==
  ASSUME laEnv \in LayerEnvs, DOMAIN slots = 0 .. Len(LayerPrompts) * Width, StepFits, NEW states
  PROVE  /\ DOMAIN VerifiedSlots(states) = DOMAIN slots
         /\ \A k \in SpecSeqs, j \in Nat : j \in 1 .. laStep[k].len =>
              VerifiedSlots(states)[Slot(laStep[k].req, j)] = states[k][j]
         /\ \A r \in Reqs, j \in 1 .. Width :
              (\A k \in SpecSeqs : laStep[k].req # r) => VerifiedSlots(states)[Slot(r, j)] = slots[Slot(r, j)]
<1>1. \A k \in SpecSeqs : /\ k \in DOMAIN laStep /\ laStep[k].req \in Reqs
                          /\ 1 .. laStep[k].len \subseteq 1 .. Width
  <2> SUFFICES ASSUME NEW k \in SpecSeqs
               PROVE  k \in DOMAIN laStep /\ laStep[k].req \in Reqs /\ 1 .. laStep[k].len \subseteq 1 .. Width
    OBVIOUS
  <2>1. k \in DOMAIN laStep BY DEF SpecSeqs
  <2>2. laStep[k].req \in Reqs /\ laStep[k].len \in Nat \ {0} BY <2>1, StepType
  <2>3. laStep[k].len <= Width /\ Width \in Nat \ {0} BY SlotsApart DEF StepFits
  <2> QED BY <2>1, <2>2, <2>3
<1>2. \A r, q \in Reqs, j, i \in 1 .. Width : Slot(r, j) = Slot(q, i) => r = q /\ j = i
  BY SlotsApart
<1>3. ASSUME NEW k \in SpecSeqs, NEW j \in 1 .. laStep[k].len
      PROVE  VerifiedSlots(states)[Slot(laStep[k].req, j)] = states[k][j]
  <2> DEFINE s == Slot(laStep[k].req, j)
             K == CHOOSE q \in SpecSeqs : \E i \in 1 .. laStep[q].len : s = Slot(laStep[q].req, i)
             J == CHOOSE i \in 1 .. laStep[K].len : s = Slot(laStep[K].req, i)
  <2>1. s \in DOMAIN slots BY <1>1, SlotsApart
  <2>2. K \in SpecSeqs /\ \E i \in 1 .. laStep[K].len : s = Slot(laStep[K].req, i) BY Zenon
  <2>3. J \in 1 .. laStep[K].len /\ s = Slot(laStep[K].req, J) BY <2>2, Zenon
  <2>4. laStep[k].req = laStep[K].req /\ j = J
    <3>1. laStep[K].req \in Reqs /\ laStep[k].req \in Reqs /\ J \in 1 .. Width /\ j \in 1 .. Width
      BY <1>1, <2>2, <2>3, Zenon
    <3>2. Slot(laStep[k].req, j) = Slot(laStep[K].req, J) BY <2>3, Zenon
    <3> HIDE DEF K, J, s
    <3> QED BY <1>2, <3>1, <3>2
  <2>5. K = k
    <3>1. k \in DOMAIN laStep /\ K \in DOMAIN laStep BY <1>1, <2>2, Zenon
    <3> HIDE DEF K
    <3> QED BY <2>4, <3>1, Zenon DEF StepFits
  <2>6. \E q \in SpecSeqs, i \in 1 .. Width : i <= laStep[q].len /\ s = Slot(laStep[q].req, i)
    <3>1. j \in 1 .. Width /\ j <= laStep[k].len BY <1>1
    <3> QED BY <3>1, Zenon
  <2>7. VerifiedSlots(states)[s] = states[K][J] BY <2>1, <2>6, Zenon DEF VerifiedSlots
  <2> HIDE DEF K, J
  <2> QED BY <2>4, <2>5, <2>7
<1>4. ASSUME NEW r \in Reqs, NEW j \in 1 .. Width, \A k \in SpecSeqs : laStep[k].req # r
      PROVE  VerifiedSlots(states)[Slot(r, j)] = slots[Slot(r, j)]
  <2>1. Slot(r, j) \in DOMAIN slots BY SlotsApart
  <2>2. ~ \E q \in SpecSeqs, i \in 1 .. Width : i <= laStep[q].len /\ Slot(r, j) = Slot(laStep[q].req, i)
    BY <1>1, <1>2, <1>4
  <2> QED BY <2>1, <2>2, Zenon DEF VerifiedSlots
<1>5. DOMAIN VerifiedSlots(states) = DOMAIN slots BY DEF VerifiedSlots
<1> QED BY <1>3, <1>4, <1>5

\* A final state goes to its request's first slot, and to no other.
LEMMA FinalAre ==
  ASSUME laEnv \in LayerEnvs, DOMAIN slots = 0 .. Len(LayerPrompts) * Width, StepFits, NEW states
  PROVE  /\ DOMAIN FinalSlots(states) = DOMAIN slots
         /\ \A k \in NonSpecSeqs : FinalSlots(states)[Slot(laStep[k].req, 1)] = LastState(states[k])
         /\ \A r \in Reqs, j \in 1 .. Width :
              (\A k \in NonSpecSeqs : laStep[k].req # r) => FinalSlots(states)[Slot(r, j)] = slots[Slot(r, j)]
<1>1. \A k \in NonSpecSeqs : k \in DOMAIN laStep /\ laStep[k].req \in Reqs
  BY StepType DEF NonSpecSeqs
<1>2. 1 \in 1 .. Width BY SlotsApart
<1>3. ASSUME NEW k \in NonSpecSeqs
      PROVE  FinalSlots(states)[Slot(laStep[k].req, 1)] = LastState(states[k])
  <2> DEFINE s == Slot(laStep[k].req, 1)
             K == CHOOSE q \in NonSpecSeqs : s = Slot(laStep[q].req, 1)
  <2>1. s \in DOMAIN slots BY <1>1, <1>2, SlotsApart
  <2>2. K \in NonSpecSeqs /\ s = Slot(laStep[K].req, 1) BY Zenon
  <2>3. K = k
    <3>1. laStep[K].req \in Reqs /\ laStep[k].req \in Reqs /\ k \in DOMAIN laStep /\ K \in DOMAIN laStep
      BY <1>1, <2>2, Zenon
    <3>2. Slot(laStep[k].req, 1) = Slot(laStep[K].req, 1) BY <2>2, Zenon
    <3> HIDE DEF K, s
    <3>3. laStep[k].req = laStep[K].req BY <1>2, <3>1, <3>2, SlotsApart, Zenon
    <3> QED BY <3>1, <3>3, Zenon DEF StepFits
  <2>4. FinalSlots(states)[s] = LastState(states[K]) BY <2>1, <2>2, Zenon DEF FinalSlots
  <2> HIDE DEF K
  <2> QED BY <2>3, <2>4
<1>4. ASSUME NEW r \in Reqs, NEW j \in 1 .. Width, \A k \in NonSpecSeqs : laStep[k].req # r
      PROVE  FinalSlots(states)[Slot(r, j)] = slots[Slot(r, j)]
  <2>1. Slot(r, j) \in DOMAIN slots BY SlotsApart
  <2>2. ~ \E q \in NonSpecSeqs : Slot(r, j) = Slot(laStep[q].req, 1)
    BY <1>1, <1>2, <1>4, SlotsApart, Zenon
  <2> QED BY <2>1, <2>2, Zenon DEF FinalSlots
<1>5. DOMAIN FinalSlots(states) = DOMAIN slots BY DEF FinalSlots
<1> QED BY <1>3, <1>4, <1>5

--------------------------------------------------------------------------------
\* The tokens of a request's step follow those it had.
LEMMA TokensFollow ==
  ASSUME LayerTypeOK, StepFits, NEW k \in DOMAIN laStep, NEW i \in 1 .. laStep[k].len
  PROVE  Prefix(laStep[k].req, done[laStep[k].req]) \o SubSeq(TokensOf(k), 1, i)
           = Prefix(laStep[k].req, done[laStep[k].req] + i)
<1> DEFINE r == laStep[k].req
           d == done[r]
           n == laStep[k].len
           e(p) == << r, p, text[r][p] >>
           S == { e(p) : p \in Int }
           P(m) == [j \in 1 .. m |-> << r, j - 1, text[r][j - 1] >>]
           T == [j \in 1 .. n |-> LET p == d + j - 1 IN << r, p, text[r][p] >>]
<1>1. r \in Reqs /\ n \in Nat \ {0} /\ i \in 1 .. n BY StepType
<1>2. d \in Nat BY <1>1, PromptAssumption DEF LayerTypeOK
<1>3. Prefix(r, d) = P(d) /\ Prefix(r, d + i) = P(d + i) /\ TokensOf(k) = T BY DEF Prefix, TokensOf
<1> HIDE DEF r, d, n
<1>4. \A m \in Nat : P(m) \in Seq(S) /\ Len(P(m)) = m /\ \A j \in 1 .. m : P(m)[j] = e(j - 1)
  <2> SUFFICES ASSUME NEW m \in Nat
               PROVE  P(m) \in Seq(S) /\ Len(P(m)) = m /\ \A j \in 1 .. m : P(m)[j] = e(j - 1)
    OBVIOUS
  <2>1. \A j \in 1 .. m : e(j - 1) \in S /\ P(m)[j] = e(j - 1) OBVIOUS
  <2>2. P(m) \in [1 .. m -> S] BY <2>1
  <2>3. P(m) \in Seq(S) BY <2>2
  <2>4. Len(P(m)) = m BY <2>2, <2>3
  <2> QED BY <2>1, <2>3, <2>4
<1>5. \A j \in 1 .. i : T[j] \in S /\ T[j] = e(d + j - 1)
  <2> SUFFICES ASSUME NEW j \in 1 .. i PROVE T[j] \in S /\ T[j] = e(d + j - 1) OBVIOUS
  <2>1. j \in 1 .. n /\ d + j - 1 \in Int BY <1>1, <1>2
  <2>2. T[j] = e(d + j - 1) BY <2>1
  <2> HIDE DEF T, e
  <2> QED BY <2>1, <2>2
<1> DEFINE Q == SubSeq(T, 1, i)
<1> HIDE DEF P, T, S, e
<1>6. Q \in Seq(S) /\ Len(Q) = i /\ \A j \in 1 .. i : Q[j] = e(d + j - 1)
  <2>1. 1 <= i /\ i \in Int BY <1>1
  <2>2. /\ Q \in Seq(S)
        /\ Len(Q) = IF 1 <= i THEN i - 1 + 1 ELSE 0
        /\ \A j \in 1 .. i - 1 + 1 : Q[j] = T[1 + j - 1]
    BY <1>5, <2>1, SubSeqProperties
  <2>3. \A j \in 1 .. i : j \in 1 .. i - 1 + 1 /\ 1 + j - 1 = j BY <2>1
  <2>4. Len(Q) = i BY <2>1, <2>2
  <2>5. \A j \in 1 .. i : Q[j] = T[j] BY <2>2, <2>3
  <2> QED BY <1>5, <2>2, <2>4, <2>5
<1>7. /\ P(d) \o Q \in Seq(S) /\ Len(P(d) \o Q) = d + i
      /\ \A j \in 1 .. d + i : (P(d) \o Q)[j] = IF j <= d THEN P(d)[j] ELSE Q[j - d]
  <2>1. P(d) \in Seq(S) /\ Len(P(d)) = d BY <1>2, <1>4
  <2> HIDE DEF Q
  <2>2. /\ P(d) \o Q \in Seq(S) /\ Len(P(d) \o Q) = Len(P(d)) + Len(Q)
        /\ \A j \in 1 .. Len(P(d)) + Len(Q) :
             (P(d) \o Q)[j] = IF j <= Len(P(d)) THEN P(d)[j] ELSE Q[j - Len(P(d))]
    BY <1>6, <2>1, ConcatProperties
  <2> QED BY <1>6, <2>1, <2>2
<1>8. d + i \in Nat BY <1>1, <1>2
<1>9. P(d + i) \in Seq(S) /\ Len(P(d + i)) = d + i /\ \A j \in 1 .. d + i : P(d + i)[j] = e(j - 1)
  BY <1>4, <1>8
<1> HIDE DEF Q
<1>10. \A j \in 1 .. d + i : (P(d) \o Q)[j] = e(j - 1)
  <2> SUFFICES ASSUME NEW j \in 1 .. d + i PROVE (P(d) \o Q)[j] = e(j - 1) OBVIOUS
  <2>1. CASE j <= d
    <3>1. j \in 1 .. d BY <1>2, <2>1
    <3>2. P(d)[j] = e(j - 1) BY <1>2, <1>4, <3>1
    <3> QED BY <1>7, <2>1, <3>2
  <2>2. CASE ~ (j <= d)
    <3>1. j - d \in 1 .. i /\ d + (j - d) - 1 = j - 1 BY <1>1, <1>2, <2>2
    <3>2. Q[j - d] = e(d + (j - d) - 1) BY <1>6, <3>1
    <3> QED BY <1>7, <2>2, <3>1, <3>2
  <2> QED BY <2>1, <2>2
<1>11. P(d) \o Q = P(d + i) BY <1>7, <1>9, <1>10, SeqEqual
<1> QED BY <1>3, <1>11 DEF r, d, Q

\* A kernel that has what it was compiled for, given the state of a request's tokens, makes
\* those of the tokens that follow.
LEMMA RecurAre ==
  ASSUME LayerTypeOK, StepFits, NEW k \in DOMAIN laStep, NEW kernel, Demands(kernel), NEW layout,
         layout = (IF kernel = "flashqla" THEN "kv" ELSE "vk"), NEW state,
         state = [layout |-> layout, tokens |-> Prefix(laStep[k].req, done[laStep[k].req])]
  PROVE  /\ DOMAIN Recur(kernel, state, TokensOf(k)) = 1 .. laStep[k].len
         /\ \A i \in 1 .. laStep[k].len :
              Recur(kernel, state, TokensOf(k))[i]
                = [layout |-> layout, tokens |-> Prefix(laStep[k].req, done[laStep[k].req] + i)]
<1>1. DOMAIN TokensOf(k) = 1 .. laStep[k].len BY DEF TokensOf
<1>2. ASSUME NEW i \in 1 .. laStep[k].len
      PROVE  Recur(kernel, state, TokensOf(k))[i]
                = [layout |-> layout, tokens |-> Prefix(laStep[k].req, done[laStep[k].req] + i)]
  <2>1. state.layout = layout /\ state.tokens = Prefix(laStep[k].req, done[laStep[k].req])
    OBVIOUS
  <2>2. Recur(kernel, state, TokensOf(k))[i]
          = [state EXCEPT !.tokens = @ \o SubSeq(TokensOf(k), 1, i)]
    BY <1>1, <2>1 DEF Recur
  <2>3. [state EXCEPT !.tokens = @ \o SubSeq(TokensOf(k), 1, i)]
          = [layout |-> layout, tokens |-> state.tokens \o SubSeq(TokensOf(k), 1, i)]
    <3> DEFINE w == state.tokens \o SubSeq(TokensOf(k), 1, i)
               old == state.tokens
    <3>1. state = [layout |-> layout, tokens |-> old] BY <2>1
    <3>2. \A x, y : [[layout |-> layout, tokens |-> x] EXCEPT !.tokens = y] = [layout |-> layout, tokens |-> y]
      OBVIOUS
    <3> HIDE DEF w, old
    <3>3. [state EXCEPT !.tokens = w] = [layout |-> layout, tokens |-> w] BY <3>1, <3>2
    <3> QED BY <3>3 DEF w
  <2>4. state.tokens \o SubSeq(TokensOf(k), 1, i) = Prefix(laStep[k].req, done[laStep[k].req] + i)
    BY <2>1, TokensFollow
  <2> QED BY <2>2, <2>3, <2>4
<1>3. DOMAIN Recur(kernel, state, TokensOf(k)) = 1 .. laStep[k].len BY <1>1 DEF Recur
<1> QED BY <1>2, <1>3

\* What the states of a request's tokens are, and that the last is kept as states are.
Computed(states, k) ==
  /\ DOMAIN states = 1 .. laStep[k].len
  /\ \A i \in 1 .. laStep[k].len : states[i].tokens = Prefix(laStep[k].req, done[laStep[k].req] + i)
KeptLast(states, k) ==
  LastState(states) = StateAt(laStep[k].req, done[laStep[k].req] + laStep[k].len)

\* The last of n states is the n-th.
LEMMA LastOfStates ==
  ASSUME NEW n \in Nat, NEW states, DOMAIN states = 1 .. n, states = [i \in 1 .. n |-> states[i]]
  PROVE  LastState(states) = states[n]
<1>1. Len(states) = n
  <2>1. Len([i \in 1 .. n |-> states[i]]) = n OBVIOUS
  <2> QED BY <2>1
<1> QED BY <1>1 DEF LastState

\* A verification, from the state of the last token that was accepted.
LEMMA VerifyAre ==
  ASSUME LayerTypeOK, StepFits, laEnv \in LayerEnvs, NEW k \in SpecSeqs, Held(slots, laStep[k].req),
         NEW kernel, Demands(kernel), kernel # "flashqla"
  PROVE  /\ Computed(Verify(kernel)[k], k)
         /\ \A i \in 1 .. laStep[k].len :
              Verify(kernel)[k][i] = StateAt(laStep[k].req, done[laStep[k].req] + i)
<1> DEFINE r == laStep[k].req
           state == slots[Slot(r, accepted[r])]
<1>1. k \in DOMAIN laStep /\ ~ InPrompt(r) BY DEF SpecSeqs, StepFits
<1>2. r \in Reqs BY <1>1, StepType
<1>3. done[r] \in Nat /\ done[r] > 0
  <2>1. done[r] \in 0 .. LayerContext BY <1>2 DEF LayerTypeOK
  <2>2. LayerPrompts[r] \in 1 .. LayerContext
    <3>1. r \in 1 .. Len(LayerPrompts) BY <1>2, RequestRange
    <3> QED BY <3>1, PromptAssumption, ElementOfSeq
  <2> QED BY <1>1, <2>1, <2>2, PromptAssumption DEF InPrompt
<1>4. state = StateAt(r, done[r]) BY <1>1, <1>3 DEF Held
<1>5. Verify(kernel)[k] = Recur(kernel, state, TokensOf(k)) BY DEF Verify
<1>6. /\ DOMAIN Verify(kernel)[k] = 1 .. laStep[k].len
      /\ \A i \in 1 .. laStep[k].len :
           Verify(kernel)[k][i] = [layout |-> "vk", tokens |-> Prefix(r, done[r] + i)]
  <2>1. state = [layout |-> "vk", tokens |-> Prefix(r, done[r])] BY <1>4 DEF StateAt
  <2>2. "vk" = IF kernel = "flashqla" THEN "kv" ELSE "vk" OBVIOUS
  <2> HIDE DEF state
  <2> QED BY <1>1, <1>5, <2>1, <2>2, RecurAre
<1>7. \A i \in 1 .. laStep[k].len : Verify(kernel)[k][i].tokens = Prefix(r, done[r] + i)
  <2> DEFINE V == Verify(kernel)[k]
  <2>1. \A i \in 1 .. laStep[k].len : V[i] = [layout |-> "vk", tokens |-> Prefix(r, done[r] + i)] BY <1>6
  <2> HIDE DEF V, r
  <2>2. \A i \in 1 .. laStep[k].len : V[i].tokens = Prefix(r, done[r] + i)
    <3> SUFFICES ASSUME NEW i \in 1 .. laStep[k].len PROVE V[i].tokens = Prefix(r, done[r] + i) OBVIOUS
    <3>1. \A p : [layout |-> "vk", tokens |-> p].tokens = p OBVIOUS
    <3>2. V[i] = [layout |-> "vk", tokens |-> Prefix(r, done[r] + i)] BY <2>1
    <3> QED BY <3>1, <3>2
  <2> QED BY <2>2 DEF V
<1> QED BY <1>6, <1>7, Zenon DEF Computed, StateAt

\* The state that a prompt or a plain decode starts from.
LEMMA InitialIs ==
  ASSUME LayerTypeOK, StepFits, laEnv \in LayerEnvs, NEW k \in NonSpecSeqs, Held(slots, laStep[k].req)
  PROVE  k \in DOMAIN laStep /\ Initial(k) = StateAt(laStep[k].req, done[laStep[k].req])
<1> DEFINE r == laStep[k].req
<1>1. k \in DOMAIN laStep /\ (InPrompt(r) \/ accepted[r] = 1) BY DEF NonSpecSeqs, StepFits
<1>2. r \in Reqs /\ done[r] \in Nat
  <2>1. r \in Reqs BY <1>1, StepType
  <2> QED BY <2>1, PromptAssumption DEF LayerTypeOK
<1>4. CASE done[r] = 0
  <2>1. Prefix(r, 0) = << >> BY DEF Prefix
  <2> QED BY <1>1, <1>4, <2>1 DEF Initial, NoTokens, StateAt
<1>5. CASE done[r] # 0
  <2>1. slots[Slot(r, 1)] = StateAt(r, done[r])
    <3>1. done[r] > 0 BY <1>2, <1>5
    <3>2. (IF InPrompt(r) THEN 1 ELSE accepted[r]) = 1 BY <1>1
    <3> QED BY <3>1, <3>2, Zenon DEF Held
  <2> QED BY <1>1, <1>5, <2>1 DEF Initial
<1> QED BY <1>4, <1>5

\* A prompt or a plain decode, by a kernel that keeps vLLM's layout.
LEMMA DecodeAre ==
  ASSUME LayerTypeOK, StepFits, laEnv \in LayerEnvs, NEW k \in NonSpecSeqs, Held(slots, laStep[k].req),
         NEW kernel, Demands(kernel), kernel # "flashqla"
  PROVE  /\ Computed(Recur(kernel, Initial(k), TokensOf(k)), k)
         /\ KeptLast(Recur(kernel, Initial(k), TokensOf(k)), k)
<1> DEFINE r == laStep[k].req
           n == laStep[k].len
           st == Recur(kernel, Initial(k), TokensOf(k))
<1>1. k \in DOMAIN laStep /\ Initial(k) = [layout |-> "vk", tokens |-> Prefix(r, done[r])]
  BY InitialIs DEF StateAt
<1>2. /\ DOMAIN st = 1 .. n
      /\ \A i \in 1 .. n : st[i] = [layout |-> "vk", tokens |-> Prefix(r, done[r] + i)]
  <2>1. "vk" = IF kernel = "flashqla" THEN "kv" ELSE "vk" OBVIOUS
  <2> QED BY <1>1, <2>1, RecurAre
<1>3. n \in Nat \ {0} BY <1>1, StepType
<1>4. LastState(st) = st[n]
  <2>1. st = [i \in 1 .. n |-> st[i]]
    <3>1. st = [i \in DOMAIN st |-> st[i]] BY DEF Recur
    <3> HIDE DEF st
    <3> QED BY <1>2, <3>1
  <2> HIDE DEF st
  <2> QED BY <1>2, <1>3, <2>1, LastOfStates
<1> HIDE DEF st, n
<1>5. st[n] = StateAt(r, done[r] + n) BY <1>2, <1>3 DEF StateAt
<1>6. \A i \in 1 .. n : st[i].tokens = Prefix(r, done[r] + i) BY <1>2
<1> QED BY <1>2, <1>4, <1>5, <1>6, Zenon DEF Computed, KeptLast, n, st

\* FlashQLA's states are the other way round, but the last goes back as it came.
LEMMA PlaAre ==
  ASSUME LayerTypeOK, StepFits, laEnv \in LayerEnvs, NEW k \in NonSpecSeqs, Held(slots, laStep[k].req),
         Demands("flashqla")
  PROVE  Computed(forward_pla[k], k) /\ KeptLast(forward_pla[k], k)
<1> DEFINE r == laStep[k].req
           n == laStep[k].len
           st == Recur("flashqla", Transposed(Initial(k)), TokensOf(k))
<1>1. k \in DOMAIN laStep /\ Initial(k) = [layout |-> "vk", tokens |-> Prefix(r, done[r])]
  BY InitialIs DEF StateAt
<1>2. Transposed(Initial(k)) = [layout |-> "kv", tokens |-> Prefix(r, done[r])] BY <1>1 DEF Transposed
<1>3. /\ DOMAIN st = 1 .. n
      /\ \A i \in 1 .. n : st[i] = [layout |-> "kv", tokens |-> Prefix(r, done[r] + i)]
  BY <1>1, <1>2, RecurAre
<1>4. n \in Nat \ {0} BY <1>1, StepType
<1>5. st = [i \in 1 .. n |-> st[i]]
  <2>1. st = [i \in DOMAIN st |-> st[i]] BY DEF Recur
  <2> HIDE DEF st
  <2> QED BY <1>3, <2>1
<1>6. forward_pla[k] = final_state(st) BY DEF forward_pla
<1> HIDE DEF st, n
<1>7. Len(st) = n
  <2>1. Len([i \in 1 .. n |-> st[i]]) = n BY <1>4
  <2> QED BY <1>5, <2>1
<1>8. final_state(st) = [st EXCEPT ![n] = Transposed(st[n])] BY <1>7, Zenon DEF final_state
<1>9. Transposed(st[n]) = [layout |-> "vk", tokens |-> Prefix(r, done[r] + n)]
  <2>1. st[n] = [layout |-> "kv", tokens |-> Prefix(r, done[r] + n)] BY <1>3, <1>4
  <2> QED BY <2>1 DEF Transposed
<1>10. /\ DOMAIN final_state(st) = 1 .. n
       /\ \A i \in 1 .. n : final_state(st)[i] = IF i = n THEN Transposed(st[n]) ELSE st[i]
  <2>1. n \in DOMAIN st BY <1>3, <1>4
  <2> QED BY <1>3, <1>8, <2>1
<1>11. \A i \in 1 .. n : final_state(st)[i].tokens = Prefix(r, done[r] + i) BY <1>3, <1>9, <1>10
<1>12. LastState(final_state(st)) = final_state(st)[n]
  <2>1. final_state(st) = [i \in 1 .. n |-> final_state(st)[i]] BY <1>3, <1>5, <1>8
  <2> QED BY <1>4, <1>10, <2>1, LastOfStates
<1>13. final_state(st)[n] = StateAt(r, done[r] + n) BY <1>4, <1>9, <1>10 DEF StateAt
<1> QED BY <1>6, <1>10, <1>11, <1>12, <1>13 DEF Computed, KeptLast, n

\* The outputs of the states.
LEMMA OutputsAre ==
  ASSUME StepShape, NEW part \in SUBSET DOMAIN laStep, NEW Of, NEW t \in StepTokens(part),
         Computed(Of[t[1]], t[1])
  PROVE  AllRows(part, Of)[RowAmong(part, t)] = OutputOf(t, 0)
<1>1. t[2] \in 1 .. laStep[t[1]].len BY TokenType
<1>2. AllRows(part, Of)[RowAmong(part, t)] = Outputs(Of[t[1]])[t[2]] BY OwnRows
<1> QED BY <1>1, <1>2 DEF Outputs, Computed, OutputOf

--------------------------------------------------------------------------------
\* What an action of the layer's forward leaves alone.
Forward == UNCHANGED << laEnv, laBackend, done, text, accepted, laStep >>

\* So the invariant after it is about the new slots and rows alone.
LEMMA ForwardKeeps ==
  ASSUME Forward
  PROVE  TokensInv' <=> TokensAre(laStage', slots', attnOut', specOut', nonSpecOut')
<1> USE DEF Forward
<1>1. /\ laEnv' = laEnv /\ laBackend' = laBackend /\ done' = done /\ text' = text
      /\ accepted' = accepted /\ laStep' = laStep
  OBVIOUS
<1>2. LayerTypeOK' <=> LayerTypeOK BY <1>1 DEF LayerTypeOK, Width, Reqs
<1>3. SpecSeqs' = SpecSeqs /\ NonSpecSeqs' = NonSpecSeqs /\ Prefills' = Prefills
  BY <1>1 DEF SpecSeqs, NonSpecSeqs, Prefills, InPrompt
<1>4. StepFits' <=> StepFits BY <1>1, <1>3 DEF StepFits, Width, Reqs, InPrompt
<1>5. SlotsHold(laStage, slots)' <=> SlotsHold(laStage', slots')
  BY <1>1, <1>3 DEF SlotsHold, Held, Stepped, Ended, NotOf, StateAt, Prefix, Slot, Width, InPrompt, Reqs
<1>6. Sliced' <=> Sliced
  BY <1>1, <1>3 DEF Sliced, HasSpec, SideBySide, RowsOf, PartRows, StepRow, RowAmong, TokenInRow,
                    query_start_loc, StepTokens
<1>7. WrittenInPlace' <=> WrittenInPlace BY <1>1, <1>3, <1>6 DEF WrittenInPlace, HasSpec
<1>8. RowsHold(laStage, attnOut, specOut, nonSpecOut)'
        <=> RowsHold(laStage', attnOut', specOut', nonSpecOut')
  BY <1>1, <1>3, <1>6, <1>7, SMTT(40) DEF RowsHold, InRows, InOwnRows, OutputOf, Prefix, PartRows, StepRow, RowAmong,
                          query_start_loc, StepTokens
<1> QED BY <1>2, <1>4, <1>5, <1>8 DEF TokensInv, TokensAre

\* The two parts of a step, and a part's tokens.
LEMMA TwoParts ==
  /\ SpecSeqs \subseteq DOMAIN laStep /\ NonSpecSeqs \subseteq DOMAIN laStep
  /\ SpecSeqs \cap NonSpecSeqs = {}
  /\ SpecSeqs \cup NonSpecSeqs = DOMAIN laStep
BY Zenon DEF SpecSeqs, NonSpecSeqs

\* Verifying writes the slots of the speculative requests, and no others'.
LEMMA SpecWritten ==
  ASSUME laEnv \in LayerEnvs, LayerTypeOK, StepFits, DOMAIN slots = 0 .. Len(LayerPrompts) * Width,
         \A r \in Reqs : Held(slots, r), NEW kernel, Demands(kernel), kernel # "flashqla",
         NEW states, states = VerifiedSlots(Verify(kernel))
  PROVE  /\ DOMAIN states = 0 .. Len(LayerPrompts) * Width
         /\ \A k \in SpecSeqs : Stepped(states, k)
         /\ \A r \in Reqs : NotOf(SpecSeqs, r) => Held(states, r)
         /\ \A k \in SpecSeqs : Computed(Verify(kernel)[k], k)
<1>1. \A k \in SpecSeqs : k \in DOMAIN laStep /\ laStep[k].req \in Reqs /\ laStep[k].len \in Nat
  BY StepType DEF SpecSeqs
<1>2. ASSUME NEW k \in SpecSeqs
      PROVE  Stepped(states, k) /\ Computed(Verify(kernel)[k], k)
  <2>1. Held(slots, laStep[k].req) BY <1>1
  <2>2. /\ Computed(Verify(kernel)[k], k)
        /\ \A i \in 1 .. laStep[k].len :
             Verify(kernel)[k][i] = StateAt(laStep[k].req, done[laStep[k].req] + i)
    BY <2>1, VerifyAre
  <2>3. \A j \in 1 .. laStep[k].len : states[Slot(laStep[k].req, j)] = Verify(kernel)[k][j]
    <3>1. \A j \in 1 .. laStep[k].len : j \in Nat BY <1>1
    <3> QED BY <3>1, VerifiedAre
  <2> QED BY <2>2, <2>3 DEF Stepped
<1>3. ASSUME NEW r \in Reqs, NotOf(SpecSeqs, r) PROVE Held(states, r)
  <2>1. (IF InPrompt(r) THEN 1 ELSE accepted[r]) \in 1 .. Width BY SlotsApart DEF LayerTypeOK
  <2>2. \A j \in 1 .. Width : states[Slot(r, j)] = slots[Slot(r, j)]
    BY <1>3, VerifiedAre DEF NotOf
  <2>3. Held(slots, r) OBVIOUS
  <2> QED BY <2>1, <2>2, <2>3, Zenon DEF Held
<1>4. DOMAIN states = 0 .. Len(LayerPrompts) * Width BY VerifiedAre
<1> QED BY <1>2, <1>3, <1>4

\* The others' last states go to their first slots.
LEMMA NonSpecWritten ==
  ASSUME laEnv \in LayerEnvs, LayerTypeOK, StepFits, DOMAIN slots = 0 .. Len(LayerPrompts) * Width,
         NEW last, \A k \in NonSpecSeqs : KeptLast(last[k], k),
         NEW states, states = FinalSlots(last)
  PROVE  /\ DOMAIN states = 0 .. Len(LayerPrompts) * Width
         /\ \A k \in NonSpecSeqs : Ended(states, k)
         /\ \A k \in SpecSeqs : Stepped(slots, k) => Stepped(states, k)
         /\ \A r \in Reqs : NotOf(NonSpecSeqs, r) /\ Held(slots, r) => Held(states, r)
<1>1. \A k \in NonSpecSeqs : Ended(states, k) BY FinalAre DEF Ended, KeptLast
<1>2. ASSUME NEW k \in SpecSeqs, Stepped(slots, k) PROVE Stepped(states, k)
  <2>1. k \in DOMAIN laStep BY DEF SpecSeqs
  <2>2. laStep[k].req \in Reqs /\ laStep[k].len \in Nat /\ laStep[k].len <= Width /\ Width \in Nat
    BY <2>1, StepType, SlotsApart DEF StepFits
  <2>3. \A q \in NonSpecSeqs : laStep[q].req # laStep[k].req
    <3>1. \A q \in NonSpecSeqs : q \in DOMAIN laStep /\ q # k BY TwoParts
    <3> QED BY <2>1, <3>1 DEF StepFits
  <2>4. \A j \in 1 .. Width : states[Slot(laStep[k].req, j)] = slots[Slot(laStep[k].req, j)]
    BY <2>2, <2>3, FinalAre
  <2>5. \A j \in 1 .. laStep[k].len : j \in 1 .. Width BY <2>2
  <2> QED BY <1>2, <2>4, <2>5 DEF Stepped
<1>3. ASSUME NEW r \in Reqs, NotOf(NonSpecSeqs, r), Held(slots, r) PROVE Held(states, r)
  <2>1. (IF InPrompt(r) THEN 1 ELSE accepted[r]) \in 1 .. Width BY SlotsApart DEF LayerTypeOK
  <2>2. \A j \in 1 .. Width : states[Slot(r, j)] = slots[Slot(r, j)]
    BY <1>3, FinalAre DEF NotOf
  <2> QED BY <1>3, <2>1, <2>2, Zenon DEF Held
<1>4. DOMAIN states = 0 .. Len(LayerPrompts) * Width BY FinalAre
<1> QED BY <1>1, <1>2, <1>3, <1>4

\* Rows that are written in place; and what is already there of other requests.
LEMMA RowsWritten ==
  ASSUME StepFits, NEW part \in SUBSET DOMAIN laStep, NEW attn, NEW buf,
         DOMAIN attn = PartRows(DOMAIN laStep), InOwnRows(buf, part)
  PROVE  /\ DOMAIN Put(attn, RowsOf(part), buf) = PartRows(DOMAIN laStep)
         /\ InRows(Put(attn, RowsOf(part), buf), part, 0)
         /\ \A other \in SUBSET DOMAIN laStep :
              (other \cap part = {}) /\ InRows(attn, other, 0) => InRows(Put(attn, RowsOf(part), buf), other, 0)
<1>1. StepShape BY DEF StepFits, StepShape
<1>2. /\ DOMAIN Put(attn, RowsOf(part), buf) = PartRows(DOMAIN laStep)
      /\ \A t \in StepTokens(DOMAIN laStep) :
           Put(attn, RowsOf(part), buf)[StepRow(t)]
             = IF t[1] \in part THEN buf[RowAmong(part, t)] ELSE attn[StepRow(t)]
  BY <1>1, PutRows
<1>3. \A some \in SUBSET DOMAIN laStep : \A t \in StepTokens(some) : t \in StepTokens(DOMAIN laStep) /\ t[1] \in some
  BY DEF StepTokens
<1>4. InRows(Put(attn, RowsOf(part), buf), part, 0) BY <1>2, <1>3 DEF InRows, InOwnRows
<1>5. ASSUME NEW other \in SUBSET DOMAIN laStep, other \cap part = {}, InRows(attn, other, 0)
      PROVE  InRows(Put(attn, RowsOf(part), buf), other, 0)
  <2>1. \A t \in StepTokens(other) : t \in StepTokens(DOMAIN laStep) /\ t[1] \notin part BY <1>3, <1>5
  <2> QED BY <1>2, <1>5, <2>1 DEF InRows
<1> QED BY <1>2, <1>4, <1>5

\* A part that was computed from its requests' states has its outputs in its own rows.
LEMMA OwnRowsAre ==
  ASSUME StepFits, NEW part \in SUBSET DOMAIN laStep, NEW Of, \A k \in part : Computed(Of[k], k)
  PROVE  InOwnRows(AllRows(part, Of), part)
<1>1. StepShape BY DEF StepFits, StepShape
<1>2. \A t \in StepTokens(part) : t[1] \in part BY DEF StepTokens
<1> QED BY <1>1, <1>2, OutputsAre DEF InOwnRows

\* What is there of both parts is there of the step.
LEMMA RowsOfBoth ==
  ASSUME laEnv \in LayerEnvs, NEW attn, NEW n, InRows(attn, SpecSeqs, n), InRows(attn, NonSpecSeqs, n)
  PROVE  InRows(attn, DOMAIN laStep, n)
<1>1. \A t \in StepTokens(DOMAIN laStep) : t \in StepTokens(SpecSeqs) \/ t \in StepTokens(NonSpecSeqs)
  BY TwoParts DEF StepTokens
<1> QED BY <1>1 DEF InRows

\* Normalizing, once.
LEMMA NormsOnce ==
  ASSUME StepFits, NEW attn, DOMAIN attn = PartRows(DOMAIN laStep), InRows(attn, DOMAIN laStep, 0), NEW normed,
         normed = [i \in DOMAIN attn |-> [attn[i] EXCEPT !.norms = @ + 1]]
  PROVE  DOMAIN normed = PartRows(DOMAIN laStep) /\ InRows(normed, DOMAIN laStep, 1)
<1>1. StepShape BY DEF StepFits, StepShape
<1>2. ASSUME NEW t \in StepTokens(DOMAIN laStep) PROVE normed[StepRow(t)] = OutputOf(t, 1)
  <2>1. StepRow(t) \in DOMAIN attn BY <1>1, RowsAreTokens DEF StepRow
  <2>2. attn[StepRow(t)] = OutputOf(t, 0) BY DEF InRows
  <2>3. normed[StepRow(t)] = [OutputOf(t, 0) EXCEPT !.norms = @ + 1] BY <2>1, <2>2
  <2>4. \A x : [[state |-> x, norms |-> 0] EXCEPT !.norms = @ + 1] = [state |-> x, norms |-> 1] OBVIOUS
  <2> QED BY <2>3, <2>4 DEF OutputOf
<1> QED BY <1>2 DEF InRows

--------------------------------------------------------------------------------
\* The functions that the plugin replaces call kernels that have what they were compiled for.
LEMMA GdnKernelsFit ==
  ASSUME ChoiceStands, laStage \in GdnStages
  PROVE  /\ Demands(fused_sigmoid_gating_delta_rule_update)
         /\ fused_sigmoid_gating_delta_rule_update # "flashqla"
         /\ Demands(fused_recurrent_gated_delta_rule_packed_decode)
         /\ fused_recurrent_gated_delta_rule_packed_decode # "flashqla"
         /\ _can_use_fused_gdn_mtp_decode => Demands("fused_gdn")
         /\ laBackend.prefill = "pla" => Demands("flashqla")
<1>1. laBackend.prefill = _resolve_gdn_prefill_backend
  BY DEF ChoiceStands, GdnStages, GdnBackends
<1>2. laBackend.prefill = "pla" => Demands("flashqla")
  BY <1>1 DEF _resolve_gdn_prefill_backend, _pla_prefill_supported, Demands
<1>3. _can_use_fused_gdn_mtp_decode => Demands("fused_gdn")
  BY DEF _can_use_fused_gdn_mtp_decode, _fused_gdn_decode_unsupported_reason, Demands
<1>4. /\ Demands(fused_sigmoid_gating_delta_rule_update)
      /\ fused_sigmoid_gating_delta_rule_update # "flashqla"
  BY DEF fused_sigmoid_gating_delta_rule_update, get_sail_cuda_pla_k_last, Demands
<1>5. /\ Demands(fused_recurrent_gated_delta_rule_packed_decode)
      /\ fused_recurrent_gated_delta_rule_packed_decode # "flashqla"
  BY DEF fused_recurrent_gated_delta_rule_packed_decode, get_sail_cuda_pla_k_last, Demands
<1> QED BY <1>2, <1>3, <1>4, <1>5

\* KDA's native kernels run where they have what they were compiled for, and none with a
\* cache that wants checkpoints.
LEMMA KdaKernelsFit ==
  ASSUME ChoiceStands, laStage \in KdaStages
  PROVE  /\ laBackend.decode # "triton" => Demands("mega") /\ laEnv.use_pla
         /\ laBackend.prefill = "flashkda" => Demands("flashkda") /\ laBackend.checkpoint_blocks = 0
<1>1. get_pla_kda_kernel = "kernel" => laEnv.use_pla /\ laEnv.library BY DEF get_pla_kda_kernel
<1>2. is_fused_kda_decode_supported = "kernel" => laEnv.k128 /\ laEnv.use_pla /\ laEnv.library
  BY <1>1 DEF is_fused_kda_decode_supported
<1>3. is_flashkda_supported = "kernel" => laEnv.k128 /\ laEnv.library
  BY <1>1 DEF is_flashkda_supported
<1>4. _get_kv_cache_spec("flashkda") = 0 BY DEF _get_kv_cache_spec
<1> QED BY <1>2, <1>3, <1>4, KdaConstructed DEF Demands

\* The slots after the drafts are verified.
LEMMA SlotsAfterSpec ==
  ASSUME laEnv \in LayerEnvs, LayerTypeOK, StepFits, SlotsHold("spec", slots),
         NEW kernel, Demands(kernel), kernel # "flashqla",
         NEW states, states = VerifiedSlots(Verify(kernel)), NEW stage \in MiddleStages
  PROVE  /\ SlotsHold(stage, states)
         /\ \A k \in SpecSeqs : Computed(Verify(kernel)[k], k)
<1>1. DOMAIN slots = 0 .. Len(LayerPrompts) * Width /\ \A r \in Reqs : Held(slots, r)
  BY DEF SlotsHold, FirstStages
<1>2. /\ DOMAIN states = 0 .. Len(LayerPrompts) * Width
      /\ \A k \in SpecSeqs : Stepped(states, k)
      /\ \A r \in Reqs : NotOf(SpecSeqs, r) => Held(states, r)
      /\ \A k \in SpecSeqs : Computed(Verify(kernel)[k], k)
  BY <1>1, SpecWritten
<1>3. \A r \in Reqs : NotOf(DOMAIN laStep, r) => NotOf(SpecSeqs, r) BY TwoParts DEF NotOf
<1>4. \A k \in NonSpecSeqs : laStep[k].req \in Reqs /\ NotOf(SpecSeqs, laStep[k].req)
  <2> SUFFICES ASSUME NEW k \in NonSpecSeqs
               PROVE  laStep[k].req \in Reqs /\ NotOf(SpecSeqs, laStep[k].req)
    OBVIOUS
  <2>1. k \in DOMAIN laStep /\ \A q \in SpecSeqs : q \in DOMAIN laStep /\ q # k BY TwoParts
  <2> QED BY <2>1, StepType DEF StepFits, NotOf
<1>5. stage \notin BetweenStages \cup FirstStages /\ stage \notin LastStages
  BY DEF BetweenStages, FirstStages, MiddleStages, LastStages
<1> QED BY <1>2, <1>3, <1>4, <1>5 DEF SlotsHold

\* The slots after the prompts and the plain decodes.
LEMMA SlotsAfterNonSpec ==
  ASSUME laEnv \in LayerEnvs, LayerTypeOK, StepFits, SlotsHold("nonspec", slots),
         NEW last, \A k \in NonSpecSeqs : KeptLast(last[k], k),
         NEW states, states = FinalSlots(last), NEW stage \in LastStages
  PROVE  SlotsHold(stage, states)
<1>1. /\ DOMAIN slots = 0 .. Len(LayerPrompts) * Width
      /\ \A r \in Reqs : NotOf(DOMAIN laStep, r) => Held(slots, r)
      /\ \A k \in SpecSeqs : Stepped(slots, k)
  BY DEF SlotsHold, MiddleStages
<1>2. /\ DOMAIN states = 0 .. Len(LayerPrompts) * Width
      /\ \A k \in NonSpecSeqs : Ended(states, k)
      /\ \A k \in SpecSeqs : Stepped(slots, k) => Stepped(states, k)
      /\ \A r \in Reqs : NotOf(NonSpecSeqs, r) /\ Held(slots, r) => Held(states, r)
  BY <1>1, NonSpecWritten
<1>3. \A r \in Reqs : NotOf(DOMAIN laStep, r) => NotOf(NonSpecSeqs, r) BY TwoParts DEF NotOf
<1>4. stage \notin BetweenStages \cup FirstStages /\ stage \notin MiddleStages
  BY DEF BetweenStages, FirstStages, MiddleStages, LastStages
<1> QED BY <1>1, <1>2, <1>3, <1>4 DEF SlotsHold

\* The middle stages, and the last ones, say the same of the slots.
LEMMA SameSlots ==
  /\ \A states : SlotsHold("nonspec-kda", states) => SlotsHold("nonspec", states)
  /\ \A states : SlotsHold("forward", states) => SlotsHold("spec", states)
  /\ \A states : SlotsHold("norm", states) => SlotsHold("served", states)
  /\ \A states : SlotsHold("restore", states) => SlotsHold("served", states)
  /\ SpecSeqs = {} => \A states : SlotsHold("forward", states) /\ StepFits => SlotsHold("nonspec", states)
<1>1. SpecSeqs = {} => \A states : SlotsHold("forward", states) /\ StepFits => SlotsHold("nonspec", states)
  <2> SUFFICES ASSUME SpecSeqs = {}, NEW states, SlotsHold("forward", states), StepFits
               PROVE  SlotsHold("nonspec", states)
    OBVIOUS
  <2>1. \A k \in NonSpecSeqs : laStep[k].req \in Reqs BY TwoParts, StepType
  <2> QED BY <2>1 DEF SlotsHold, BetweenStages, FirstStages, MiddleStages, LastStages
<1> QED BY <1>1 DEF SlotsHold, BetweenStages, FirstStages, MiddleStages, LastStages

\* The states of prompts and plain decodes, by a kernel that fits.
LEMMA NonSpecComputed ==
  ASSUME laEnv \in LayerEnvs, LayerTypeOK, StepFits, SlotsHold("nonspec", slots),
         NEW kernel, Demands(kernel), kernel # "flashqla",
         NEW states, states = [k \in NonSpecSeqs |-> Recur(kernel, Initial(k), TokensOf(k))]
  PROVE  \A k \in NonSpecSeqs : Computed(states[k], k) /\ KeptLast(states[k], k)
<1>1. \A k \in NonSpecSeqs : Held(slots, laStep[k].req) BY DEF SlotsHold, MiddleStages
<1> QED BY <1>1, DecodeAre

\* GDN's drafts: the slots of their requests have a state for each token.
LEMMA gdn_spec_keeps == ASSUME KernelsInv, TokensInv, gdn_spec PROVE TokensInv'
<1> DEFINE kernel == IF _can_use_fused_gdn_mtp_decode /\ NonSpecSeqs = {} THEN "fused_gdn"
                     ELSE fused_sigmoid_gating_delta_rule_update
           states == VerifiedSlots(Verify(kernel))
           buf == AllRows(SpecSeqs, Verify(kernel))
<1>1. /\ laStage = "spec" /\ laStage' = "nonspec" /\ Forward
      /\ slots' = states /\ attnOut' = Put(attnOut, RowsOf(SpecSeqs), buf)
  BY DEF gdn_spec, Forward
<1>2. laEnv \in LayerEnvs /\ ChoiceStands BY DEF KernelsInv, ChoiceStands
<1>3. LayerTypeOK /\ StepFits /\ SlotsHold("spec", slots) /\ DOMAIN attnOut = PartRows(DOMAIN laStep)
  BY <1>1 DEF TokensInv, TokensAre, RowsHold, BetweenStages
<1>4. Demands(kernel) /\ kernel # "flashqla" BY <1>1, <1>2, GdnKernelsFit DEF GdnStages
<1> HIDE DEF kernel
<1>5. SlotsHold("nonspec", states) /\ \A k \in SpecSeqs : Computed(Verify(kernel)[k], k)
  BY <1>2, <1>3, <1>4, SlotsAfterSpec DEF MiddleStages
<1>6. InOwnRows(buf, SpecSeqs) BY <1>3, <1>5, TwoParts, OwnRowsAre
<1>7. DOMAIN attnOut' = PartRows(DOMAIN laStep) /\ InRows(attnOut', SpecSeqs, 0)
  BY <1>1, <1>3, <1>6, TwoParts, RowsWritten
<1>8. TokensAre("nonspec", slots', attnOut', specOut', nonSpecOut')
  BY <1>1, <1>3, <1>5, <1>7 DEF TokensAre, RowsHold, BetweenStages, FirstStages, MiddleStages, LastStages
<1> QED BY <1>1, <1>8, ForwardKeeps

\* GDN's prompts or plain decodes, after its drafts: their rows complete the step's.
LEMMA gdn_nonspec_keeps ==
  ASSUME KernelsInv, TokensInv, laStage = "nonspec", laStage' = "norm", Forward,
         NEW states, \A k \in NonSpecSeqs : Computed(states[k], k) /\ KeptLast(states[k], k),
         slots' = FinalSlots(states),
         attnOut' = Put(attnOut, RowsOf(NonSpecSeqs), AllRows(NonSpecSeqs, states))
  PROVE  TokensInv'
<1>1. laEnv \in LayerEnvs BY DEF KernelsInv, ChoiceStands
<1>2. /\ LayerTypeOK /\ StepFits /\ SlotsHold("nonspec", slots)
      /\ DOMAIN attnOut = PartRows(DOMAIN laStep) /\ InRows(attnOut, SpecSeqs, 0)
  BY DEF TokensInv, TokensAre, RowsHold, BetweenStages
<1>3. SlotsHold("norm", slots') BY <1>1, <1>2, SlotsAfterNonSpec DEF LastStages
<1>4. InOwnRows(AllRows(NonSpecSeqs, states), NonSpecSeqs) BY <1>2, TwoParts, OwnRowsAre
<1>5. /\ DOMAIN attnOut' = PartRows(DOMAIN laStep) /\ InRows(attnOut', NonSpecSeqs, 0)
      /\ InRows(attnOut', SpecSeqs, 0)
  BY <1>2, <1>4, TwoParts, RowsWritten
<1>6. InRows(attnOut', DOMAIN laStep, 0) BY <1>1, <1>5, RowsOfBoth
<1>7. TokensAre("norm", slots', attnOut', specOut', nonSpecOut')
  BY <1>2, <1>3, <1>5, <1>6 DEF TokensAre, RowsHold, BetweenStages, FirstStages, MiddleStages, LastStages
<1> QED BY <1>7, ForwardKeeps

\* GDN's plain decodes.
LEMMA gdn_decode_keeps == ASSUME KernelsInv, TokensInv, gdn_decode PROVE TokensInv'
<1> DEFINE kernel == IF HasSpec THEN fused_sigmoid_gating_delta_rule_update
                     ELSE fused_recurrent_gated_delta_rule_packed_decode
           states == [k \in NonSpecSeqs |-> Recur(kernel, Initial(k), TokensOf(k))]
<1>1. /\ laStage = "nonspec" /\ laStage' = "norm" /\ Forward /\ slots' = FinalSlots(states)
      /\ attnOut' = Put(attnOut, RowsOf(NonSpecSeqs), AllRows(NonSpecSeqs, states))
  BY DEF gdn_decode, Forward
<1>2. Demands(kernel) /\ kernel # "flashqla" BY <1>1, GdnKernelsFit DEF KernelsInv, GdnStages
<1>3. \A k \in NonSpecSeqs : Computed(states[k], k) /\ KeptLast(states[k], k)
  <2>1. laEnv \in LayerEnvs /\ LayerTypeOK /\ StepFits /\ SlotsHold("nonspec", slots)
    BY <1>1 DEF KernelsInv, ChoiceStands, TokensInv, TokensAre, BetweenStages
  <2> HIDE DEF kernel
  <2> QED BY <1>2, <2>1, NonSpecComputed
<1> HIDE DEF states
<1> QED BY <1>1, <1>3, gdn_nonspec_keeps

\* GDN's prompts, with PLA, which keeps its states the other way round, or with Triton.
LEMMA gdn_prefill_keeps == ASSUME KernelsInv, TokensInv, gdn_prefill PROVE TokensInv'
<1> DEFINE triton == [k \in NonSpecSeqs |-> Recur("triton", Initial(k), TokensOf(k))]
           states == IF laBackend.prefill = "pla" THEN forward_pla ELSE triton
<1>1. /\ laStage = "nonspec" /\ laStage' = "norm" /\ Forward /\ slots' = FinalSlots(states)
      /\ attnOut' = Put(attnOut, RowsOf(NonSpecSeqs), AllRows(NonSpecSeqs, states))
  BY DEF gdn_prefill, Forward
<1>2. laEnv \in LayerEnvs /\ LayerTypeOK /\ StepFits /\ SlotsHold("nonspec", slots)
  BY <1>1 DEF KernelsInv, ChoiceStands, TokensInv, TokensAre, BetweenStages
<1>3. Demands("triton") BY DEF Demands
<1>4. \A k \in NonSpecSeqs : Computed(triton[k], k) /\ KeptLast(triton[k], k)
  BY <1>2, <1>3, NonSpecComputed
<1>5. laBackend.prefill = "pla" =>
        \A k \in NonSpecSeqs : Computed(forward_pla[k], k) /\ KeptLast(forward_pla[k], k)
  <2>1. laBackend.prefill = "pla" => Demands("flashqla") BY <1>1, GdnKernelsFit DEF KernelsInv, GdnStages
  <2>2. \A k \in NonSpecSeqs : Held(slots, laStep[k].req) BY <1>2 DEF SlotsHold, MiddleStages
  <2> QED BY <1>2, <2>1, <2>2, PlaAre
<1> HIDE DEF triton
<1>6. \A k \in NonSpecSeqs : Computed(states[k], k) /\ KeptLast(states[k], k) BY <1>4, <1>5
<1> HIDE DEF states
<1> QED BY <1>1, <1>6, gdn_nonspec_keeps

\* GDN's output norm.
LEMMA gdn_norm_keeps == ASSUME KernelsInv, TokensInv, gdn_norm PROVE TokensInv'
<1>1. /\ laStage = "norm" /\ laStage' = "served" /\ Forward /\ slots' = slots
      /\ attnOut' = [i \in DOMAIN attnOut |-> [attnOut[i] EXCEPT !.norms = @ + 1]]
  BY DEF gdn_norm, Forward
<1>2. /\ LayerTypeOK /\ StepFits /\ SlotsHold("norm", slots)
      /\ DOMAIN attnOut = PartRows(DOMAIN laStep) /\ InRows(attnOut, DOMAIN laStep, 0)
  BY <1>1 DEF TokensInv, TokensAre, RowsHold, BetweenStages
<1>3. DOMAIN attnOut' = PartRows(DOMAIN laStep) /\ InRows(attnOut', DOMAIN laStep, 1)
  BY <1>1, <1>2, NormsOnce
<1>4. SlotsHold("served", slots') BY <1>1, <1>2, SameSlots
<1>5. TokensAre("served", slots', attnOut', specOut', nonSpecOut')
  BY <1>2, <1>3, <1>4 DEF TokensAre, RowsHold, BetweenStages, FirstStages, MiddleStages, LastStages
<1> QED BY <1>1, <1>5, ForwardKeeps

\* KDA's plain decodes in one kernel, which has no drafts beside them and normalizes itself.
LEMMA fused_kda_keeps == ASSUME KernelsInv, TokensInv, fused_kda_decode_mega_forward PROVE TokensInv'
<1> DEFINE states == [k \in NonSpecSeqs |-> Recur("mega", Initial(k), TokensOf(k))]
           put == Put(attnOut, RowsOf(NonSpecSeqs), AllRows(NonSpecSeqs, states))
<1>1. laEnv \in LayerEnvs /\ laStage = "forward" /\ laBackend.decode # "triton" /\ SpecSeqs = {}
  BY DEF KernelsInv, ChoiceStands, fused_kda_decode_mega_forward, HasSpec
<1>2. Demands("mega") /\ laEnv.use_pla BY <1>1, KdaKernelsFit DEF KernelsInv, KdaStages
<1>3. /\ laStage' = "served" /\ Forward /\ slots' = FinalSlots(states)
      /\ attnOut' = [i \in DOMAIN attnOut |-> [put[i] EXCEPT !.norms = 1]]
  BY <1>2 DEF fused_kda_decode_mega_forward, Forward
<1>4. /\ LayerTypeOK /\ StepFits /\ SlotsHold("forward", slots)
      /\ DOMAIN attnOut = PartRows(DOMAIN laStep)
  BY <1>1 DEF TokensInv, TokensAre, RowsHold, BetweenStages
<1>5. SlotsHold("nonspec", slots) BY <1>1, <1>4, SameSlots
<1>6. \A k \in NonSpecSeqs : Computed(states[k], k) /\ KeptLast(states[k], k)
  <2>1. "mega" # "flashqla" OBVIOUS
  <2> QED BY <1>1, <1>2, <1>4, <1>5, <2>1, NonSpecComputed
<1> HIDE DEF states
<1>7. SlotsHold("served", slots') BY <1>1, <1>3, <1>4, <1>5, <1>6, SlotsAfterNonSpec DEF LastStages
<1>8. InOwnRows(AllRows(NonSpecSeqs, states), NonSpecSeqs) BY <1>4, <1>6, TwoParts, OwnRowsAre
<1>9. DOMAIN put = PartRows(DOMAIN laStep) /\ InRows(put, NonSpecSeqs, 0)
  BY <1>4, <1>8, TwoParts, RowsWritten
<1>10. NonSpecSeqs = DOMAIN laStep BY <1>1, TwoParts
<1> HIDE DEF put
<1>11. InRows(attnOut', DOMAIN laStep, 1)
  <2>1. StepShape BY <1>4 DEF StepFits, StepShape
  <2> SUFFICES ASSUME NEW t \in StepTokens(DOMAIN laStep) PROVE attnOut'[StepRow(t)] = OutputOf(t, 1)
    BY DEF InRows
  <2>2. StepRow(t) \in DOMAIN attnOut BY <1>4, <2>1, RowsAreTokens DEF StepRow
  <2>3. put[StepRow(t)] = OutputOf(t, 0) BY <1>9, <1>10 DEF InRows
  <2>4. \A x : [[state |-> x, norms |-> 0] EXCEPT !.norms = 1] = [state |-> x, norms |-> 1] OBVIOUS
  <2> QED BY <1>3, <2>2, <2>3, <2>4 DEF OutputOf
<1>12. DOMAIN attnOut' = PartRows(DOMAIN laStep) BY <1>3, <1>4
<1>13. TokensAre("served", slots', attnOut', specOut', nonSpecOut')
  BY <1>4, <1>7, <1>11, <1>12 DEF TokensAre, RowsHold, BetweenStages, FirstStages, MiddleStages, LastStages
<1> QED BY <1>3, <1>13, ForwardKeeps

\* KDA's drafts: in place where nothing is between them, or in rows of their own.
LEMMA kda_spec_keeps == ASSUME KernelsInv, TokensInv, kda_spec PROVE TokensInv'
<1> DEFINE states == VerifiedSlots(Verify("triton"))
           rows == AllRows(SpecSeqs, Verify("triton"))
           direct == NonSpecSeqs = {} \/ Sliced
<1>1. /\ laStage = "forward" /\ laStage' = "nonspec-kda" /\ Forward /\ slots' = states
      /\ attnOut' = IF HasSpec /\ direct THEN Put(attnOut, RowsOf(SpecSeqs), rows) ELSE attnOut
      /\ specOut' = IF HasSpec /\ ~ direct THEN rows ELSE InPlace
  BY DEF kda_spec, Forward
<1>2. laEnv \in LayerEnvs BY DEF KernelsInv, ChoiceStands
<1>3. /\ LayerTypeOK /\ StepFits /\ SlotsHold("forward", slots)
      /\ DOMAIN attnOut = PartRows(DOMAIN laStep)
  BY <1>1 DEF TokensInv, TokensAre, RowsHold, BetweenStages
<1>4. SlotsHold("nonspec-kda", states) /\ \A k \in SpecSeqs : Computed(Verify("triton")[k], k)
  <2>1. Demands("triton") /\ "triton" # "flashqla" BY DEF Demands
  <2>2. SlotsHold("spec", slots) BY <1>3, SameSlots
  <2> QED BY <1>2, <1>3, <2>1, <2>2, SlotsAfterSpec DEF MiddleStages
<1>5. InOwnRows(rows, SpecSeqs) BY <1>3, <1>4, TwoParts, OwnRowsAre
<1>6. /\ DOMAIN Put(attnOut, RowsOf(SpecSeqs), rows) = PartRows(DOMAIN laStep)
      /\ InRows(Put(attnOut, RowsOf(SpecSeqs), rows), SpecSeqs, 0)
  BY <1>3, <1>5, TwoParts, RowsWritten
<1>7. ~ HasSpec => InRows(attnOut', SpecSeqs, 0) /\ InOwnRows(specOut', SpecSeqs)
  <2>1. ~ HasSpec => StepTokens(SpecSeqs) = {} BY DEF HasSpec, StepTokens
  <2> QED BY <2>1 DEF InRows, InOwnRows
<1> HIDE DEF rows, states
<1>8. DOMAIN attnOut' = PartRows(DOMAIN laStep) BY <1>1, <1>3, <1>6
<1>9. IF direct THEN InRows(attnOut', SpecSeqs, 0) ELSE InOwnRows(specOut', SpecSeqs)
  BY <1>1, <1>5, <1>6, <1>7
<1>10. TokensAre("nonspec-kda", slots', attnOut', specOut', nonSpecOut')
  BY <1>1, <1>3, <1>4, <1>8, <1>9
     DEF TokensAre, RowsHold, BetweenStages, FirstStages, MiddleStages, LastStages
<1> QED BY <1>1, <1>10, ForwardKeeps

\* What a middle stage of KDA says of the rows of its drafts stands when other rows are written.
LEMMA kda_nonspec_keeps ==
  ASSUME KernelsInv, TokensInv, laStage = "nonspec-kda", laStage' = "restore", Forward, specOut' = specOut,
         NEW states, \A k \in NonSpecSeqs : Computed(states[k], k) /\ KeptLast(states[k], k),
         slots' = FinalSlots(states),
         NEW rows, rows = AllRows(NonSpecSeqs, states),
         attnOut' = (IF WrittenInPlace THEN Put(attnOut, RowsOf(NonSpecSeqs), rows) ELSE attnOut),
         ~ WrittenInPlace => nonSpecOut' = rows
  PROVE  TokensInv'
<1>1. laEnv \in LayerEnvs BY DEF KernelsInv, ChoiceStands
<1>2. /\ LayerTypeOK /\ StepFits /\ SlotsHold("nonspec-kda", slots)
      /\ DOMAIN attnOut = PartRows(DOMAIN laStep)
      /\ IF NonSpecSeqs = {} \/ Sliced THEN InRows(attnOut, SpecSeqs, 0) ELSE InOwnRows(specOut, SpecSeqs)
  BY DEF TokensInv, TokensAre, RowsHold, BetweenStages
<1>3. SlotsHold("restore", slots') BY <1>1, <1>2, SameSlots, SlotsAfterNonSpec DEF LastStages
<1>4. InOwnRows(rows, NonSpecSeqs) BY <1>2, TwoParts, OwnRowsAre
<1>5. /\ DOMAIN Put(attnOut, RowsOf(NonSpecSeqs), rows) = PartRows(DOMAIN laStep)
      /\ InRows(Put(attnOut, RowsOf(NonSpecSeqs), rows), NonSpecSeqs, 0)
      /\ InRows(attnOut, SpecSeqs, 0) => InRows(Put(attnOut, RowsOf(NonSpecSeqs), rows), SpecSeqs, 0)
  BY <1>2, <1>4, TwoParts, RowsWritten
<1>6. /\ DOMAIN attnOut' = PartRows(DOMAIN laStep)
      /\ InRows(attnOut, SpecSeqs, 0) => InRows(attnOut', SpecSeqs, 0)
      /\ IF WrittenInPlace THEN InRows(attnOut', NonSpecSeqs, 0) ELSE InOwnRows(nonSpecOut', NonSpecSeqs)
  BY <1>2, <1>4, <1>5
<1>7. IF NonSpecSeqs = {} \/ Sliced THEN InRows(attnOut', SpecSeqs, 0) ELSE InOwnRows(specOut', SpecSeqs)
  BY <1>2, <1>6
<1>8. TokensAre("restore", slots', attnOut', specOut', nonSpecOut')
  BY <1>2, <1>3, <1>6, <1>7 DEF TokensAre, RowsHold, BetweenStages, FirstStages, MiddleStages, LastStages
<1> QED BY <1>8, ForwardKeeps

\* KDA's prompts: whether they are in place is what the restoring step will believe.
LEMMA kda_prefill_keeps == ASSUME KernelsInv, TokensInv, kda_prefill PROVE TokensInv'
<1> DEFINE flashkda == laBackend.prefill = "flashkda"
           kernel == IF flashkda THEN "flashkda" ELSE "triton"
           states == [k \in NonSpecSeqs |->
                        IF flashkda THEN _flashkda_prefill(laBackend.checkpoint_blocks > 0, k)
                        ELSE Recur("triton", Initial(k), TokensOf(k))]
           rows == AllRows(NonSpecSeqs, states)
           direct == IF flashkda THEN flashkda_out = "core_attn_out" ELSE Sliced
<1>1. laEnv \in LayerEnvs /\ laStage = "nonspec-kda" /\ Prefills # {}
  BY DEF KernelsInv, ChoiceStands, kda_prefill
<1>2. flashkda => Demands("flashkda") /\ laBackend.checkpoint_blocks = 0
  BY <1>1, KdaKernelsFit DEF KernelsInv, KdaStages
<1>3. flashkda => ~ (laBackend.checkpoint_blocks > 0) BY <1>2
<1>4. /\ laStage' = "restore" /\ Forward /\ specOut' = specOut /\ slots' = FinalSlots(states)
      /\ attnOut' = IF direct THEN Put(attnOut, RowsOf(NonSpecSeqs), rows) ELSE attnOut
      /\ nonSpecOut' = IF direct THEN InPlace ELSE rows
  BY <1>3 DEF kda_prefill, Forward
<1>5. direct <=> WrittenInPlace BY <1>1 DEF WrittenInPlace, flashkda_out, Sliced
<1>6. states = [k \in NonSpecSeqs |-> Recur(kernel, Initial(k), TokensOf(k))]
  <2>1. CASE flashkda BY <1>3, <2>1 DEF _flashkda_prefill
  <2>2. CASE ~ flashkda BY <2>2
  <2> QED BY <2>1, <2>2
<1>7. /\ LayerTypeOK /\ StepFits /\ SlotsHold("nonspec", slots)
  BY <1>1, SameSlots DEF TokensInv, TokensAre, BetweenStages
<1>8. Demands(kernel) /\ kernel # "flashqla"
  <2>1. Demands("triton") BY DEF Demands
  <2> QED BY <1>2, <2>1
<1> HIDE DEF states, kernel, direct
<1>9. \A k \in NonSpecSeqs : Computed(states[k], k) /\ KeptLast(states[k], k)
  BY <1>1, <1>6, <1>7, <1>8, NonSpecComputed
<1> QED BY <1>1, <1>4, <1>5, <1>9, kda_nonspec_keeps

\* KDA's plain decodes: in place beside drafts that are not apart, or in rows of their own.
LEMMA fused_recurrent_kda_keeps ==
  ASSUME KernelsInv, TokensInv, fused_recurrent_kda_packed_decode
  PROVE  TokensInv'
<1> DEFINE states == [k \in NonSpecSeqs |-> Recur("triton", Initial(k), TokensOf(k))]
           rows == AllRows(NonSpecSeqs, states)
<1>1. /\ laStage = "nonspec-kda" /\ laStage' = "restore" /\ Forward /\ specOut' = specOut
      /\ slots' = FinalSlots(states) /\ Prefills = {}
      /\ attnOut' = IF Sliced THEN Put(attnOut, RowsOf(NonSpecSeqs), rows) ELSE attnOut
      /\ nonSpecOut' = IF Sliced THEN InPlace ELSE rows
  BY DEF fused_recurrent_kda_packed_decode, Forward
<1>2. laEnv \in LayerEnvs BY DEF KernelsInv, ChoiceStands
<1>3. WrittenInPlace <=> Sliced BY <1>1 DEF WrittenInPlace
<1>4. LayerTypeOK /\ StepFits /\ SlotsHold("nonspec", slots)
  BY <1>1, SameSlots DEF TokensInv, TokensAre, BetweenStages
<1>5. Demands("triton") /\ "triton" # "flashqla" BY DEF Demands
<1>6. \A k \in NonSpecSeqs : Computed(states[k], k) /\ KeptLast(states[k], k)
  BY <1>2, <1>4, <1>5, NonSpecComputed
<1> HIDE DEF states
<1> QED BY <1>1, <1>3, <1>6, kda_nonspec_keeps

\* Every row of the step comes from the buffer that its part was written to.
LEMMA restore_keeps == ASSUME KernelsInv, TokensInv, restore PROVE TokensInv'
<1> DEFINE both == Put(Put(attnOut, RowsOf(SpecSeqs), specOut), RowsOf(NonSpecSeqs), nonSpecOut)
           others == [i \in DOMAIN attnOut |-> nonSpecOut[i]]
           ordered ==
             IF HasSpec /\ NonSpecSeqs # {} THEN IF Sliced THEN attnOut ELSE both
             ELSE IF NonSpecSeqs # {}
             THEN IF laBackend.prefill # "flashkda" \/ Prefills = {} THEN others ELSE attnOut
             ELSE attnOut
<1>1. /\ laStage = "restore" /\ laStage' = "served" /\ Forward /\ slots' = slots
      /\ attnOut' = [i \in DOMAIN ordered |-> [ordered[i] EXCEPT !.norms = @ + 1]]
  BY DEF restore, Forward
<1>2. laEnv \in LayerEnvs BY DEF KernelsInv, ChoiceStands
<1>3. /\ LayerTypeOK /\ StepFits /\ SlotsHold("restore", slots)
      /\ DOMAIN attnOut = PartRows(DOMAIN laStep)
      /\ IF NonSpecSeqs = {} \/ Sliced THEN InRows(attnOut, SpecSeqs, 0) ELSE InOwnRows(specOut, SpecSeqs)
      /\ IF WrittenInPlace THEN InRows(attnOut, NonSpecSeqs, 0) ELSE InOwnRows(nonSpecOut, NonSpecSeqs)
  BY <1>1 DEF TokensInv, TokensAre, RowsHold, BetweenStages
<1>4. DOMAIN ordered = PartRows(DOMAIN laStep) /\ InRows(ordered, DOMAIN laStep, 0)
  <2>1. CASE HasSpec /\ NonSpecSeqs # {} /\ Sliced
    <3>1. WrittenInPlace /\ ordered = attnOut BY <2>1 DEF WrittenInPlace
    <3>2. InRows(attnOut, SpecSeqs, 0) /\ InRows(attnOut, NonSpecSeqs, 0) BY <1>3, <2>1, <3>1
    <3> HIDE DEF ordered
    <3>3. InRows(attnOut, DOMAIN laStep, 0) BY <1>2, <3>2, RowsOfBoth
    <3> QED BY <1>3, <3>1, <3>3
  <2>2. CASE HasSpec /\ NonSpecSeqs # {} /\ ~ Sliced
    <3>1. ~ WrittenInPlace /\ ordered = both BY <2>2 DEF WrittenInPlace
    <3>2. InOwnRows(specOut, SpecSeqs) /\ InOwnRows(nonSpecOut, NonSpecSeqs) BY <1>3, <2>2, <3>1
    <3> DEFINE first == Put(attnOut, RowsOf(SpecSeqs), specOut)
    <3>3. DOMAIN first = PartRows(DOMAIN laStep) /\ InRows(first, SpecSeqs, 0)
      BY <1>3, <3>2, TwoParts, RowsWritten
    <3> HIDE DEF first
    <3> DEFINE second == Put(first, RowsOf(NonSpecSeqs), nonSpecOut)
    <3>4. /\ DOMAIN second = PartRows(DOMAIN laStep) /\ InRows(second, NonSpecSeqs, 0)
          /\ InRows(second, SpecSeqs, 0)
      BY <1>3, <3>2, <3>3, TwoParts, RowsWritten
    <3>5. second = both BY DEF first
    <3> HIDE DEF second, ordered, both
    <3>6. InRows(second, DOMAIN laStep, 0) BY <1>2, <3>4, RowsOfBoth
    <3> QED BY <3>1, <3>4, <3>5, <3>6
  <2>3. CASE ~ HasSpec /\ NonSpecSeqs # {}
    <3>1. SpecSeqs = {} /\ NonSpecSeqs = DOMAIN laStep BY <1>2, <2>3, TwoParts DEF HasSpec
    <3>2. WrittenInPlace <=> ~ (laBackend.prefill # "flashkda" \/ Prefills = {}) BY <2>3 DEF WrittenInPlace, Sliced
    <3>3. CASE WrittenInPlace
      <4>1. ordered = attnOut BY <2>3, <3>2, <3>3
      <4> QED BY <1>3, <3>1, <3>3, <4>1
    <3>4. CASE ~ WrittenInPlace
      <4>1. ordered = others BY <2>3, <3>2, <3>4
      <4>2. InOwnRows(nonSpecOut, DOMAIN laStep) BY <1>3, <3>1, <3>4
      <4>3. StepShape BY <1>3 DEF StepFits, StepShape
      <4>4. \A t \in StepTokens(DOMAIN laStep) : others[StepRow(t)] = OutputOf(t, 0)
        <5> SUFFICES ASSUME NEW t \in StepTokens(DOMAIN laStep) PROVE others[StepRow(t)] = OutputOf(t, 0)
          OBVIOUS
        <5>1. StepRow(t) \in DOMAIN attnOut BY <1>3, <4>3, RowsAreTokens DEF StepRow
        <5> QED BY <4>2, <5>1 DEF InOwnRows, StepRow
      <4>5. DOMAIN others = PartRows(DOMAIN laStep) BY <1>3
      <4> HIDE DEF ordered, others
      <4> QED BY <4>1, <4>4, <4>5 DEF InRows
    <3> QED BY <3>3, <3>4
  <2>4. CASE NonSpecSeqs = {}
    <3>1. ordered = attnOut /\ InRows(attnOut, SpecSeqs, 0) BY <1>3, <2>4
    <3>2. SpecSeqs = DOMAIN laStep BY <1>2, <2>4, TwoParts
    <3> HIDE DEF ordered
    <3> QED BY <1>3, <3>1, <3>2
  <2> QED BY <2>1, <2>2, <2>3, <2>4
<1> HIDE DEF ordered
<1>5. DOMAIN attnOut' = PartRows(DOMAIN laStep) /\ InRows(attnOut', DOMAIN laStep, 1)
  BY <1>1, <1>3, <1>4, NormsOnce
<1>6. SlotsHold("served", slots') BY <1>1, <1>3, SameSlots
<1>7. TokensAre("served", slots', attnOut', specOut', nonSpecOut')
  BY <1>3, <1>5, <1>6 DEF TokensAre, RowsHold, BetweenStages, FirstStages, MiddleStages, LastStages
<1> QED BY <1>1, <1>7, ForwardKeeps

\* Between steps: nothing of a request has changed but where the step is.
LEMMA SameRequests ==
  ASSUME laEnv' = laEnv, done' = done, text' = text, accepted' = accepted
  PROVE  /\ LayerTypeOK' <=> LayerTypeOK
         /\ Width' = Width
         /\ \A r : InPrompt(r)' <=> InPrompt(r)
<1> QED BY DEF LayerTypeOK, Width, Reqs, InPrompt

\* The construction has no tokens.
LEMMA construct_layer_keeps == ASSUME TokensInv, construct_layer PROVE TokensInv'
<1>1. /\ laStage = "construct" /\ laStage' \in BetweenStages
      /\ laEnv' = laEnv /\ slots' = slots /\ done' = done /\ text' = text /\ accepted' = accepted
  BY DEF construct_layer, BetweenStages
<1>2. LayerTypeOK /\ DOMAIN slots = 0 .. Len(LayerPrompts) * Width /\ \A r \in Reqs : Held(slots, r)
  BY <1>1 DEF TokensInv, TokensAre, SlotsHold, BetweenStages
<1>3. LayerTypeOK' /\ Width' = Width BY <1>1, <1>2, SameRequests
<1>4. \A r \in Reqs : Held(slots, r)' BY <1>1, <1>2 DEF Held, Slot, Width, StateAt, Prefix, InPrompt
<1>5. (DOMAIN slots = 0 .. Len(LayerPrompts) * Width)' BY <1>1, <1>2, <1>3
<1>6. \A r \in Reqs' : Held(slots, r)' BY <1>4 DEF Reqs
<1> QED BY <1>1, <1>3, <1>5, <1>6
        DEF TokensInv, TokensAre, SlotsHold, RowsHold, BetweenStages, FirstStages, MiddleStages, LastStages

--------------------------------------------------------------------------------
\* The requests of a step in their order: as many as there are, each once.
LEMMA OrdersAre ==
  ASSUME NEW R, IsFiniteSet(R), NEW order \in SetToSeqs(R)
  PROVE  /\ order \in [1 .. Cardinality(R) -> R] /\ Cardinality(R) \in Nat
         /\ \A k, q \in DOMAIN order : order[k] = order[q] => k = q
BY FS_CardinalityType DEF SetToSeqs

\* A step of the scheduler fits the requests, their slots and their length.
LEMMA ScheduleLayer_keeps == ASSUME KernelsInv, TokensInv, ScheduleLayer PROVE TokensInv'
<1>1. /\ laStage = "idle" /\ laStage' \in FirstStages
      /\ laEnv' = laEnv /\ slots' = slots /\ done' = done /\ text' = text /\ accepted' = accepted
      /\ DOMAIN attnOut' = PartRows(DOMAIN laStep)'
  BY DEF ScheduleLayer, FirstStages
<1>2. /\ LayerTypeOK /\ DOMAIN slots = 0 .. Len(LayerPrompts) * Width /\ \A r \in Reqs : Held(slots, r)
      /\ laEnv \in LayerEnvs
  BY <1>1 DEF TokensInv, TokensAre, SlotsHold, BetweenStages, KernelsInv, ChoiceStands
<1>3. LayerTypeOK' /\ Width' = Width /\ \A r : InPrompt(r)' <=> InPrompt(r) BY <1>1, <1>2, SameRequests
<1>4. \A r \in Reqs' : Held(slots, r)'
  BY <1>1, <1>2 DEF Held, Slot, Width, StateAt, Prefix, InPrompt, Reqs
<1>5. (DOMAIN slots = 0 .. Len(LayerPrompts) * Width)' BY <1>1, <1>2, <1>3
<1>6. StepFits'
  <2> DEFINE Scheduled(R, drafted, order, len) ==
               /\ \A r \in R : ~ InPrompt(r) /\ r \notin drafted => accepted[r] = 1
               /\ \A r \in R : len[r] \in
                    IF InPrompt(r) THEN {1, LayerPrompts[r] - done[r]}
                    ELSE IF r \in drafted
                    THEN {IF Width < LayerContext - done[r] THEN Width ELSE LayerContext - done[r]}
                    ELSE {1}
               /\ laStep' = [k \in DOMAIN order |-> [req |-> order[k], len |-> len[order[k]],
                                                     spec |-> order[k] \in drafted]]
  <2>1. PICK R \in SUBSET { r \in Reqs : done[r] < LayerContext } \ {{}} :
          \E drafted \in SUBSET { r \in R : laEnv.drafts > 0 /\ ~ InPrompt(r) },
             order \in SetToSeqs(R), len \in [R -> 1 .. LayerContext] :
            Scheduled(R, drafted, order, len)
    BY Zenon DEF ScheduleLayer
  <2>2. PICK drafted \in SUBSET { r \in R : laEnv.drafts > 0 /\ ~ InPrompt(r) },
             order \in SetToSeqs(R), len \in [R -> 1 .. LayerContext] :
          Scheduled(R, drafted, order, len)
    BY <2>1, Zenon
  <2>3. R \subseteq Reqs /\ \A r \in R : done[r] < LayerContext BY <2>1
  <2>4. IsFiniteSet(R)
    <3>1. IsFiniteSet(Reqs) BY RequestRange, FS_Interval
    <3> QED BY <2>3, <3>1, FS_Subset
  <2> DEFINE m == Cardinality(R)
  <2>5. /\ order \in [1 .. m -> R] /\ m \in Nat
        /\ \A k, q \in 1 .. m : order[k] = order[q] => k = q
    BY <2>4, OrdersAre
  <2> HIDE DEF m
  <2>6. \A k \in 1 .. m : order[k] \in R /\ len[order[k]] \in 1 .. LayerContext BY <2>2, <2>5
  <2> DEFINE entry(k) == [req |-> order[k], len |-> len[order[k]], spec |-> order[k] \in drafted]
  <2>7. laStep' = [k \in 1 .. m |-> entry(k)] BY <2>2, <2>5
  <2>8. laStep' \in Seq([req : Reqs, len : 1 .. LayerContext, spec : BOOLEAN]) /\ DOMAIN laStep' = 1 .. m
    <3>1. \A k \in 1 .. m : entry(k) \in [req : Reqs, len : 1 .. LayerContext, spec : BOOLEAN]
      BY <2>3, <2>6
    <3> HIDE DEF entry
    <3> QED BY <2>5, <2>7, <3>1
  <2>9. \A k \in 1 .. m : /\ laStep'[k].req = order[k] /\ laStep'[k].len = len[order[k]]
                          /\ laStep'[k].spec <=> order[k] \in drafted
    BY <2>7
  <2>10. \A r \in R : /\ done[r] + len[r] <= LayerContext
                      /\ r \in drafted => len[r] <= Width /\ ~ InPrompt(r)
                      /\ r \notin drafted => InPrompt(r) \/ accepted[r] = 1
    <3> SUFFICES ASSUME NEW r \in R
                 PROVE  /\ done[r] + len[r] <= LayerContext
                        /\ r \in drafted => len[r] <= Width /\ ~ InPrompt(r)
                        /\ r \notin drafted => InPrompt(r) \/ accepted[r] = 1
      OBVIOUS
    <3>1. r \in Reqs /\ done[r] \in 0 .. LayerContext /\ done[r] < LayerContext BY <1>2, <2>3 DEF LayerTypeOK
    <3>2. LayerPrompts[r] \in 1 .. LayerContext BY <3>1, PromptAssumption, RequestRange, ElementOfSeq
    <3>3. Width \in Nat \ {0} /\ LayerContext \in Nat BY <1>2, SlotsApart, PromptAssumption
    <3>4. CASE InPrompt(r)
      <4>1. len[r] = 1 \/ len[r] = LayerPrompts[r] - done[r] BY <2>2, <3>4
      <4> QED BY <2>2, <3>1, <3>2, <3>3, <3>4, <4>1
    <3>5. CASE ~ InPrompt(r) /\ r \in drafted
      <4>1. len[r] = IF Width < LayerContext - done[r] THEN Width ELSE LayerContext - done[r]
        BY <2>2, <3>5
      <4> QED BY <3>1, <3>3, <3>5, <4>1
    <3>6. CASE ~ InPrompt(r) /\ r \notin drafted
      <4>1. len[r] = 1 /\ accepted[r] = 1 BY <2>2, <3>6
      <4> QED BY <3>1, <3>3, <3>6, <4>1
    <3> QED BY <3>4, <3>5, <3>6
  <2> HIDE DEF entry
  <2>11. \A k \in SpecSeqs' : k \in 1 .. m /\ order[k] \in drafted BY <2>8, <2>9 DEF SpecSeqs
  <2>12. \A k \in NonSpecSeqs' : k \in 1 .. m /\ order[k] \notin drafted BY <2>8, <2>9 DEF NonSpecSeqs
  <2>13. \A k \in 1 .. m : done'[laStep'[k].req] + laStep'[k].len <= LayerContext BY <1>1, <2>6, <2>9, <2>10
  <2>14. \A k \in SpecSeqs' : laStep'[k].len <= Width' /\ ~ (done'[laStep'[k].req] < LayerPrompts[laStep'[k].req])
    BY <1>1, <1>3, <2>6, <2>9, <2>10, <2>11 DEF InPrompt
  <2>15. \A k \in NonSpecSeqs' :
           done'[laStep'[k].req] < LayerPrompts[laStep'[k].req] \/ accepted'[laStep'[k].req] = 1
    BY <1>1, <2>6, <2>9, <2>10, <2>12 DEF InPrompt
  <2>16. \A k, q \in DOMAIN laStep' : laStep'[k].req = laStep'[q].req => k = q BY <2>5, <2>8, <2>9
  <2> QED BY <2>8, <2>13, <2>14, <2>15, <2>16 DEF StepFits, Reqs, InPrompt
<1> QED BY <1>1, <1>3, <1>4, <1>5, <1>6
        DEF TokensInv, TokensAre, SlotsHold, RowsHold, BetweenStages, FirstStages, MiddleStages, LastStages

\* The next request on the slots of one that is through starts from none of them.
LEMMA NextRequest_keeps ==
  ASSUME KernelsInv, TokensInv, NEW r \in Reqs, NextRequest(r)
  PROVE  TokensInv'
<1>1. /\ laStage = "idle" /\ laStage' = "idle" /\ laEnv' = laEnv /\ slots' = slots
      /\ done' = [done EXCEPT ![r] = 0] /\ accepted' = [accepted EXCEPT ![r] = 1]
      /\ text' = [text EXCEPT ![r] = [p \in DOMAIN text[r] |-> text[r][p] + 1]]
  BY DEF NextRequest
<1>2. /\ LayerTypeOK /\ DOMAIN slots = 0 .. Len(LayerPrompts) * Width /\ \A q \in Reqs : Held(slots, q)
      /\ laEnv \in LayerEnvs /\ DOMAIN text = Reqs
  BY <1>1 DEF TokensInv, TokensAre, SlotsHold, BetweenStages, KernelsInv, ChoiceStands, LayerTypeOK
<1>3. Width' = Width /\ Width \in Nat \ {0} BY <1>1, <1>2, SlotsApart DEF Width
<1>4. /\ \A q \in Reqs \ {r} : done'[q] = done[q] /\ accepted'[q] = accepted[q] /\ text'[q] = text[q]
      /\ done'[r] = 0 /\ accepted'[r] = 1 /\ DOMAIN text'[r] = DOMAIN text[r]
  BY <1>1, <1>2 DEF LayerTypeOK
<1>5. LayerTypeOK'
  <2>1. done' \in [Reqs -> 0 .. LayerContext] BY <1>1, <1>2, PromptAssumption DEF LayerTypeOK
  <2>2. accepted' \in [Reqs -> 1 .. Width'] BY <1>1, <1>2, <1>3 DEF LayerTypeOK
  <2>3. \A q \in Reqs : DOMAIN text'[q] = 0 .. LayerContext - 1
    BY <1>2, <1>4 DEF LayerTypeOK
  <2>4. DOMAIN text' = Reqs BY <1>1, <1>2
  <2> QED BY <2>1, <2>2, <2>3, <2>4 DEF LayerTypeOK, Reqs
<1>6. \A q \in Reqs : Held(slots, q)'
  <2> SUFFICES ASSUME NEW q \in Reqs PROVE Held(slots, q)' OBVIOUS
  <2>1. CASE q = r BY <1>4, <2>1 DEF Held
  <2>2. CASE q # r
    <3>1. Held(slots, q) BY <1>2
    <3> QED BY <1>1, <1>3, <1>4, <2>2, <3>1 DEF Held, Slot, StateAt, Prefix, InPrompt
  <2> QED BY <2>1, <2>2
<1>7. (DOMAIN slots = 0 .. Len(LayerPrompts) * Width)' BY <1>1, <1>2, <1>3
<1>8. \A q \in Reqs' : Held(slots, q)' BY <1>6 DEF Reqs
<1> QED BY <1>1, <1>5, <1>7, <1>8
        DEF TokensInv, TokensAre, SlotsHold, RowsHold, BetweenStages, FirstStages, MiddleStages, LastStages

\* What is accepted of a request's tokens stays as it was.
LEMMA AcceptLayer_keeps == ASSUME KernelsInv, TokensInv, AcceptLayer PROVE TokensInv'
<1> DEFINE K(r) == CHOOSE k \in DOMAIN laStep : laStep[k].req = r
           In(r) == \E k \in DOMAIN laStep : laStep[k].req = r
<1>1. /\ laStage = "served" /\ laStage' = "idle" /\ laEnv' = laEnv /\ slots' = slots
  BY DEF AcceptLayer
<1>2. PICK n \in [DOMAIN laStep -> 1 .. LayerContext] :
        /\ \A k \in DOMAIN laStep : n[k] \in IF k \in SpecSeqs THEN 1 .. laStep[k].len ELSE {laStep[k].len}
        /\ done' = [r \in Reqs |-> IF In(r) THEN done[r] + n[K(r)] ELSE done[r]]
        /\ accepted' = [r \in Reqs |-> IF ~ In(r) THEN accepted[r]
                                       ELSE IF K(r) \in SpecSeqs THEN n[K(r)] ELSE 1]
        /\ text' = [r \in Reqs |-> [p \in DOMAIN text[r] |->
             IF In(r) /\ p >= done[r] + n[K(r)] /\ p < done[r] + laStep[K(r)].len
             THEN text[r][p] + 1 ELSE text[r][p]]]
  BY DEF AcceptLayer
<1>3. /\ LayerTypeOK /\ StepFits /\ SlotsHold("served", slots) /\ laEnv \in LayerEnvs
  BY <1>1 DEF TokensInv, TokensAre, BetweenStages, KernelsInv, ChoiceStands
<1>4. Width' = Width /\ Width \in Nat \ {0} BY <1>1, <1>3, SlotsApart DEF Width
<1>5. \A r \in Reqs : done[r] \in 0 .. LayerContext /\ accepted[r] \in 1 .. Width /\ DOMAIN text[r] = 0 .. LayerContext - 1
  BY <1>3 DEF LayerTypeOK
<1>6. LayerContext \in Nat BY PromptAssumption
<1>7. ASSUME NEW r \in Reqs, In(r)
      PROVE  /\ K(r) \in DOMAIN laStep /\ laStep[K(r)].req = r
             /\ n[K(r)] \in 1 .. laStep[K(r)].len /\ laStep[K(r)].len \in Nat \ {0}
             /\ done[r] + laStep[K(r)].len <= LayerContext
             /\ K(r) \notin SpecSeqs => n[K(r)] = laStep[K(r)].len
             /\ K(r) \in SpecSeqs => laStep[K(r)].len <= Width
             /\ done'[r] = done[r] + n[K(r)]
             /\ accepted'[r] = IF K(r) \in SpecSeqs THEN n[K(r)] ELSE 1
  <2>1. K(r) \in DOMAIN laStep /\ laStep[K(r)].req = r BY <1>7
  <2>2. done'[r] = done[r] + n[K(r)] /\ accepted'[r] = IF K(r) \in SpecSeqs THEN n[K(r)] ELSE 1
    BY <1>2, <1>7
  <2> HIDE DEF K
  <2>3. laStep[K(r)].len \in Nat \ {0} BY <1>3, <2>1, StepType
  <2>4. n[K(r)] \in IF K(r) \in SpecSeqs THEN 1 .. laStep[K(r)].len ELSE {laStep[K(r)].len} BY <1>2, <2>1
  <2>5. n[K(r)] \in 1 .. laStep[K(r)].len /\ (K(r) \notin SpecSeqs => n[K(r)] = laStep[K(r)].len)
    BY <2>3, <2>4
  <2>6. /\ done[laStep[K(r)].req] + laStep[K(r)].len <= LayerContext
        /\ K(r) \in SpecSeqs => laStep[K(r)].len <= Width
    BY <1>3, <2>1 DEF StepFits
  <2> QED BY <2>1, <2>2, <2>3, <2>5, <2>6
<1>8. \A r \in Reqs : ~ In(r) => done'[r] = done[r] /\ accepted'[r] = accepted[r] BY <1>2
<1>9. ASSUME NEW r \in Reqs PROVE done'[r] \in 0 .. LayerContext /\ accepted'[r] \in 1 .. Width
  <2>1. CASE ~ In(r) BY <1>5, <1>8, <2>1
  <2>2. CASE In(r)
    <3> DEFINE k == K(r)
    <3>1. /\ n[k] \in 1 .. laStep[k].len /\ laStep[k].len \in Nat \ {0}
          /\ done[r] + laStep[k].len <= LayerContext
          /\ k \in SpecSeqs => laStep[k].len <= Width
          /\ done'[r] = done[r] + n[k]
          /\ accepted'[r] = IF k \in SpecSeqs THEN n[k] ELSE 1
      BY <1>7, <2>2
    <3> HIDE DEF k
    <3> QED BY <1>4, <1>5, <1>6, <3>1
  <2> QED BY <2>1, <2>2
\* Only rejected drafts are written over: a prefix of what is done now is as it was.
<1>10. ASSUME NEW r \in Reqs PROVE Prefix(r, done[r])' = Prefix(r, done'[r])
  <2>1. \A i \in 1 .. done'[r] : text'[r][i - 1] = text[r][i - 1]
    <3> SUFFICES ASSUME NEW i \in 1 .. done'[r] PROVE text'[r][i - 1] = text[r][i - 1] OBVIOUS
    <3>1. i - 1 \in 0 .. LayerContext - 1 BY <1>6, <1>9
    <3>2. DOMAIN text[r] = 0 .. LayerContext - 1 BY <1>5
    <3> DEFINE p == i - 1
    <3>3. text'[r][p] = IF In(r) /\ p >= done[r] + n[K(r)] /\ p < done[r] + laStep[K(r)].len
                        THEN text[r][p] + 1 ELSE text[r][p]
      BY <1>2, <3>1, <3>2
    <3>4. In(r) => ~ (p >= done[r] + n[K(r)])
      <4> SUFFICES ASSUME In(r) PROVE ~ (p >= done[r] + n[K(r)]) OBVIOUS
      <4>1. done'[r] = done[r] + n[K(r)] /\ n[K(r)] \in 1 .. laStep[K(r)].len BY <1>7
      <4>2. n[K(r)] \in Int BY <4>1
      <4>3. done[r] \in Int BY <1>5
      <4> HIDE DEF K
      <4> QED BY <4>1, <4>2, <4>3
    <3> HIDE DEF p
    <3>5. text'[r][p] = text[r][p] BY <3>3, <3>4
    <3> QED BY <3>5 DEF p
  <2> QED BY <2>1 DEF Prefix
<1>11. LayerTypeOK'
  <2>1. done' \in [Reqs -> 0 .. LayerContext] /\ accepted' \in [Reqs -> 1 .. Width']
    <3>1. DOMAIN done' = Reqs /\ DOMAIN accepted' = Reqs BY <1>2
    <3>2. done' = [r \in Reqs |-> done'[r]] /\ accepted' = [r \in Reqs |-> accepted'[r]] BY <1>2
    <3> QED BY <1>4, <1>9, <3>2
  <2>2. DOMAIN text' = Reqs /\ \A r \in Reqs : DOMAIN text'[r] = DOMAIN text[r] BY <1>2
  <2> QED BY <1>5, <2>1, <2>2 DEF LayerTypeOK, Reqs
<1>12. ASSUME NEW r \in Reqs PROVE Held(slots, r)'
  <2> DEFINE place == IF done'[r] < LayerPrompts[r] THEN 1 ELSE accepted'[r]
  <2>1. done'[r] > 0 => slots[Slot(r, place)] = StateAt(r, done'[r])
    <3> SUFFICES ASSUME done'[r] > 0 PROVE slots[Slot(r, place)] = StateAt(r, done'[r]) OBVIOUS
    <3>1. /\ \A q \in Reqs : NotOf(DOMAIN laStep, q) => Held(slots, q)
          /\ \A k \in SpecSeqs : Stepped(slots, k)
          /\ \A k \in NonSpecSeqs : Ended(slots, k)
      BY <1>3 DEF SlotsHold, LastStages
    <3>2. CASE ~ In(r)
      <4>1. Held(slots, r) BY <3>1, <3>2 DEF NotOf
      <4>2. done'[r] = done[r] /\ accepted'[r] = accepted[r] BY <1>8, <3>2
      <4> QED BY <4>1, <4>2 DEF Held, InPrompt
    <3>3. CASE In(r)
      <4> DEFINE k == K(r)
      <4>1. /\ k \in DOMAIN laStep /\ laStep[k].req = r
            /\ n[k] \in 1 .. laStep[k].len
            /\ k \notin SpecSeqs => n[k] = laStep[k].len
            /\ done'[r] = done[r] + n[k]
            /\ accepted'[r] = IF k \in SpecSeqs THEN n[k] ELSE 1
        BY <1>7, <3>3
      <4> HIDE DEF k
      <4>2. CASE k \in SpecSeqs
        <5>1. ~ (done[r] < LayerPrompts[r]) BY <1>3, <4>1, <4>2 DEF StepFits, InPrompt
        <5>2. LayerPrompts[r] \in Int /\ done[r] \in Int
          BY <1>5, PromptAssumption, RequestRange, ElementOfSeq
        <5>3. n[k] \in Int /\ n[k] > 0 BY <4>1
        <5>4. ~ (done[r] + n[k] < LayerPrompts[r]) BY <5>1, <5>2, <5>3
        <5>5. place = n[k] BY <4>1, <4>2, <5>4
        <5>6. slots[Slot(r, n[k])] = StateAt(r, done[r] + n[k]) BY <3>1, <4>1, <4>2 DEF Stepped
        <5> QED BY <4>1, <5>5, <5>6
      <4>3. CASE k \notin SpecSeqs
        <5>1. k \in NonSpecSeqs BY <1>3, <4>1, <4>3, TwoParts
        <5>2. place = 1 /\ done'[r] = done[r] + laStep[k].len BY <4>1, <4>3
        <5>3. slots[Slot(r, 1)] = StateAt(r, done[r] + laStep[k].len) BY <3>1, <4>1, <5>1 DEF Ended
        <5> QED BY <5>2, <5>3
      <4> QED BY <4>2, <4>3
    <3> QED BY <3>2, <3>3
  <2>2. Prefix(r, done[r])' = Prefix(r, done'[r]) BY <1>10
  <2> QED BY <1>1, <1>4, <2>1, <2>2 DEF Held, Slot, StateAt, InPrompt
<1>13. (DOMAIN slots = 0 .. Len(LayerPrompts) * Width)' BY <1>1, <1>3, <1>4 DEF SlotsHold
<1>14. \A r \in Reqs' : Held(slots, r)' BY <1>12 DEF Reqs
<1> QED BY <1>1, <1>11, <1>13, <1>14
        DEF TokensInv, TokensAre, SlotsHold, RowsHold, BetweenStages, FirstStages, MiddleStages, LastStages
\* Nothing has been computed when the worker starts.
LEMMA TokensInit == LayerInit => TokensInv
<1> SUFFICES ASSUME LayerInit PROVE TokensInv OBVIOUS
<1>1. /\ laEnv \in LayerEnvs /\ laStage = "construct"
      /\ slots = [s \in 0 .. Len(LayerPrompts) * Width |-> NoTokens]
      /\ done = [r \in Reqs |-> 0] /\ accepted = [r \in Reqs |-> 1]
      /\ text = [r \in Reqs |-> [p \in 0 .. LayerContext - 1 |-> 0]]
  BY DEF LayerInit
<1>2. Width \in Nat \ {0} BY <1>1, SlotsApart
<1>3. LayerTypeOK BY <1>1, <1>2, PromptAssumption DEF LayerTypeOK
<1>4. \A r \in Reqs : Held(slots, r) BY <1>1 DEF Held
<1> QED BY <1>1, <1>3, <1>4
        DEF TokensInv, TokensAre, SlotsHold, RowsHold, BetweenStages, FirstStages, MiddleStages, LastStages

\* Every step keeps the invariant.
LEMMA TokensNext == KernelsInv /\ TokensInv /\ [LayerNext]_laVars => TokensInv'
<1> SUFFICES ASSUME KernelsInv, TokensInv, [LayerNext]_laVars PROVE TokensInv' OBVIOUS
<1>1. CASE construct_layer BY <1>1, construct_layer_keeps
<1>2. CASE ScheduleLayer BY <1>2, ScheduleLayer_keeps
<1>3. CASE AcceptLayer BY <1>3, AcceptLayer_keeps
<1>4. CASE gdn_spec BY <1>4, gdn_spec_keeps
<1>5. CASE gdn_decode BY <1>5, gdn_decode_keeps
<1>6. CASE gdn_prefill BY <1>6, gdn_prefill_keeps
<1>7. CASE gdn_norm BY <1>7, gdn_norm_keeps
<1>8. CASE fused_kda_decode_mega_forward BY <1>8, fused_kda_keeps
<1>9. CASE kda_spec BY <1>9, kda_spec_keeps
<1>10. CASE kda_prefill BY <1>10, kda_prefill_keeps
<1>11. CASE fused_recurrent_kda_packed_decode BY <1>11, fused_recurrent_kda_keeps
<1>12. CASE restore BY <1>12, restore_keeps
<1>13. CASE \E r \in Reqs : NextRequest(r) BY <1>13, NextRequest_keeps
<1>14. CASE UNCHANGED laVars
  <2>1. Forward /\ laStage' = laStage /\ slots' = slots /\ attnOut' = attnOut /\ specOut' = specOut
        /\ nonSpecOut' = nonSpecOut
    BY <1>14 DEF laVars, Forward
  <2> QED BY <2>1, ForwardKeeps DEF TokensInv
<1> QED BY <1>1, <1>2, <1>3, <1>4, <1>5, <1>6, <1>7, <1>8, <1>9, <1>10, <1>11, <1>12, <1>13, <1>14
        DEF LayerNext

\* What the property says of a step that is served, and of the slots between steps.
LEMMA TokensAreStates == TokensInv => StateIsOfItsTokens
<1> SUFFICES ASSUME TokensInv PROVE StateIsOfItsTokens OBVIOUS
<1>1. laStage # "raised"
  BY DEF TokensInv, TokensAre, BetweenStages, FirstStages, MiddleStages, LastStages
<1>2. laStage = "served" =>
        \A t \in StepTokens(DOMAIN laStep) : attnOut[StepRow(t)] = OutputOf(t, 1)
  BY DEF TokensInv, TokensAre, RowsHold, InRows
<1>3. laStage = "idle" => \A r \in Reqs : Held(slots, r)
  BY DEF TokensInv, TokensAre, SlotsHold, BetweenStages
<1> QED BY <1>1, <1>2, <1>3 DEF StateIsOfItsTokens, OutputOf, Held, StateAt

\* Whatever the layer, its kernels, the prompts, the drafts and the order of the requests in
\* each step: the output of every token is the state of exactly its request's tokens up to
\* it, in its own row and normalized once, and the slot that a request's next step starts
\* from holds the tokens it accepted.
THEOREM StatesAreOfTokens == LayerSpec => []StateIsOfItsTokens
<1>1. LayerSpec => [](KernelsInv /\ TokensInv)
  <2>1. LayerInit => TokensInv BY TokensInit
  <2>2. LayerSpec => []KernelsInv BY KernelsAreAsked
  <2>3. KernelsInv /\ TokensInv /\ [LayerNext]_laVars => TokensInv' BY TokensNext
  <2> QED BY <2>1, <2>2, <2>3, PTL DEF LayerSpec
<1>2. TokensInv => StateIsOfItsTokens BY TokensAreStates
<1> QED BY <1>1, <1>2, PTL

--------------------------------------------------------------------------------
(* The activation kernels of the batched experts.                              *)

Kernels == {"quant", "compiled", "plain", "mxfp4"}

\* The elements that a program of the launch writes of a row, and how many programs share
\* them.
PartSize(c) == IF c.scheme = "mxfp4" THEN BLOCK_N(c) ELSE GroupSize(c)
Parts(c)    == IF c.scheme = "mxfp4" THEN (c.H + BLOCK_N(c) - 1) \div BLOCK_N(c)
               ELSE c.H \div GroupSize(c)
PartLanes(c, part) == {h \in 0 .. c.H - 1 : h \div PartSize(c) = part}

Program(e, t, h) == << e, h \div PartSize(conf), t % Stride >>

\* The groups that fill their block, and the hidden sizes that are whole groups.
Filled(c) == GroupSize(c) \in {1, 2, 4}

LaunchFits ==
  /\ phase = "mxfp4" <=> conf.scheme = "mxfp4"
  /\ phase = "plain" => conf.scheme \notin Quantizing
  /\ phase \in {"quant", "compiled"} => conf.scheme \in Quantizing
  /\ conf.scheme # "mxfp4" => conf.H % GroupSize(conf) = 0

\* A program of an expert goes through the rows that are its own, one stride at a time.
CursorsStride ==
  /\ DOMAIN cursor = LocalExperts \X (0 .. Parts(conf) - 1) \X (0 .. Stride - 1)
  /\ \A p \in DOMAIN cursor : cursor[p] \in Nat /\ cursor[p] % Stride = p[3]

MemoryIs ==
  /\ DOMAIN a2q = 0 .. 2 * MaxRows * conf.H - 1
  /\ DOMAIN a2s = LocalExperts \X Rows \X (0 .. conf.H \div GroupSize(conf) - 1)

\* What MaskedRowsAreExact asks of an element.
ElementIsExact(e, t, h) ==
  /\ a2q[OutAt(conf, e, t, h)] = [gate |-> GateAt(conf, e, t, h), scale |-> GroupOf(conf, e, t, h)]
  /\ a2s[<< e, t, h \div GroupSize(conf) >>] = GroupOf(conf, e, t, h)

\* What the programs have passed is exact, whatever is written beside it.
PassedIsExact ==
  \A e \in LocalExperts : \A t \in 0 .. conf.n[e] - 1 : \A h \in 0 .. conf.H - 1 :
    t < cursor[Program(e, t, h)] => ElementIsExact(e, t, h)

BatchedInv ==
  /\ conf \in Confs
  /\ phase \in Kernels => /\ LaunchFits /\ CursorsStride /\ MemoryIs
                          /\ Filled(conf) => PassedIsExact
  /\ MaskedRowsAreExact

LEMMA ConfType ==
  ASSUME NEW c \in Confs
  PROVE  /\ c.H \in Nat \ {0} /\ c.scheme \in Schemes
         /\ \A e \in LocalExperts : c.n[e] \in 0 .. MaxRows
         /\ MaxRows \in Nat \ {0} /\ TokenPrograms \in Nat \ {0}
         /\ c.scheme \in {"fp8_block", "fp8_channel", "int8", "w4a16", "w4fa16", "bf16", "mxfp4"}
BY BatchedAssumption DEF Confs

LEMMA StrideType == Stride \in Nat \ {0}
BY BatchedAssumption DEF Stride

\* Two elements of the output are at different places.
LEMMA RowsApart ==
  ASSUME NEW H \in Nat \ {0}, NEW a \in Nat, NEW b \in Nat,
         NEW g \in 0 .. H - 1, NEW h \in 0 .. H - 1, a * H + g = b * H + h
  PROVE  a = b /\ g = h
<1>1. ASSUME a < b PROVE FALSE
  <2>1. (a + 1) * H <= b * H BY <1>1
  <2>2. (a + 1) * H = a * H + H OBVIOUS
  <2> QED BY <2>1, <2>2
<1>2. ASSUME b < a PROVE FALSE
  <2>1. (b + 1) * H <= a * H BY <1>2
  <2>2. (b + 1) * H = b * H + H OBVIOUS
  <2> QED BY <2>1, <2>2
<1>3. a = b BY <1>1, <1>2
<1> QED BY <1>3

LEMMA PlacesApart ==
  ASSUME NEW c \in Confs, NEW e1 \in LocalExperts, NEW e2 \in LocalExperts,
         NEW t1 \in 0 .. MaxRows - 1, NEW t2 \in 0 .. MaxRows - 1,
         NEW h1 \in 0 .. c.H - 1, NEW h2 \in 0 .. c.H - 1,
         OutAt(c, e1, t1, h1) - OutAt(c, e2, t2, 0) = h2
  PROVE  e1 = e2 /\ t1 = t2 /\ h1 = h2
<1> DEFINE a == e1 * MaxRows + t1  b == e2 * MaxRows + t2
<1>1. a \in Nat /\ b \in Nat /\ c.H \in Nat \ {0} /\ MaxRows \in Nat \ {0}
  BY ConfType, BatchedAssumption DEF LocalExperts
<1>2. a * c.H + h1 = b * c.H + h2
  <2>1. a * c.H \in Int /\ b * c.H \in Int BY <1>1
  <2>2. OutAt(c, e1, t1, h1) = a * c.H + h1 /\ OutAt(c, e2, t2, 0) = b * c.H + 0
    BY DEF OutAt
  <2> HIDE DEF a, b
  <2> QED BY <1>1, <2>1, <2>2
<1>3. a = b /\ h1 = h2
  <2> HIDE DEF a, b
  <2> QED BY <1>1, <1>2, RowsApart
<1>4. e1 \in Nat /\ e2 \in Nat BY DEF LocalExperts
<1>5. e1 = e2 /\ t1 = t2 BY <1>1, <1>3, <1>4, RowsApart
<1> QED BY <1>3, <1>5

LEMMA PlaceIsInside ==
  ASSUME NEW c \in Confs, NEW e \in LocalExperts, NEW t \in 0 .. MaxRows - 1, NEW h \in 0 .. c.H - 1
  PROVE  OutAt(c, e, t, h) \in 0 .. 2 * MaxRows * c.H - 1
<1>1. c.H \in Nat \ {0} /\ MaxRows \in Nat \ {0} BY ConfType
<1> DEFINE a == e * MaxRows + t
<1>2. a \in Nat /\ a + 1 <= 2 * MaxRows BY <1>1 DEF LocalExperts
<1>3. OutAt(c, e, t, h) = a * c.H + h BY DEF OutAt
<1> HIDE DEF a
<1>4. a * c.H \in Nat /\ (a + 1) * c.H = a * c.H + c.H /\ (a + 1) * c.H <= (2 * MaxRows) * c.H
  BY <1>1, <1>2
<1>5. (2 * MaxRows) * c.H = 2 * MaxRows * c.H /\ 2 * MaxRows * c.H \in Nat BY <1>1
<1> QED BY <1>1, <1>3, <1>4, <1>5

\* Two rows of the same program within a stride are one.
LEMMA OneRowInStride ==
  ASSUME NEW s \in Nat \ {0}, NEW t \in Nat, NEW u \in Nat, t <= u, u < t + s, u % s = t % s
  PROVE  u = t
<1>1. PICK a, b \in Nat : t = s * a + (t % s) /\ u = s * b + (u % s) /\ t % s \in 0 .. s - 1
  <2>1. t = s * (t \div s) + (t % s) /\ u = s * (u \div s) + (u % s) /\ t % s \in 0 .. s - 1
        /\ t \div s \in Nat /\ u \div s \in Nat
    OBVIOUS
  <2> QED BY <2>1
<1>2. u - t = s * b - s * a /\ s * a \in Nat /\ s * b \in Nat BY <1>1
<1>3. ASSUME a < b PROVE FALSE
  <2>1. s * (a + 1) <= s * b /\ s * (a + 1) = s * a + s BY <1>3
  <2> QED BY <1>2, <2>1
<1>4. ASSUME b < a PROVE FALSE
  <2>1. s * (b + 1) <= s * a /\ s * (b + 1) = s * b + s BY <1>4
  <2> QED BY <1>2, <2>1
<1>5. a = b BY <1>3, <1>4
<1> QED BY <1>2, <1>5

LEMMA NextOfStride ==
  ASSUME NEW s \in Nat \ {0}, NEW t \in Nat
  PROVE  (t + s) % s = t % s /\ t % s \in 0 .. s - 1
<1> DEFINE u == t + s
<1>1. /\ t = s * (t \div s) + (t % s) /\ t % s \in 0 .. s - 1 /\ t \div s \in Nat
      /\ u = s * (u \div s) + (u % s) /\ u % s \in 0 .. s - 1 /\ u \div s \in Nat
  OBVIOUS
<1>2. PICK a, b \in Nat : t = s * a + (t % s) /\ u = s * b + (u % s) BY <1>1
<1>3. (a + 1) * s + (t % s) = b * s + (u % s)
  <2>1. (a + 1) * s = s * a + s /\ b * s = s * b OBVIOUS
  <2>2. s * a \in Nat /\ s * b \in Nat /\ t % s \in Nat /\ u % s \in Nat BY <1>1
  <2> QED BY <1>2, <2>1, <2>2
<1> DEFINE c == a + 1  g == t % s  h == u % s
<1>4. c \in Nat /\ g \in 0 .. s - 1 /\ h \in 0 .. s - 1 /\ c * s + g = b * s + h
  BY <1>1, <1>3
<1>5. g = h
  <2> HIDE DEF c, g, h
  <2> QED BY <1>4, RowsApart
<1> QED BY <1>1, <1>5

LEMMA PowerOfTwo == ASSUME NEW n \in {1, 2, 4} PROVE next_power_of_2(n) = n
<1> DEFINE P(p) == n <= p /\ p < 2 * n
<1>1. P(n) /\ n \in {1, 2, 4, 8} OBVIOUS
<1>2. \A p \in {1, 2, 4, 8} : P(p) => p = n OBVIOUS
<1> QED BY <1>1, <1>2 DEF next_power_of_2

LEMMA BlockType == ASSUME NEW c \in Confs PROVE BLOCK_N(c) \in {1, 2, 4}
BY ConfType DEF BLOCK_N

\* A part of a row has the lanes of its program, whichever kernel runs.
LEMMA PartsOfRow ==
  ASSUME NEW c \in Confs, Filled(c), c.scheme # "mxfp4" => c.H % GroupSize(c) = 0,
         NEW part \in 0 .. Parts(c) - 1
  PROVE  /\ c.scheme = "mxfp4" => Mxfp4Lanes(c, part) = PartLanes(c, part)
         /\ c.scheme # "mxfp4" => /\ ExactLanes(c, part) = PartLanes(c, part)
                                  /\ QuantLanes(c, part) = PartLanes(c, part)
<1>1. c.H \in Nat \ {0} BY ConfType
<1>2. CASE c.scheme = "mxfp4"
  <2>1. PICK b \in {1, 2, 4} : b = BLOCK_N(c) BY BlockType
  <2>2. part \in Nat BY <1>1, <1>2, <2>1 DEF Parts
  <2>3. \A h \in 0 .. c.H - 1 : h \div b = part <=> h \in part * b .. (part + 1) * b - 1
    <3>1. CASE b = 1 BY <1>1, <2>2, <3>1
    <3>2. CASE b = 2 BY <1>1, <2>2, <3>2
    <3>3. CASE b = 4 BY <1>1, <2>2, <3>3
    <3> QED BY <3>1, <3>2, <3>3
  <2>4. part * b \in Nat BY <2>2
  <2> QED BY <1>1, <1>2, <2>1, <2>3, <2>4 DEF Mxfp4Lanes, PartLanes, PartSize
<1>3. CASE c.scheme # "mxfp4"
  <2>1. PICK g \in {1, 2, 4} : g = GroupSize(c) BY DEF Filled
  <2>2. part \in Nat /\ part <= (c.H \div g) - 1 /\ c.H % g = 0 BY <1>1, <1>3, <2>1 DEF Parts
  <2>3. \A h \in Int : (h \in 0 .. c.H - 1 /\ h \div g = part) <=> h \in part * g .. (part + 1) * g - 1
    <3>1. CASE g = 1 BY <1>1, <2>2, <3>1
    <3>2. CASE g = 2 BY <1>1, <2>2, <3>2
    <3>3. CASE g = 4 BY <1>1, <2>2, <3>3
    <3> QED BY <3>1, <3>2, <3>3
  <2>4. (part + 1) * g - 1 = part * g + g - 1 BY <2>1, <2>2
  <2>5. part * g .. (part + 1) * g - 1 = {h \in 0 .. c.H - 1 : h \div g = part}
    <3> DEFINE R == part * g .. (part + 1) * g - 1
    <3>1. R \subseteq Int OBVIOUS
    <3> QED BY <2>3, <3>1
  <2>6. next_power_of_2(g) = g BY PowerOfTwo
  <2> QED BY <1>3, <2>1, <2>4, <2>5, <2>6 DEF ExactLanes, QuantLanes, PartLanes, PartSize
<1> QED BY <1>2, <1>3

\* Every element is a lane of a program.
LEMMA EveryElementHasPart ==
  ASSUME NEW c \in Confs, Filled(c), c.scheme # "mxfp4" => c.H % GroupSize(c) = 0,
         NEW h \in 0 .. c.H - 1
  PROVE  /\ h \div PartSize(c) \in 0 .. Parts(c) - 1
         /\ h \div GroupSize(c) \in 0 .. (c.H \div GroupSize(c)) - 1
<1>1. c.H \in Nat \ {0} BY ConfType
<1>2. PICK b \in {1, 2, 4} : b = BLOCK_N(c) BY BlockType
<1>3. PICK g \in {1, 2, 4} : g = GroupSize(c) BY DEF Filled
<1>4. CASE c.scheme = "mxfp4"
  <2>1. h \div b \in 0 .. ((c.H + b - 1) \div b) - 1
    <3>1. CASE b = 1 BY <1>1, <3>1
    <3>2. CASE b = 2 BY <1>1, <3>2
    <3>3. CASE b = 4 BY <1>1, <3>3
    <3> QED BY <3>1, <3>2, <3>3
  <2>2. g = 1 BY <1>3, <1>4 DEF GroupSize
  <2> QED BY <1>1, <1>2, <1>3, <1>4, <2>1, <2>2 DEF PartSize, Parts
<1>5. CASE c.scheme # "mxfp4"
  <2>1. h \div g \in 0 .. (c.H \div g) - 1
    <3>1. CASE g = 1 BY <1>1, <3>1
    <3>2. CASE g = 2 BY <1>1, <1>3, <1>5, <3>2
    <3>3. CASE g = 4 BY <1>1, <1>3, <1>5, <3>3
    <3> QED BY <3>1, <3>2, <3>3
  <2> QED BY <1>3, <1>5, <2>1 DEF PartSize, Parts
<1> QED BY <1>4, <1>5

--------------------------------------------------------------------------------
\* A turn of a program, as the three kernels take it: the lanes are the program's part of
\* the row, and the scale of a lane is that of its group.
TurnIsExact(p, lanes, scaleOver, groups) ==
  /\ lanes = PartLanes(conf, p[2])
  /\ \A h \in lanes : /\ scaleOver[h] = GroupOf(conf, p[1], cursor[p], h)
                      /\ h \div GroupSize(conf) \in groups
  /\ \A g \in groups : g * GroupSize(conf) \in lanes /\ g \in Nat

LEMMA ProgramType ==
  ASSUME conf \in Confs, CursorsStride, NEW p \in DOMAIN cursor, cursor[p] < conf.n[p[1]]
  PROVE  /\ p[1] \in LocalExperts /\ p[2] \in 0 .. Parts(conf) - 1 /\ p[3] \in 0 .. Stride - 1
         /\ p = << p[1], p[2], p[3] >>
         /\ cursor[p] \in 0 .. MaxRows - 1 /\ cursor[p] \in 0 .. conf.n[p[1]] - 1
         /\ cursor[p] % Stride = p[3]
<1>1. p[1] \in LocalExperts /\ p[2] \in 0 .. Parts(conf) - 1 /\ p[3] \in 0 .. Stride - 1
      /\ p = << p[1], p[2], p[3] >> /\ cursor[p] \in Nat /\ cursor[p] % Stride = p[3]
  BY DEF CursorsStride
<1>2. conf.n[p[1]] \in 0 .. MaxRows /\ MaxRows \in Nat BY <1>1, ConfType
<1> QED BY <1>1, <1>2

\* The group of an element is that of the first of its group.
LEMMA FirstOfGroup ==
  ASSUME NEW c \in Confs, Filled(c), NEW h \in 0 .. c.H - 1, NEW e, NEW t
  PROVE  LET first == (h \div GroupSize(c)) * GroupSize(c)
         IN GroupOf(c, e, t, first) = GroupOf(c, e, t, h) /\ first \div GroupSize(c) = h \div GroupSize(c)
<1>1. PICK g \in {1, 2, 4} : g = GroupSize(c) BY DEF Filled
<1>2. ((h \div g) * g) \div g = h \div g
  <2>1. CASE g = 1 BY <2>1
  <2>2. CASE g = 2 BY <2>2
  <2>3. CASE g = 4 BY <2>3
  <2> QED BY <2>1, <2>2, <2>3
<1> QED BY <1>1, <1>2 DEF GroupOf

LEMMA TurnKeepsExact ==
  ASSUME BatchedInv, phase \in Kernels, Filled(conf), NEW p \in DOMAIN cursor,
         NEW lanes, NEW scaleOver, NEW groups,
         TurnIsExact(p, lanes, scaleOver, groups), Turn(p, lanes, scaleOver, groups)
  PROVE  PassedIsExact'
<1> DEFINE e == p[1]  t == cursor[p]
<1>1. conf \in Confs /\ LaunchFits /\ CursorsStride /\ MemoryIs /\ PassedIsExact
  BY DEF BatchedInv
<1>2. /\ UNCHANGED << conf, phase >> /\ t < conf.n[e]
      /\ cursor' = [cursor EXCEPT ![p] = @ + Stride]
  BY DEF Turn
<1>3. /\ e \in LocalExperts /\ p[2] \in 0 .. Parts(conf) - 1 /\ p[3] \in 0 .. Stride - 1
      /\ p = << e, p[2], p[3] >> /\ t \in 0 .. MaxRows - 1 /\ t % Stride = p[3]
  BY <1>1, <1>2, ProgramType
<1>4. conf.H \in Nat \ {0} /\ Stride' = Stride /\ Stride \in Nat \ {0}
  BY <1>1, <1>2, ConfType, StrideType DEF Stride
<1> SUFFICES ASSUME NEW e1 \in LocalExperts, NEW t1 \in 0 .. conf.n[e1] - 1,
                    NEW h1 \in 0 .. conf.H - 1, t1 < cursor'[Program(e1, t1, h1)]
             PROVE  ElementIsExact(e1, t1, h1)'
  BY <1>2, <1>4 DEF PassedIsExact, Program
<1> DEFINE q == Program(e1, t1, h1)
<1>5. t1 \in 0 .. MaxRows - 1
  <2>1. conf.n[e1] \in 0 .. MaxRows /\ MaxRows \in Nat BY <1>1, ConfType
  <2> QED BY <2>1
<1>6. q \in DOMAIN cursor
  <2>1. h1 \div PartSize(conf) \in 0 .. Parts(conf) - 1
    BY <1>1, EveryElementHasPart DEF LaunchFits
  <2>2. t1 % Stride \in 0 .. Stride - 1
    <3>1. t1 \in Nat BY <1>5
    <3> QED BY <1>4, <3>1, NextOfStride, Zenon
  <2> QED BY <1>1, <2>1, <2>2 DEF CursorsStride, Program
\* The element is one that this turn writes, or one that was passed before.
<1>7. (e1 = e /\ t1 = t /\ h1 \in lanes) \/ ElementIsExact(e1, t1, h1)
  <2>1. CASE q # p
    <3>1. cursor'[q] = cursor[q] BY <1>2, <1>6, <2>1
    <3> QED BY <1>1, <3>1 DEF PassedIsExact
  <2>2. CASE q = p
    <3>1. e1 = e /\ h1 \div PartSize(conf) = p[2] /\ t1 % Stride = p[3]
      BY <2>2 DEF Program
    <3>2. h1 \in lanes BY <3>1 DEF TurnIsExact, PartLanes
    <3>3. cursor'[p] = t + Stride BY <1>2
    <3>4. CASE t1 < t BY <1>1, <2>2, <3>4 DEF PassedIsExact
    <3>5. CASE t <= t1
      <4>1. t1 < t + Stride /\ t1 % Stride = t % Stride BY <1>3, <2>2, <3>1, <3>3
      <4>2. t1 = t BY <1>3, <1>4, <1>5, <3>5, <4>1, OneRowInStride
      <4> QED BY <3>1, <3>2, <4>2
    <3> QED BY <1>3, <1>5, <3>4, <3>5
  <2> QED BY <2>1, <2>2
<1> DEFINE place == OutAt(conf, e1, t1, h1)
           exact == [gate |-> GateAt(conf, e1, t1, h1), scale |-> GroupOf(conf, e1, t1, h1)]
           group == << e1, t1, h1 \div GroupSize(conf) >>
\* A lane that reaches the place is that of the element itself.
<1>8. a2q'[place] = exact
  <2> DEFINE lane == place - OutAt(conf, e, t, 0)
  <2>1. place \in DOMAIN a2q BY <1>1, <1>5, PlaceIsInside DEF MemoryIs
  <2>2. a2q'[place] = IF lane \in lanes
                      THEN [gate |-> GateAt(conf, e, t, lane), scale |-> scaleOver[lane]]
                      ELSE a2q[place]
    BY <2>1 DEF Turn
  <2>3. CASE lane \in lanes
    <3>1. lane \in 0 .. conf.H - 1 BY <2>3 DEF TurnIsExact, PartLanes
    <3>2. e1 = e /\ t1 = t /\ h1 = lane BY <1>1, <1>3, <1>5, <3>1, PlacesApart
    <3>3. scaleOver[lane] = GroupOf(conf, e, t, lane) BY <2>3 DEF TurnIsExact
    <3> QED BY <2>2, <2>3, <3>2, <3>3
  <2>4. CASE lane \notin lanes
    <3>1. ~ (e1 = e /\ t1 = t /\ h1 \in lanes)
      <4>1. SUFFICES ASSUME e1 = e, t1 = t PROVE lane = h1 BY <2>4
      <4>2. lane = OutAt(conf, e, t, h1) - OutAt(conf, e, t, 0) BY <4>1
      <4> DEFINE a == (e * MaxRows + t) * conf.H
      <4>3. a \in Int /\ OutAt(conf, e, t, h1) = a + h1 /\ OutAt(conf, e, t, 0) = a + 0
        <5>1. e * MaxRows + t \in Nat BY <1>1, <1>3, ConfType DEF LocalExperts
        <5> QED BY <1>4, <5>1 DEF OutAt
      <4> HIDE DEF a
      <4> QED BY <4>2, <4>3
    <3> QED BY <1>7, <2>2, <2>4, <3>1 DEF ElementIsExact
  <2> QED BY <2>3, <2>4
<1>9. a2s'[group] = GroupOf(conf, e1, t1, h1)
  <2>1. group \in DOMAIN a2s
    BY <1>1, <1>5, EveryElementHasPart DEF LaunchFits, MemoryIs, Rows
  <2>2. a2s'[group] = IF e1 = e /\ t1 = t /\ h1 \div GroupSize(conf) \in groups
                      THEN scaleOver[(h1 \div GroupSize(conf)) * GroupSize(conf)] ELSE a2s[group]
    BY <2>1 DEF Turn
  <2>3. CASE e1 = e /\ t1 = t /\ h1 \div GroupSize(conf) \in groups
    <3> DEFINE first == (h1 \div GroupSize(conf)) * GroupSize(conf)
    <3>1. first \in lanes /\ scaleOver[first] = GroupOf(conf, e, t, first)
      BY <2>3 DEF TurnIsExact
    <3>2. GroupOf(conf, e, t, first) = GroupOf(conf, e, t, h1) BY <1>1, FirstOfGroup
    <3> QED BY <2>2, <2>3, <3>1, <3>2
  <2>4. CASE ~ (e1 = e /\ t1 = t /\ h1 \div GroupSize(conf) \in groups)
    <3>1. ~ (e1 = e /\ t1 = t /\ h1 \in lanes) BY <2>4 DEF TurnIsExact
    <3> QED BY <1>7, <2>2, <2>4, <3>1 DEF ElementIsExact
  <2> QED BY <2>3, <2>4
<1> QED BY <1>2, <1>8, <1>9 DEF ElementIsExact

LEMMA TurnKeepsShape ==
  ASSUME BatchedInv, phase \in Kernels, NEW p \in DOMAIN cursor,
         NEW lanes, NEW scaleOver, NEW groups, Turn(p, lanes, scaleOver, groups)
  PROVE  /\ phase' = phase /\ conf' = conf
         /\ LaunchFits' /\ CursorsStride' /\ MemoryIs' /\ MaskedRowsAreExact'
<1>1. conf \in Confs /\ LaunchFits /\ CursorsStride /\ MemoryIs BY DEF BatchedInv
<1>2. /\ UNCHANGED << conf, phase >>
      /\ DOMAIN a2q' = DOMAIN a2q /\ DOMAIN a2s' = DOMAIN a2s
      /\ cursor' = [cursor EXCEPT ![p] = @ + Stride]
  BY DEF Turn
<1>3. Stride' = Stride /\ Stride \in Nat \ {0} BY <1>2, StrideType DEF Stride
<1>4. CursorsStride'
  <2>1. cursor[p] \in Nat /\ cursor[p] % Stride = p[3] BY <1>1 DEF CursorsStride
  <2>2. cursor[p] + Stride \in Nat /\ (cursor[p] + Stride) % Stride = p[3]
    <3> DEFINE s == Stride  t == cursor[p]
    <3>1. s \in Nat \ {0} /\ t \in Nat /\ t % s = p[3] BY <1>3, <2>1
    <3> HIDE DEF s, t
    <3>2. t + s \in Nat BY <3>1
    <3>3. (t + s) % s = t % s BY <3>1, NextOfStride, Zenon
    <3>4. t + s \in Nat /\ (t + s) % s = p[3] BY <3>1, <3>2, <3>3, Zenon
    <3> QED BY <3>4 DEF s, t
  <2>3. \A q \in DOMAIN cursor : cursor'[q] \in Nat /\ cursor'[q] % Stride = q[3]
    BY <1>1, <1>2, <2>2 DEF CursorsStride
  <2> QED BY <1>1, <1>2, <1>3, <2>3 DEF CursorsStride
<1>5. MemoryIs' BY <1>1, <1>2 DEF MemoryIs
<1>6. LaunchFits' BY <1>1, <1>2 DEF LaunchFits
<1>7. MaskedRowsAreExact' BY <1>2 DEF Kernels, MaskedRowsAreExact
<1> QED BY <1>2, <1>4, <1>5, <1>6, <1>7

\* The three kernels write their part of a row.
LEMMA KernelsAreExact ==
  ASSUME BatchedInv, phase \in Kernels, Filled(conf), NEW p \in DOMAIN cursor, cursor[p] < conf.n[p[1]]
  PROVE  /\ phase \in {"quant", "compiled"} =>
              LET lanes == IF phase = "compiled" THEN ExactLanes(conf, p[2]) ELSE QuantLanes(conf, p[2])
              IN TurnIsExact(p, lanes, [h \in lanes |-> GatesOf(p, lanes)], {p[2]})
         /\ phase = "plain" =>
              LET lanes == ExactLanes(conf, p[2])
              IN TurnIsExact(p, lanes, [h \in lanes |-> {}], {p[2]})
         /\ phase = "mxfp4" =>
              LET lanes == Mxfp4Lanes(conf, p[2])
              IN TurnIsExact(p, lanes, [h \in lanes |-> GatesOf(p, {h})], lanes)
<1> DEFINE lanes == PartLanes(conf, p[2])  g == GroupSize(conf)
<1>1. conf \in Confs /\ LaunchFits /\ CursorsStride BY DEF BatchedInv
<1>2. p[2] \in 0 .. Parts(conf) - 1 BY <1>1, ProgramType
<1>3. conf.H \in Nat \ {0} /\ g \in {1, 2, 4} BY <1>1, ConfType DEF Filled
<1>4. CASE phase # "mxfp4"
  <2>1. conf.scheme # "mxfp4" /\ conf.H % g = 0 BY <1>1, <1>4 DEF LaunchFits
  <2>2. lanes = {h \in 0 .. conf.H - 1 : h \div g = p[2]} BY <2>1 DEF PartLanes, PartSize
  <2>3. p[2] * g \in lanes /\ p[2] \in Nat
    <3>1. p[2] \in Nat /\ p[2] <= (conf.H \div g) - 1 BY <1>2, <1>3, <2>1 DEF Parts
    <3>2. p[2] * g \in 0 .. conf.H - 1 /\ (p[2] * g) \div g = p[2]
      <4> HIDE DEF g, lanes
      <4>1. CASE g = 1 BY <1>3, <3>1, <4>1
      <4>2. CASE g = 2 BY <1>3, <2>1, <3>1, <4>2
      <4>3. CASE g = 4 BY <1>3, <2>1, <3>1, <4>3
      <4> QED BY <1>3, <4>1, <4>2, <4>3
    <3> QED BY <2>2, <3>1, <3>2
  <2>4. ExactLanes(conf, p[2]) = lanes /\ QuantLanes(conf, p[2]) = lanes
    BY <1>1, <1>2, <2>1, PartsOfRow
  <2>5. ASSUME phase \in {"quant", "compiled"}
        PROVE  TurnIsExact(p, lanes, [h \in lanes |-> GatesOf(p, lanes)], {p[2]})
    <3>1. conf.scheme \in Quantizing BY <1>1, <2>5 DEF LaunchFits
    <3>2. \A h \in lanes : GatesOf(p, lanes) = GroupOf(conf, p[1], cursor[p], h)
      BY <2>2, <3>1 DEF GatesOf, GroupOf
    <3> QED BY <2>2, <2>3, <3>2 DEF TurnIsExact
  <2>6. ASSUME phase = "plain"
        PROVE  TurnIsExact(p, lanes, [h \in lanes |-> {}], {p[2]})
    <3>1. conf.scheme \notin Quantizing BY <1>1, <2>6 DEF LaunchFits
    <3> QED BY <2>2, <2>3, <3>1 DEF TurnIsExact, GroupOf
  <2> QED BY <1>4, <2>4, <2>5, <2>6, Zenon
<1>5. CASE phase = "mxfp4"
  <2>1. conf.scheme = "mxfp4" /\ g = 1 BY <1>1, <1>5 DEF LaunchFits, GroupSize
  <2>2. Mxfp4Lanes(conf, p[2]) = lanes BY <1>1, <1>2, <2>1, PartsOfRow
  <2>3. lanes \subseteq 0 .. conf.H - 1 BY DEF PartLanes
  <2>4. \A h \in lanes : GatesOf(p, {h}) = GroupOf(conf, p[1], cursor[p], h)
    <3>1. ASSUME NEW h \in lanes
          PROVE  {j \in 0 .. conf.H - 1 : j \div g = h \div g} = {h}
      BY <1>3, <2>1, <2>3, <3>1
    <3> QED BY <2>1, <3>1 DEF GatesOf, GroupOf, Quantizing
  <2>5. \A h \in lanes : h \div g = h /\ h * g = h /\ h \in Nat BY <1>3, <2>1, <2>3
  <2>6. TurnIsExact(p, lanes, [h \in lanes |-> GatesOf(p, {h})], lanes)
    BY <2>4, <2>5 DEF TurnIsExact
  <2> QED BY <1>5, <2>2, <2>6, Zenon
<1> QED BY <1>4, <1>5

LEMMA KernelStepSound ==
  ASSUME BatchedInv, NEW p \in DOMAIN cursor,
         \/ _silu_mul_quant_deep_gemm(p) \/ _silu_mul_deep_gemm(p)
         \/ _silu_mul_mxfp4_quant_deep_gemm(p)
  PROVE  BatchedInv'
<1>1. PICK lanes, scaleOver, groups :
        /\ phase \in Kernels
        /\ Turn(p, lanes, scaleOver, groups)
        /\ Filled(conf) => TurnIsExact(p, lanes, scaleOver, groups)
  <2>1. cursor[p] < conf.n[p[1]]
    BY DEF _silu_mul_quant_deep_gemm, _silu_mul_deep_gemm, _silu_mul_mxfp4_quant_deep_gemm, Turn
  <2>2. phase \in Kernels
    BY DEF _silu_mul_quant_deep_gemm, _silu_mul_deep_gemm, _silu_mul_mxfp4_quant_deep_gemm, Kernels
  <2>3. CASE _silu_mul_quant_deep_gemm(p)
    <3> DEFINE lanes == IF phase = "compiled" THEN ExactLanes(conf, p[2]) ELSE QuantLanes(conf, p[2])
               whole == [h \in lanes |-> GatesOf(p, lanes)]
    <3>1. phase \in {"quant", "compiled"} /\ Turn(p, lanes, whole, {p[2]})
      BY <2>3 DEF _silu_mul_quant_deep_gemm
    <3>2. Filled(conf) => TurnIsExact(p, lanes, whole, {p[2]})
      BY <2>1, <2>2, <3>1, KernelsAreExact, Zenon
    <3> HIDE DEF lanes, whole
    <3> QED BY <2>2, <3>1, <3>2
  <2>4. CASE _silu_mul_deep_gemm(p)
    <3> DEFINE lanes == ExactLanes(conf, p[2])
               none == [h \in lanes |-> {}]
    <3>1. phase = "plain" /\ Turn(p, lanes, none, {p[2]})
      BY <2>4 DEF _silu_mul_deep_gemm
    <3>2. Filled(conf) => TurnIsExact(p, lanes, none, {p[2]})
      BY <2>1, <2>2, <3>1, KernelsAreExact, Zenon
    <3> HIDE DEF lanes, none
    <3> QED BY <2>2, <3>1, <3>2
  <2>5. CASE _silu_mul_mxfp4_quant_deep_gemm(p)
    <3> DEFINE lanes == Mxfp4Lanes(conf, p[2])
               own == [h \in lanes |-> GatesOf(p, {h})]
    <3>1. phase = "mxfp4" /\ Turn(p, lanes, own, lanes)
      BY <2>5 DEF _silu_mul_mxfp4_quant_deep_gemm
    <3>2. Filled(conf) => TurnIsExact(p, lanes, own, lanes)
      BY <2>1, <2>2, <3>1, KernelsAreExact, Zenon
    <3> HIDE DEF lanes, own
    <3> QED BY <2>2, <3>1, <3>2
  <2> QED BY <2>3, <2>4, <2>5
<1>2. /\ phase' = phase /\ conf' = conf
      /\ LaunchFits' /\ CursorsStride' /\ MemoryIs' /\ MaskedRowsAreExact'
  BY <1>1, TurnKeepsShape
<1>3. Filled(conf) => PassedIsExact' BY <1>1, TurnKeepsExact
<1> QED BY <1>2, <1>3 DEF BatchedInv

LEMMA LaunchSound ==
  ASSUME BatchedInv,
         \/ PPUBatchedDeepGemmExperts \/ PPUBatchedDeepGemmExpertsW4FA16MMA
         \/ PPUBatchedDeepGemmExpertsMXFP4
  PROVE  BatchedInv'
<1>1. conf \in Confs /\ MaskedRowsAreExact BY DEF BatchedInv
<1>2. conf' = conf /\ phase = "gemm1"
  BY DEF PPUBatchedDeepGemmExperts, PPUBatchedDeepGemmExpertsW4FA16MMA,
         PPUBatchedDeepGemmExpertsMXFP4, Launches
<1>3. PICK launch :
        /\ Launches(launch) /\ launch.kernel \in Kernels
        /\ launch.kernel = "mxfp4" <=> conf.scheme = "mxfp4"
        /\ launch.kernel = "plain" => conf.scheme \notin Quantizing
        /\ launch.kernel \in {"quant", "compiled"} => conf.scheme \in Quantizing
        /\ conf.scheme # "mxfp4" /\ ~ launch.rejected => conf.H % GroupSize(conf) = 0
        /\ launch.parts = Parts(conf)
        /\ launch.stride = IF conf.scheme = "mxfp4" /\ conf.activation # "swiglustep"
                           THEN TokenPrograms ELSE 1
  <2>1. CASE PPUBatchedDeepGemmExperts
    <3>1. CASE conf.scheme \in {"fp8_block", "fp8_channel", "int8"}
      <4> DEFINE launch == _persistent_masked_m_silu_mul_quant(conf)
      <4>1. Launches(launch) BY <2>1, <3>1 DEF PPUBatchedDeepGemmExperts
      <4>2. /\ launch.kernel \in {"quant", "compiled"} /\ launch.parts = Parts(conf)
            /\ launch.stride = 1 /\ (~ launch.rejected => conf.H % GroupSize(conf) = 0)
        BY <3>1 DEF _persistent_masked_m_silu_mul_quant, Parts
      <4> HIDE DEF launch
      <4> QED BY <3>1, <4>1, <4>2 DEF Kernels, Quantizing
    <3>2. CASE conf.scheme \in {"w4a16", "bf16"}
      <4> DEFINE launch == silu_mul_deep_gemm(conf)
      <4>1. Launches(launch) BY <2>1, <3>2 DEF PPUBatchedDeepGemmExperts
      <4>2. /\ launch.kernel = "plain" /\ launch.parts = Parts(conf)
            /\ launch.stride = 1 /\ (~ launch.rejected => conf.H % GroupSize(conf) = 0)
        BY <3>2 DEF silu_mul_deep_gemm, Parts
      <4> HIDE DEF launch
      <4> QED BY <3>2, <4>1, <4>2 DEF Kernels, Quantizing
    <3> QED BY <2>1, <3>1, <3>2 DEF PPUBatchedDeepGemmExperts
  <2>2. CASE PPUBatchedDeepGemmExpertsW4FA16MMA
    <3> DEFINE launch == silu_mul_deep_gemm(conf)
    <3>1. Launches(launch) /\ conf.scheme = "w4fa16"
      BY <2>2 DEF PPUBatchedDeepGemmExpertsW4FA16MMA
    <3>2. /\ launch.kernel = "plain" /\ launch.parts = Parts(conf)
          /\ launch.stride = 1 /\ (~ launch.rejected => conf.H % GroupSize(conf) = 0)
      BY <3>1 DEF silu_mul_deep_gemm, Parts
    <3> HIDE DEF launch
    <3> QED BY <3>1, <3>2 DEF Kernels, Quantizing
  <2>3. CASE PPUBatchedDeepGemmExpertsMXFP4
    <3> DEFINE launch == IF conf.activation = "swiglustep" THEN TwoSteps(conf)
                         ELSE silu_mul_mxfp4_quant_masked(conf)
    <3>1. Launches(launch) /\ conf.scheme = "mxfp4"
      BY <2>3 DEF PPUBatchedDeepGemmExpertsMXFP4
    <3>2. /\ launch.kernel = "mxfp4" /\ launch.parts = Parts(conf)
          /\ launch.stride = IF conf.activation # "swiglustep" THEN TokenPrograms ELSE 1
      BY <3>1 DEF TwoSteps, silu_mul_mxfp4_quant_masked, Parts
    <3> HIDE DEF launch
    <3> QED BY <3>1, <3>2 DEF Kernels, Quantizing
  <2> QED BY <2>1, <2>2, <2>3
<1>4. CASE launch.rejected
  <2>1. phase' = "raised" BY <1>3, <1>4 DEF Launches
  <2> QED BY <1>1, <1>2, <2>1 DEF BatchedInv, Kernels, MaskedRowsAreExact
<1>5. CASE ~ launch.rejected
  <2>1. phase' = launch.kernel BY <1>3, <1>5 DEF Launches
  <2>2. LaunchFits' BY <1>2, <1>3, <1>5, <2>1 DEF LaunchFits
  <2>3. Stride' = launch.stride BY <1>2, <1>3, <2>1 DEF Stride
  <2>4. launch.stride \in Nat \ {0} BY <1>3, BatchedAssumption
  <2>5. Parts(conf)' = Parts(conf) /\ GroupSize(conf)' = GroupSize(conf) BY <1>2
  <2> DEFINE D == LocalExperts \X (0 .. Parts(conf) - 1) \X (0 .. launch.stride - 1)
  <2>6. cursor' = [p \in D |-> p[3]] BY <1>3, <1>5 DEF Launches
  <2>7. \A p \in D : p[3] \in 0 .. launch.stride - 1 OBVIOUS
  <2>8. \A p \in D : p[3] \in Nat /\ p[3] % launch.stride = p[3]
    <3>1. ASSUME NEW s \in Nat \ {0}, NEW x \in 0 .. s - 1 PROVE x % s = x
      OBVIOUS
    <3> QED BY <2>4, <2>7, <3>1
  <2>9. CursorsStride' BY <2>3, <2>5, <2>6, <2>8 DEF CursorsStride
  <2>10. MemoryIs' BY <1>2, <1>3, <1>5 DEF Launches, MemoryIs
  <2>11. Filled(conf) => PassedIsExact'
    <3> SUFFICES ASSUME Filled(conf), NEW e \in LocalExperts, NEW t \in 0 .. conf.n[e] - 1,
                        NEW h \in 0 .. conf.H - 1, t < cursor'[Program(e, t, h)']
                 PROVE  FALSE
      BY <1>2 DEF PassedIsExact
    <3>1. Program(e, t, h)' = << e, h \div PartSize(conf), t % launch.stride >>
      BY <1>2, <2>3 DEF Program
    <3>2. h \div PartSize(conf) \in 0 .. Parts(conf) - 1
      BY <1>1, <1>3, <1>5, EveryElementHasPart
    <3>3. t \in Nat /\ t % launch.stride \in 0 .. launch.stride - 1 /\ t % launch.stride <= t
      <4>1. t \in Nat BY <1>1, ConfType
      <4>2. ASSUME NEW s \in Nat \ {0} PROVE t % s \in 0 .. s - 1 /\ t % s <= t
        <5>1. t = s * (t \div s) + (t % s) /\ t % s \in 0 .. s - 1 /\ t \div s \in Nat BY <4>1
        <5>2. s * (t \div s) \in Nat BY <5>1
        <5> QED BY <4>1, <5>1, <5>2
      <4> QED BY <2>4, <4>1, <4>2
    <3>4. cursor'[Program(e, t, h)'] = t % launch.stride BY <2>6, <3>1, <3>2, <3>3
    <3> QED BY <3>3, <3>4
  <2>12. MaskedRowsAreExact' BY <1>3, <2>1 DEF MaskedRowsAreExact, Kernels
  <2> QED BY <1>1, <1>2, <2>2, <2>9, <2>10, <2>11, <2>12 DEF BatchedInv
<1> QED BY <1>4, <1>5

\* When every program has come to its end, no row is left.
LEMMA Gemm2Sound == ASSUME BatchedInv, Gemm2 PROVE BatchedInv'
<1>1. conf' = conf /\ phase \in Kernels /\ phase' = "done" /\ conf \in Confs
  BY DEF Gemm2, BatchedInv, Kernels
<1>2. LaunchFits /\ CursorsStride /\ (Filled(conf) => PassedIsExact)
  BY <1>1 DEF BatchedInv
<1>3. MaskedRowsAreExact'
  <2> SUFFICES ASSUME Filled(conf), NEW e \in LocalExperts, NEW t \in 0 .. conf.n[e] - 1,
                      NEW h \in 0 .. conf.H - 1
               PROVE  LET group == GroupOf(conf, e, t, h)  read == gemmOut'[e][t][h] IN
                      /\ read[1] = [gate |-> GateAt(conf, e, t, h), scale |-> group]
                      /\ read[2] = group
    BY <1>1 DEF MaskedRowsAreExact, Filled
  <2> DEFINE q == Program(e, t, h)
  <2>1. q \in DOMAIN cursor /\ q[1] = e
    <3>1. h \div PartSize(conf) \in 0 .. Parts(conf) - 1
      BY <1>1, <1>2, EveryElementHasPart DEF LaunchFits
    <3>2. t % Stride \in 0 .. Stride - 1
      <4>1. t \in Nat BY <1>1, ConfType
      <4> QED BY <4>1, StrideType, NextOfStride
    <3> QED BY <1>2, <3>1, <3>2 DEF CursorsStride, Program
  <2>2. cursor[q] >= conf.n[e] BY <2>1 DEF Gemm2
  <2>3. t < cursor[q]
    <3>1. cursor[q] \in Nat /\ conf.n[e] \in Nat BY <1>1, <1>2, <2>1, ConfType DEF CursorsStride
    <3> QED BY <2>2, <3>1
  <2>4. ElementIsExact(e, t, h) BY <1>2, <2>3 DEF PassedIsExact
  <2>5. gemmOut'[e][t][h] = << a2q[OutAt(conf, e, t, h)], a2s[<< e, t, h \div GroupSize(conf) >>] >>
    BY DEF Gemm2
  <2> QED BY <2>4, <2>5 DEF ElementIsExact
<1> QED BY <1>1, <1>3 DEF BatchedInv, Kernels

LEMMA BatchedNextSound == BatchedInv /\ [BatchedNext]_batchedVars => BatchedInv'
<1> SUFFICES ASSUME BatchedInv, [BatchedNext]_batchedVars PROVE BatchedInv' OBVIOUS
<1>1. CASE \/ PPUBatchedDeepGemmExperts \/ PPUBatchedDeepGemmExpertsW4FA16MMA
           \/ PPUBatchedDeepGemmExpertsMXFP4
  BY <1>1, LaunchSound
<1>2. CASE Gemm2 BY <1>2, Gemm2Sound
<1>3. CASE \E p \in DOMAIN cursor : \/ _silu_mul_quant_deep_gemm(p) \/ _silu_mul_deep_gemm(p)
                                    \/ _silu_mul_mxfp4_quant_deep_gemm(p)
  BY <1>3, KernelStepSound
<1>4. CASE UNCHANGED batchedVars
  <2>1. UNCHANGED << conf, phase, cursor, a2q, a2s, gemmOut >> BY <1>4 DEF batchedVars
  <2>2. Stride' = Stride BY <2>1 DEF Stride
  <2> QED BY <2>1, <2>2
          DEF BatchedInv, LaunchFits, CursorsStride, MemoryIs, PassedIsExact, ElementIsExact,
              Program, MaskedRowsAreExact
<1> QED BY <1>1, <1>2, <1>3, <1>4 DEF BatchedNext

\* The launch fits the rows, every program stays on its own residue of the rows, and every
\* row a program has passed holds its own activation and scale.
THEOREM BatchedRowsAreSound == BatchedSpec => []BatchedInv
<1>1. BatchedInit => BatchedInv
  BY DEF BatchedInit, BatchedInv, Kernels, MaskedRowsAreExact
<1> QED BY <1>1, BatchedNextSound, PTL DEF BatchedSpec

\* Of the rows below an expert's count, what the second GEMM reads was written by this step:
\* the activation of the same element under the scale of its own group.
THEOREM MaskedRowsAlwaysExact == BatchedSpec => []MaskedRowsAreExact
BY BatchedRowsAreSound, PTL DEF BatchedInv

--------------------------------------------------------------------------------
(* The compressed keys of DeepSeek V4.                                         *)

\* The positions of a request, and what its row of state and its keys should be.
StateOf(r, p) == [token |-> << r, p, content[r][p] >>, ape |-> p % compress_ratio]
WindowOf(r, x, h) == { [half |-> h, state |-> StateOf(r, p)] :
                         p \in x * compress_ratio .. (x + 1) * compress_ratio - 1 }
WindowKey(r, x) == [window |-> IF ~ overlapping THEN WindowOf(r, x, 1)
                           ELSE WindowOf(r, x, 2) \cup (IF x > 0 THEN WindowOf(r, x - 1, 1) ELSE {}),
                rope |-> x * compress_ratio]
SlotOf(r, x) == Physical(r, x \div KeyBlock) * KeyBlock + (x % KeyBlock)
ClosingPos(x)   == x * compress_ratio + (compress_ratio - 1)

StateHeld(r, p) == /\ RowOf(r, p) \in DOMAIN stateCache
                   /\ stateCache[RowOf(r, p)] = StateOf(r, p)
KeyHeld(r, x) == /\ {KeyAddress(SlotOf(r, x)), ScaleAddress(SlotOf(r, x))} \subseteq DOMAIN kvCache
                 /\ kvCache[KeyAddress(SlotOf(r, x))] = [bytes |-> WindowKey(r, x)]
                 /\ kvCache[ScaleAddress(SlotOf(r, x))] = [scale |-> WindowKey(r, x)]

\* The programs that a step has still to run.
ToSave     == IF kcStage = "forward" THEN DOMAIN kcBatch ELSE saving
ToCompress == IF kcStage = "forward" THEN DOMAIN kcBatch ELSE compressing

BatchToken == [req : CompressorReqs, pos : Nat, slot : Int, kv_slot : Int]

\* A compressor of a kind that exists keeps one of two layouts; one that is still asked for
\* anything has a kernel that takes its layout.
Working == {"idle", "forward", "launched", "served"}
KcTypeOK ==
  /\ kcEnv \in CompressorEnvs
  /\ written \in [CompressorReqs -> 0 .. CompressorContext]
  /\ content \in [CompressorReqs -> [0 .. CompressorContext - 1 -> Nat]]
  /\ kcStage \in Working \cup {"construct", "refused", "capture"}
  /\ kcStage \in Working \cup {"capture"} => head_dim \in {128, 512} /\ (head_dim = 512 => ~ kcEnv.fp4)
  /\ kcStage = "capture" => kcEnv.full
  /\ kcStage \in Working /\ kcEnv.full => captured = "save and compress"
  /\ kcBatch \in Seq(BatchToken)
  /\ kcStage \notin {"forward", "launched", "served"} => kcBatch = << >>
  /\ saving \in SUBSET DOMAIN kcBatch /\ compressing \in SUBSET DOMAIN kcBatch
  /\ kcStage \notin {"launched"} => saving = {} /\ compressing = {}

\* The batch of a step: of each request the tokens from the first that is not written to the
\* length of its sequence, each once, and what pads them.
BatchIsOfStep ==
  \A r \in CompressorReqs :
    /\ SeqLenOf(r) \in written[r] .. CompressorContext
    /\ \A i \in DOMAIN kcBatch : kcBatch[i].req = r /\ kcBatch[i].slot >= 0 =>
         /\ kcBatch[i].pos \in written[r] .. SeqLenOf(r) - 1
         /\ kcBatch[i] = TokenAt(r, kcBatch[i].pos)
    /\ \A p \in written[r] .. SeqLenOf(r) - 1 : \E i \in DOMAIN kcBatch : kcBatch[i] = TokenAt(r, p)

StatesHeld ==
  \A r \in CompressorReqs : \A p \in 0 .. SeqLenOf(r) - 1 :
    StateHeld(r, p) \/ \E i \in ToSave : kcBatch[i] = TokenAt(r, p)
KeysHeld ==
  \A r \in CompressorReqs : \A x \in 0 .. (SeqLenOf(r) \div compress_ratio) - 1 :
    KeyHeld(r, x) \/ \E i \in ToCompress : kcBatch[i] = TokenAt(r, ClosingPos(x))

\* What attention gathered are the last keys of its request.
GatheredAre ==
  kcStage = "served" /\ head_dim = 512 =>
    \A r \in CompressorReqs : \A n \in {SeqLenOf(r) \div compress_ratio} : \E g \in 0 .. n :
      out[r] = [o \in 1 .. g |-> << [bytes |-> WindowKey(r, n - g + (o - 1))],
                                    [scale |-> WindowKey(r, n - g + (o - 1))] >>]

KcInv == /\ KcTypeOK /\ BatchIsOfStep /\ StatesHeld /\ KeysHeld /\ GatheredAre

--------------------------------------------------------------------------------
(* Addresses.                                                                  *)

\* A place and its block, taken apart again.
LEMMA Apart ==
  ASSUME NEW K \in Nat \ {0}, NEW a \in Nat, NEW b \in 0 .. K - 1
  PROVE  a * K + b \in Nat /\ (a * K + b) \div K = a /\ (a * K + b) % K = b
<1> DEFINE u == a * K + b  q == u \div K  m == u % K
<1>1. a * K \in Nat OBVIOUS
<1>2. u \in Nat BY <1>1
<1>3. u = K * q + m /\ m \in 0 .. K - 1 /\ q \in Nat
  <2> HIDE DEF u
  <2> QED BY <1>2
<1>4. q * K + m = a * K + b
  <2> HIDE DEF q, m
  <2> QED BY <1>3
<1>5. q = a /\ m = b
  <2> HIDE DEF q, m
  <2> QED BY <1>3, <1>4, RowsApart
<1> QED BY <1>2, <1>5

LEMMA Requests ==
  /\ CompressorReqs # {} /\ Cardinality(CompressorReqs) \in Nat \ {0}
  /\ CompressorReqs = 0 .. Cardinality(CompressorReqs) - 1
<1>1. Cardinality(CompressorReqs) \in Nat BY CompressorAssumption, FS_CardinalityType
<1> QED BY <1>1, CompressorAssumption

\* Different requests have different blocks.
LEMMA BlocksApart ==
  ASSUME NEW r \in CompressorReqs, NEW s \in CompressorReqs, NEW a \in Nat, NEW b \in Nat
  PROVE  Physical(r, a) \in Nat /\ (Physical(r, a) = Physical(s, b) => r = s /\ a = b)
<1> DEFINE n == Cardinality(CompressorReqs)
<1>1. n \in Nat \ {0} /\ r \in 0 .. n - 1 /\ s \in 0 .. n - 1 BY Requests
<1>2. Physical(r, a) = a * n + r /\ Physical(s, b) = b * n + s BY DEF Physical
<1> HIDE DEF n
<1>3. a * n \in Nat BY <1>1
<1>4. Physical(r, a) \in Nat BY <1>1, <1>2, <1>3
<1>5. ASSUME Physical(r, a) = Physical(s, b) PROVE r = s /\ a = b
  BY <1>1, <1>2, <1>5, RowsApart
<1> QED BY <1>4, <1>5

\* An index in its block.
LEMMA InBlock ==
  ASSUME NEW K \in Nat \ {0}, NEW p \in Nat, NEW q \in Nat
  PROVE  /\ p \div K \in Nat /\ p % K \in 0 .. K - 1
         /\ p \div K = q \div K /\ p % K = q % K => p = q
<1>1. p = K * (p \div K) + (p % K) /\ p \div K \in Nat /\ p % K \in 0 .. K - 1 OBVIOUS
<1>2. q = K * (q \div K) + (q % K) OBVIOUS
<1> QED BY <1>1, <1>2

LEMMA StateRowsApart ==
  ASSUME NEW r \in CompressorReqs, NEW s \in CompressorReqs, NEW p \in Nat, NEW q \in Nat,
         RowOf(r, p) = RowOf(s, q)
  PROVE  r = s /\ p = q
<1>1. StateBlock \in Nat \ {0} BY CompressorAssumption
<1>2. p \div StateBlock \in Nat /\ q \div StateBlock \in Nat BY <1>1, InBlock
<1>3. Physical(r, p \div StateBlock) = Physical(s, q \div StateBlock) /\ p % StateBlock = q % StateBlock
  BY DEF RowOf
<1>4. r = s /\ p \div StateBlock = q \div StateBlock BY <1>2, <1>3, BlocksApart
<1> QED BY <1>1, <1>3, <1>4, InBlock

LEMMA RatioType == compress_ratio \in {2, 3} /\ (overlapping => compress_ratio = 2)
BY DEF compress_ratio, overlapping

\* A token's slot of state is its row; a token that closes a window has the slot of its key.
LEMMA TokenSlots ==
  ASSUME NEW r \in CompressorReqs, NEW p \in Nat
  PROVE  /\ TokenAt(r, p).req = r /\ TokenAt(r, p).pos = p
         /\ TokenAt(r, p).slot \in Nat
         /\ << TokenAt(r, p).slot \div StateBlock, TokenAt(r, p).slot % StateBlock >> = RowOf(r, p)
<1>1. StateBlock \in Nat \ {0} BY CompressorAssumption
<1>2. p \div StateBlock \in Nat /\ p % StateBlock \in 0 .. StateBlock - 1 BY <1>1, InBlock
<1>3. Physical(r, p \div StateBlock) \in Nat BY <1>2, BlocksApart
<1> DEFINE a == Physical(r, p \div StateBlock)  b == p % StateBlock
<1>4. a \in Nat /\ b \in 0 .. StateBlock - 1 BY <1>2, <1>3
<1>5. TokenAt(r, p).slot = a * StateBlock + b /\ TokenAt(r, p).req = r /\ TokenAt(r, p).pos = p
  BY DEF TokenAt
<1>6. RowOf(r, p) = << a, b >> BY DEF RowOf
<1> HIDE DEF a, b
<1>7. a * StateBlock + b \in Nat /\ (a * StateBlock + b) \div StateBlock = a
      /\ (a * StateBlock + b) % StateBlock = b
  BY <1>1, <1>4, Apart
<1> QED BY <1>5, <1>6, <1>7

LEMMA ClosingIs ==
  ASSUME NEW x \in Nat
  PROVE  /\ ClosingPos(x) \in Nat /\ (ClosingPos(x) + 1) % compress_ratio = 0
         /\ ClosingPos(x) \div compress_ratio = x
<1>1. CASE compress_ratio = 2 BY <1>1 DEF ClosingPos
<1>2. CASE compress_ratio = 3 BY <1>2 DEF ClosingPos
<1> QED BY <1>1, <1>2, RatioType

LEMMA ClosesAWindow ==
  ASSUME NEW p \in Nat, (p + 1) % compress_ratio = 0
  PROVE  p \div compress_ratio \in Nat /\ p = ClosingPos(p \div compress_ratio)
<1>1. CASE compress_ratio = 2 BY <1>1 DEF ClosingPos
<1>2. CASE compress_ratio = 3 BY <1>2 DEF ClosingPos
<1> QED BY <1>1, <1>2, RatioType

LEMMA KeySlot ==
  ASSUME NEW r \in CompressorReqs, NEW x \in Nat
  PROVE  /\ SlotOf(r, x) \in Nat
         /\ SlotOf(r, x) \div KeyBlock = Physical(r, x \div KeyBlock)
         /\ SlotOf(r, x) % KeyBlock = x % KeyBlock
         /\ x % KeyBlock \in 0 .. KeyBlock - 1
         /\ TokenAt(r, ClosingPos(x)).kv_slot = SlotOf(r, x)
<1>1. KeyBlock \in Nat \ {0} BY CompressorAssumption
<1>2. x \div KeyBlock \in Nat /\ x % KeyBlock \in 0 .. KeyBlock - 1 BY <1>1, InBlock
<1>3. Physical(r, x \div KeyBlock) \in Nat BY <1>2, BlocksApart
<1> DEFINE a == Physical(r, x \div KeyBlock)  b == x % KeyBlock
<1>4. a \in Nat /\ b \in 0 .. KeyBlock - 1 /\ SlotOf(r, x) = a * KeyBlock + b BY <1>2, <1>3 DEF SlotOf
<1>5. SlotOf(r, x) \in Nat /\ SlotOf(r, x) \div KeyBlock = a /\ SlotOf(r, x) % KeyBlock = b
  <2> HIDE DEF a, b
  <2> QED BY <1>1, <1>4, Apart
<1>6. TokenAt(r, ClosingPos(x)).kv_slot = SlotOf(r, x) BY ClosingIs DEF TokenAt, SlotOf
<1> QED BY <1>2, <1>5, <1>6

LEMMA TokenIsElement ==
  ASSUME NEW r \in CompressorReqs, NEW p \in Nat
  PROVE  TokenAt(r, p) \in BatchToken
<1>1. TokenAt(r, p).slot \in Nat BY TokenSlots
<1>2. TokenAt(r, p).kv_slot \in Int
  <2>1. CASE (p + 1) % compress_ratio # 0
    <3>1. TokenAt(r, p).kv_slot = -1 BY <2>1 DEF TokenAt
    <3> QED BY <3>1
  <2>2. CASE (p + 1) % compress_ratio = 0
    <3>1. PICK x \in Nat : p = ClosingPos(x) BY <2>2, ClosesAWindow
    <3>2. TokenAt(r, p).kv_slot \in Nat BY <3>1, KeySlot
    <3> QED BY <3>2
  <2> QED BY <2>1, <2>2
<1>3. TokenAt(r, p) = [req |-> r, pos |-> p, slot |-> TokenAt(r, p).slot, kv_slot |-> TokenAt(r, p).kv_slot]
  BY DEF TokenAt
<1> DEFINE a == TokenAt(r, p).slot  b == TokenAt(r, p).kv_slot
<1>4. a \in Int /\ b \in Int BY <1>1, <1>2
<1> HIDE DEF a, b
<1>5. [req |-> r, pos |-> p, slot |-> a, kv_slot |-> b] \in BatchToken
  BY <1>4 DEF BatchToken
<1> QED BY <1>3, <1>5 DEF a, b

LEMMA PaddingIsElement ==
  ASSUME NEW pad \in Padding
  PROVE  pad \in BatchToken /\ pad.slot = -1
<1>1. (CHOOSE r \in CompressorReqs : TRUE) \in CompressorReqs BY Requests
<1>2. {0, compress_ratio - 1} \subseteq Nat BY RatioType
<1> QED BY <1>1, <1>2 DEF Padding, BatchToken

\* The layouts are those that the kernels take.
LEMMA LayoutType ==
  ASSUME head_dim \in {128, 512}
  PROVE  /\ Layout.token_stride \in {64, 128, 576} /\ Layout.scale_dim \in {4, 8}
         /\ head_dim = 512 => Layout.token_stride = 576 /\ Layout.scale_dim = 8
<1>1. CASE head_dim = 512 BY <1>1 DEF Layout, rope_head_dim
<1>2. CASE head_dim = 128 /\ kcEnv.fp4 BY <1>2 DEF Layout
<1>3. CASE head_dim = 128 /\ ~ kcEnv.fp4 BY <1>3 DEF Layout
<1> QED BY <1>1, <1>2, <1>3

\* The bytes and the scales of two keys are at four addresses.
LEMMA KeysApart ==
  ASSUME NEW r \in CompressorReqs, NEW s \in CompressorReqs, NEW x \in Nat, NEW y \in Nat,
         head_dim \in {128, 512}
  PROVE  /\ KeyAddress(SlotOf(r, x)) = KeyAddress(SlotOf(s, y)) => r = s /\ x = y
         /\ ScaleAddress(SlotOf(r, x)) = ScaleAddress(SlotOf(s, y)) => r = s /\ x = y
         /\ KeyAddress(SlotOf(r, x)) # ScaleAddress(SlotOf(s, y))
<1> DEFINE T == Layout.token_stride  D == Layout.scale_dim
           i == x % KeyBlock  j == y % KeyBlock
           a == Physical(r, x \div KeyBlock)  b == Physical(s, y \div KeyBlock)
<1>1. T \in {64, 128, 576} /\ D \in {4, 8} BY LayoutType
<1>2. KeyBlock \in Nat \ {0} BY CompressorAssumption
<1>3. i \in 0 .. KeyBlock - 1 /\ j \in 0 .. KeyBlock - 1 BY KeySlot
<1>4. /\ KeyAddress(SlotOf(r, x)) = << a, i * T >> /\ KeyAddress(SlotOf(s, y)) = << b, j * T >>
      /\ ScaleAddress(SlotOf(r, x)) = << a, KeyBlock * T + i * D >>
      /\ ScaleAddress(SlotOf(s, y)) = << b, KeyBlock * T + j * D >>
  BY KeySlot DEF KeyAddress, ScaleAddress
<1>5. a = b /\ i = j => r = s /\ x = y
  <2>1. x \div KeyBlock \in Nat /\ y \div KeyBlock \in Nat BY <1>2, InBlock
  <2> QED BY <1>2, <2>1, BlocksApart, InBlock, ZenonT(40)
<1> HIDE DEF T, D, i, j, a, b
<1>6. i * T = j * T => i = j BY <1>1, <1>3
<1>7. KeyBlock * T + i * D = KeyBlock * T + j * D => i = j
  <2>1. CASE T = 64 BY <1>1, <1>2, <1>3, <2>1
  <2>2. CASE T = 128 BY <1>1, <1>2, <1>3, <2>2
  <2>3. CASE T = 576 BY <1>1, <1>2, <1>3, <2>3
  <2> QED BY <1>1, <2>1, <2>2, <2>3
<1>8. i * T # KeyBlock * T + j * D
  <2>1. CASE T = 64 BY <1>1, <1>2, <1>3, <2>1
  <2>2. CASE T = 128 BY <1>1, <1>2, <1>3, <2>2
  <2>3. CASE T = 576 BY <1>1, <1>2, <1>3, <2>3
  <2> QED BY <1>1, <2>1, <2>2, <2>3
<1> QED BY <1>4, <1>5, <1>6, <1>7, <1>8

--------------------------------------------------------------------------------
(* What a step leaves alone.                                                   *)

LEMMA SameCompressor ==
  ASSUME kcEnv' = kcEnv
  PROVE  /\ compress_ratio' = compress_ratio /\ head_dim' = head_dim /\ overlapping' = overlapping
         /\ Layout' = Layout
         /\ \A k : KeyAddress(k)' = KeyAddress(k) /\ ScaleAddress(k)' = ScaleAddress(k)
         /\ \A r, p : TokenAt(r, p)' = TokenAt(r, p)
         /\ \A x : ClosingPos(x)' = ClosingPos(x)
<1>1. compress_ratio' = compress_ratio BY DEF compress_ratio
<1>2. head_dim' = head_dim BY DEF head_dim
<1>3. overlapping' = overlapping BY DEF overlapping
<1>4. Layout' = Layout BY <1>2 DEF Layout
<1>5. \A k : KeyAddress(k)' = KeyAddress(k) /\ ScaleAddress(k)' = ScaleAddress(k)
  BY <1>4 DEF KeyAddress, ScaleAddress
<1>6. \A r, p : TokenAt(r, p)' = TokenAt(r, p) BY <1>1 DEF TokenAt
<1>7. \A x : ClosingPos(x)' = ClosingPos(x) BY <1>1 DEF ClosingPos
<1> QED BY <1>1, <1>2, <1>3, <1>4, <1>5, <1>6, <1>7

\* A row keeps its state while the token at its position stays.
LEMMA StateKept ==
  ASSUME kcEnv' = kcEnv, stateCache' = stateCache, NEW r \in CompressorReqs, NEW p \in Nat,
         content'[r][p] = content[r][p], StateHeld(r, p)
  PROVE  StateHeld(r, p)'
<1>1. StateOf(r, p)' = StateOf(r, p) BY SameCompressor DEF StateOf
<1> QED BY <1>1 DEF StateHeld

\* A key depends on the tokens up to the end of its window.
LEMMA SameKey ==
  ASSUME kcEnv' = kcEnv, NEW r \in CompressorReqs, NEW x \in Nat,
         \A q \in 0 .. ClosingPos(x) : content'[r][q] = content[r][q]
  PROVE  WindowKey(r, x)' = WindowKey(r, x)
<1>1. compress_ratio' = compress_ratio /\ overlapping' = overlapping BY SameCompressor
<1>2. ASSUME NEW y \in Nat, y <= x, NEW h PROVE WindowOf(r, y, h)' = WindowOf(r, y, h)
  <2> DEFINE Q == y * compress_ratio .. (y + 1) * compress_ratio - 1
  <2>1. Q \subseteq 0 .. ClosingPos(x)
    <3>1. CASE compress_ratio = 2 BY <1>2, <3>1 DEF ClosingPos
    <3>2. CASE compress_ratio = 3 BY <1>2, <3>2 DEF ClosingPos
    <3> QED BY <3>1, <3>2, RatioType
  <2>2. \A q \in Q : StateOf(r, q)' = StateOf(r, q) BY <1>1, <2>1 DEF StateOf
  <2>3. Q' = Q BY <1>1
  <2>4. /\ WindowOf(r, y, h) = { [half |-> h, state |-> StateOf(r, p)] : p \in Q }
        /\ WindowOf(r, y, h)' = { [half |-> h, state |-> StateOf(r, p)'] : p \in Q }
    BY <2>3 DEF WindowOf
  <2> HIDE DEF Q
  <2> QED BY <2>2, <2>4
<1>3. \A h : WindowOf(r, x, h)' = WindowOf(r, x, h) BY <1>2
<1>4. x > 0 => WindowOf(r, x - 1, 1)' = WindowOf(r, x - 1, 1) BY <1>2
<1> QED BY <1>1, <1>3, <1>4 DEF WindowKey

LEMMA KeyKept ==
  ASSUME kcEnv' = kcEnv, kvCache' = kvCache, NEW r \in CompressorReqs, NEW x \in Nat,
         \A q \in 0 .. ClosingPos(x) : content'[r][q] = content[r][q], KeyHeld(r, x)
  PROVE  KeyHeld(r, x)'
<1>1. WindowKey(r, x)' = WindowKey(r, x) BY SameKey
<1>2. SlotOf(r, x)' = SlotOf(r, x) BY DEF SlotOf
<1> DEFINE a == KeyAddress(SlotOf(r, x))  b == ScaleAddress(SlotOf(r, x))
<1>3. a' = a /\ b' = b BY <1>2, SameCompressor
<1> QED BY <1>1, <1>3 DEF KeyHeld

\* The length of a sequence in a batch.
SeqLenIn(b, w, r) ==
  LET P == { b[i].pos + 1 : i \in { j \in DOMAIN b : b[j].req = r /\ b[j].slot >= 0 } }
  IN IF P = {} THEN w[r] ELSE CHOOSE n \in P : \A o \in P : o <= n

LEMMA LenIs == \A r : SeqLenOf(r) = SeqLenIn(kcBatch, written, r)
BY DEF SeqLenOf, SeqLenIn

LEMMA LenWithout ==
  ASSUME NEW b, NEW w, NEW r, \A i \in DOMAIN b : ~ (b[i].req = r /\ b[i].slot >= 0)
  PROVE  SeqLenIn(b, w, r) = w[r]
BY DEF SeqLenIn

LEMMA LenWith ==
  ASSUME NEW b, NEW w, NEW r, NEW n \in Int,
         \A i \in DOMAIN b : b[i].req = r /\ b[i].slot >= 0 => b[i].pos \in Int /\ b[i].pos < n,
         \E i \in DOMAIN b : b[i].req = r /\ b[i].slot >= 0 /\ b[i].pos = n - 1
  PROVE  SeqLenIn(b, w, r) = n
<1> DEFINE P == { b[i].pos + 1 : i \in { j \in DOMAIN b : b[j].req = r /\ b[j].slot >= 0 } }
<1>1. n \in P OBVIOUS
<1>2. \A o \in P : o \in Int /\ o <= n OBVIOUS
<1>3. SeqLenIn(b, w, r) = CHOOSE m \in P : \A o \in P : o <= m BY <1>1 DEF SeqLenIn
<1> HIDE DEF P
<1>4. \A m \in P : (\A o \in P : o <= m) => m = n BY <1>1, <1>2
<1>5. \E m \in P : \A o \in P : o <= m BY <1>1, <1>2
<1>6. (CHOOSE m \in P : \A o \in P : o <= m) = n BY <1>4, <1>5
<1> QED BY <1>3, <1>6

\* A set as a sequence has each of its elements.
LEMMA SetAsSeq ==
  ASSUME NEW S, IsFiniteSet(S)
  PROVE  /\ SetToSeq(S) \in Seq(S)
         /\ \A i \in DOMAIN SetToSeq(S) : SetToSeq(S)[i] \in S
         /\ \A x \in S : \E i \in DOMAIN SetToSeq(S) : SetToSeq(S)[i] = x
<1> DEFINE n == Cardinality(S)
<1>1. n \in Nat /\ ExistsBijection(1 .. n, S) BY FS_CardinalityType
<1>2. \E f \in [1 .. n -> S] : IsInjective(f)
  BY <1>1 DEF ExistsBijection, Bijection, Injection
<1>3. SetToSeq(S) \in [1 .. n -> S] /\ IsInjective(SetToSeq(S)) BY <1>2 DEF SetToSeq
<1>4. SetToSeq(S) \in Injection(1 .. n, S) BY <1>3 DEF Injection
<1>5. IsFiniteSet(1 .. n) /\ Cardinality(1 .. n) = n BY <1>1, FS_Interval
<1>6. SetToSeq(S) \in Surjection(1 .. n, S) BY <1>4, <1>5, FS_Injection
<1> DEFINE s == SetToSeq(S)
<1>7. s \in [1 .. n -> S] /\ \A x \in S : \E i \in 1 .. n : s[i] = x BY <1>3, <1>6 DEF Surjection
<1> HIDE DEF s, n
<1>8. s \in Seq(S) /\ DOMAIN s = 1 .. n BY <1>1, <1>7
<1>9. /\ s \in Seq(S) /\ \A i \in DOMAIN s : s[i] \in S
      /\ \A x \in S : \E i \in DOMAIN s : s[i] = x
  BY <1>7, <1>8
<1> QED BY <1>9 DEF s

--------------------------------------------------------------------------------
(* Each step keeps KcInv.                                                      *)

\* The indexer keeps no fp4 keys on PPU 1.0: the patch leaves those to vLLM's kernel, which
\* is not compiled there.
SupportedCompressors ==
  \A e \in CompressorEnvs : ~ (e.kind = "indexer" /\ e.sm80 /\ e.fp4)

LEMMA KernelTakesLayout ==
  ASSUME SupportedCompressors, kcEnv \in CompressorEnvs, head_dim \in {128, 512},
         head_dim = 512 => ~ kcEnv.fp4
  PROVE  Accepts
<1>1. /\ kcEnv.kind \in {"indexer", "csa", "hca", "other"} /\ kcEnv.sm80 \in BOOLEAN
      /\ kcEnv.fp4 \in BOOLEAN
  BY CompressorAssumption
<1>2. Replaced("compressor") BY DEF Replaced, Rebound
<1>3. CASE ~ kcEnv.sm80
  BY <1>1, <1>3 DEF Accepts, compress_norm_rope_store_fn
<1>4. CASE kcEnv.sm80 /\ head_dim = 512
  <2>1. compress_norm_rope_store_fn = "compress_mla_rope_store_fp8"
    BY <1>2, <1>4 DEF compress_norm_rope_store_fn
  <2>2. Layout = [quant_block |-> 64, token_stride |-> 576, scale_dim |-> 8]
    BY <1>4 DEF Layout, rope_head_dim
  <2> QED BY <2>1, <2>2 DEF Accepts
<1>5. CASE kcEnv.sm80 /\ head_dim = 128
  <2>1. kcEnv.kind = "indexer" BY <1>1, <1>5 DEF head_dim
  <2>2. ~ kcEnv.fp4 BY <2>1, <1>5 DEF SupportedCompressors
  <2>3. compress_norm_rope_store_fn = "compress_indexer_rope_store_int8"
    BY <1>2, <1>5, <2>2 DEF compress_norm_rope_store_fn
  <2>4. Layout = [quant_block |-> 128, token_stride |-> 128, scale_dim |-> 4]
    BY <1>5, <2>2 DEF Layout
  <2> QED BY <2>3, <2>4 DEF Accepts
<1> QED BY <1>1, <1>3, <1>4, <1>5

LEMMA LenEmpty == ASSUME kcBatch = << >> PROVE \A r : SeqLenOf(r) = written[r]
<1>1. DOMAIN kcBatch = {} OBVIOUS
<1>2. \A r : SeqLenIn(kcBatch, written, r) = written[r] BY <1>1, LenWithout
<1> QED BY <1>2, LenIs

LEMMA LenKept ==
  ASSUME kcBatch' = kcBatch, written' = written PROVE \A r : SeqLenOf(r)' = SeqLenOf(r)
BY DEF SeqLenOf

LEMMA KcInit == KeyCompressorInit => KcInv
<1> SUFFICES ASSUME KeyCompressorInit PROVE KcInv OBVIOUS
<1> USE DEF KeyCompressorInit
<1>1. \A r : SeqLenOf(r) = written[r] BY LenEmpty
<1>2. CompressorContext \in Nat BY CompressorAssumption
<1>3. KcTypeOK
  <2>1. written \in [CompressorReqs -> 0 .. CompressorContext] BY <1>2
  <2> QED BY <2>1 DEF KcTypeOK, Working
<1>4. BatchIsOfStep
  <2>1. DOMAIN kcBatch = {} /\ \A r \in CompressorReqs : written[r] = 0 OBVIOUS
  <2> QED BY <1>1, <1>2, <2>1 DEF BatchIsOfStep
<1>5. StatesHeld BY <1>1 DEF StatesHeld
<1>6. KeysHeld
  <2>1. \A r \in CompressorReqs : SeqLenOf(r) \div compress_ratio = 0
    <3>1. CASE compress_ratio = 2 BY <1>1, <3>1
    <3>2. CASE compress_ratio = 3 BY <1>1, <3>2
    <3> QED BY <3>1, <3>2, RatioType
  <2> QED BY <2>1 DEF KeysHeld
<1>7. GatheredAre BY DEF GatheredAre
<1> QED BY <1>3, <1>4, <1>5, <1>6, <1>7 DEF KcInv

\* The batch says the same while it, and what is written, stay.
LEMMA BatchKept ==
  ASSUME BatchIsOfStep, kcEnv' = kcEnv, kcBatch' = kcBatch, written' = written
  PROVE  BatchIsOfStep'
<1>1. \A r : SeqLenOf(r)' = SeqLenOf(r) BY LenKept
<1>2. \A r, p : TokenAt(r, p)' = TokenAt(r, p) BY SameCompressor
<1>3. ASSUME NEW r \in CompressorReqs
      PROVE  (/\ SeqLenOf(r) \in written[r] .. CompressorContext
              /\ \A i \in DOMAIN kcBatch : kcBatch[i].req = r /\ kcBatch[i].slot >= 0 =>
                   /\ kcBatch[i].pos \in written[r] .. SeqLenOf(r) - 1
                   /\ kcBatch[i] = TokenAt(r, kcBatch[i].pos)
              /\ \A p \in written[r] .. SeqLenOf(r) - 1 :
                   \E i \in DOMAIN kcBatch : kcBatch[i] = TokenAt(r, p))'
  <2>1. \A i : TokenAt(r, kcBatch[i].pos)' = TokenAt(r, kcBatch[i].pos) BY SameCompressor DEF TokenAt
  <2> QED BY <1>1, <1>2, <2>1 DEF BatchIsOfStep
<1> QED BY <1>3 DEF BatchIsOfStep

LEMMA LenType ==
  ASSUME KcTypeOK, BatchIsOfStep, NEW r \in CompressorReqs
  PROVE  /\ written[r] \in Nat /\ SeqLenOf(r) \in Nat /\ written[r] <= SeqLenOf(r)
         /\ SeqLenOf(r) <= CompressorContext
         /\ SeqLenOf(r) \div compress_ratio \in Nat
<1>1. written[r] \in 0 .. CompressorContext
  <2>1. written \in [CompressorReqs -> 0 .. CompressorContext] BY DEF KcTypeOK
  <2> QED BY <2>1
<1>2. CompressorContext \in Nat BY CompressorAssumption
<1>3. SeqLenOf(r) \in written[r] .. CompressorContext BY DEF BatchIsOfStep
<1>4. SeqLenOf(r) \in Nat /\ written[r] <= SeqLenOf(r) /\ SeqLenOf(r) <= CompressorContext
  BY <1>1, <1>2, <1>3
<1>5. SeqLenOf(r) \div compress_ratio \in Nat BY <1>4, RatioType
<1> QED BY <1>1, <1>4, <1>5

\* A step of the batch keeps what is held if it keeps each row and each key, and writes the
\* row, or the key, of a token whose program it runs.
LEMMA StatesKept ==
  ASSUME KcTypeOK, StatesHeld, BatchIsOfStep, kcEnv' = kcEnv, kcBatch' = kcBatch, written' = written,
         \A r \in CompressorReqs : \A p \in Nat : StateHeld(r, p) => StateHeld(r, p)',
         \A r \in CompressorReqs : \A p \in Nat : \A i \in ToSave :
           kcBatch[i] = TokenAt(r, p) => i \in ToSave' \/ StateHeld(r, p)'
  PROVE  StatesHeld'
<1>1. \A r : SeqLenOf(r)' = SeqLenOf(r) BY LenKept
<1>2. \A r, p : TokenAt(r, p)' = TokenAt(r, p) BY SameCompressor
<1> SUFFICES ASSUME NEW r \in CompressorReqs, NEW p \in 0 .. SeqLenOf(r)' - 1
             PROVE  StateHeld(r, p)' \/ \E i \in ToSave' : kcBatch'[i] = TokenAt(r, p)'
  BY DEF StatesHeld
<1>3. p \in Nat /\ p \in 0 .. SeqLenOf(r) - 1 BY <1>1, LenType
<1>4. StateHeld(r, p) \/ \E i \in ToSave : kcBatch[i] = TokenAt(r, p) BY <1>3 DEF StatesHeld
<1> QED BY <1>2, <1>3, <1>4

LEMMA KeysKept ==
  ASSUME KcTypeOK, KeysHeld, BatchIsOfStep, kcEnv' = kcEnv, kcBatch' = kcBatch, written' = written,
         \A r \in CompressorReqs : \A x \in Nat : KeyHeld(r, x) => KeyHeld(r, x)',
         \A r \in CompressorReqs : \A x \in Nat : \A i \in ToCompress :
           kcBatch[i] = TokenAt(r, ClosingPos(x)) => i \in ToCompress' \/ KeyHeld(r, x)'
  PROVE  KeysHeld'
<1>1. \A r : SeqLenOf(r)' = SeqLenOf(r) BY LenKept
<1>2. \A r, x : TokenAt(r, ClosingPos(x))' = TokenAt(r, ClosingPos(x)) BY SameCompressor DEF TokenAt
<1>3. compress_ratio' = compress_ratio BY SameCompressor
<1> SUFFICES ASSUME NEW r \in CompressorReqs, NEW x \in 0 .. (SeqLenOf(r)' \div compress_ratio') - 1
             PROVE  KeyHeld(r, x)' \/ \E i \in ToCompress' : kcBatch'[i] = TokenAt(r, ClosingPos(x))'
  BY DEF KeysHeld
<1>4. x \in Nat /\ x \in 0 .. (SeqLenOf(r) \div compress_ratio) - 1 BY <1>1, <1>3, LenType
<1>5. KeyHeld(r, x) \/ \E i \in ToCompress : kcBatch[i] = TokenAt(r, ClosingPos(x))
  BY <1>4 DEF KeysHeld
<1> QED BY <1>2, <1>4, <1>5

LEMMA AllStatesKept ==
  ASSUME kcEnv' = kcEnv, content' = content, stateCache' = stateCache
  PROVE  \A r \in CompressorReqs : \A p \in Nat : StateHeld(r, p) => StateHeld(r, p)'
BY StateKept

LEMMA AllKeysKept ==
  ASSUME kcEnv' = kcEnv, content' = content, kvCache' = kvCache
  PROVE  \A r \in CompressorReqs : \A x \in Nat : KeyHeld(r, x) => KeyHeld(r, x)'
BY KeyKept

\* Where neither caches nor programs change, what is held stays so; a program that writes no
\* key may be left out.
LEMMA HeldKept ==
  ASSUME KcTypeOK, StatesHeld, KeysHeld, BatchIsOfStep, kcEnv' = kcEnv, kcBatch' = kcBatch, written' = written,
         content' = content, stateCache' = stateCache, kvCache' = kvCache, ToSave' = ToSave,
         \A i \in ToCompress : kcBatch[i].kv_slot >= 0 => i \in ToCompress'
  PROVE  StatesHeld' /\ KeysHeld'
<1>1. StatesHeld' BY AllStatesKept, StatesKept
<1>2. \A r \in CompressorReqs : \A x \in Nat : \A i \in ToCompress :
        kcBatch[i] = TokenAt(r, ClosingPos(x)) => i \in ToCompress'
  <2> SUFFICES ASSUME NEW r \in CompressorReqs, NEW x \in Nat, NEW i \in ToCompress,
                      kcBatch[i] = TokenAt(r, ClosingPos(x))
               PROVE  i \in ToCompress'
    OBVIOUS
  <2>1. kcBatch[i].kv_slot \in Nat BY KeySlot
  <2> QED BY <2>1
<1>3. KeysHeld' BY <1>2, AllKeysKept, KeysKept
<1> QED BY <1>1, <1>3

LEMMA ConstructSound == ASSUME KcInv, construct_compressor PROVE KcInv'
<1> USE DEF construct_compressor
<1>1. KcTypeOK /\ BatchIsOfStep /\ StatesHeld /\ KeysHeld BY DEF KcInv
<1>2. head_dim' = head_dim BY SameCompressor
<1>3. KcTypeOK' BY <1>1, <1>2, ZenonT(40) DEF KcTypeOK, Working
<1>4. BatchIsOfStep' BY <1>1, BatchKept
<1>5. ToSave' = ToSave /\ ToCompress' = ToCompress BY DEF ToSave, ToCompress
<1>6. StatesHeld' /\ KeysHeld'
  <2> HIDE DEF construct_compressor
  <2>1. /\ kcEnv' = kcEnv /\ kcBatch' = kcBatch /\ written' = written /\ content' = content
        /\ stateCache' = stateCache /\ kvCache' = kvCache
    BY DEF construct_compressor
  <2> QED BY <1>1, <1>5, <2>1, HeldKept
<1>7. GatheredAre' BY DEF GatheredAre
<1> QED BY <1>3, <1>4, <1>6, <1>7 DEF KcInv

LEMMA CaptureSound == ASSUME SupportedCompressors, KcInv, capture PROVE KcInv'
<1> USE DEF capture
<1>1. KcTypeOK /\ BatchIsOfStep /\ StatesHeld /\ KeysHeld BY DEF KcInv
<1>2. head_dim' = head_dim BY SameCompressor
<1>3. Accepts BY <1>1, KernelTakesLayout DEF KcTypeOK
<1>4. captured' = "save and compress" BY <1>1 DEF SkipsCompress, KcTypeOK
<1>5. kcStage' = "idle" BY <1>3
<1>6. KcTypeOK' BY <1>1, <1>2, <1>4, <1>5 DEF KcTypeOK, Working
<1>7. BatchIsOfStep' BY <1>1, BatchKept
<1>8. ToSave' = ToSave /\ ToCompress' = ToCompress BY <1>5 DEF ToSave, ToCompress
<1>9. StatesHeld' /\ KeysHeld'
  <2> HIDE DEF capture
  <2>1. /\ kcEnv' = kcEnv /\ kcBatch' = kcBatch /\ written' = written /\ content' = content
        /\ stateCache' = stateCache /\ kvCache' = kvCache
    BY DEF capture
  <2> QED BY <1>1, <1>8, <2>1, HeldKept
<1>10. GatheredAre' BY <1>5 DEF GatheredAre
<1> QED BY <1>6, <1>7, <1>9, <1>10 DEF KcInv

\* The branch that a captured graph replays compresses; the one of a batch whose metadata say
\* that it closes no window closes none.
LEMMA ForwardSound == ASSUME SupportedCompressors, KcInv, forward PROVE KcInv'
<1> USE DEF forward
<1>1. KcTypeOK /\ BatchIsOfStep /\ StatesHeld /\ KeysHeld BY DEF KcInv
<1>2. head_dim' = head_dim BY SameCompressor
<1>3. kcStage \in Working BY DEF Working
<1>4. Accepts BY <1>1, <1>3, KernelTakesLayout DEF KcTypeOK
<1>5. kcStage' = "launched" /\ saving' = DOMAIN kcBatch BY <1>4
<1>6. compressing' \in {{}, DOMAIN kcBatch} BY <1>4
<1>7. \A i \in DOMAIN kcBatch : kcBatch[i].kv_slot >= 0 => i \in compressing'
  <2>1. CASE kcEnv.full
    <3>1. captured = "save and compress" BY <1>1, <1>3, <2>1 DEF KcTypeOK
    <3> QED BY <2>1, <3>1
  <2>2. CASE ~ kcEnv.full
    <3>1. PICK boundary \in Boundary :
            compressing' = IF SkipsCompress(boundary) \/ ~ Accepts THEN {} ELSE DOMAIN kcBatch
      BY <2>2
    <3>2. CASE SkipsCompress(boundary)
      <4>1. boundary = "false" BY <3>2 DEF SkipsCompress
      <4>2. ~ \E i \in DOMAIN kcBatch : kcBatch[i].kv_slot >= 0 BY <4>1 DEF Boundary
      <4> QED BY <4>2
    <3>3. CASE ~ SkipsCompress(boundary) BY <1>4, <3>1, <3>3
    <3> QED BY <3>2, <3>3
  <2> QED BY <2>1, <2>2
<1>8. KcTypeOK' BY <1>1, <1>2, <1>3, <1>5, <1>6 DEF KcTypeOK, Working
<1>9. BatchIsOfStep' BY <1>1, BatchKept
<1>10. ToSave' = ToSave BY <1>5 DEF ToSave
<1>11. \A i \in ToCompress : kcBatch[i].kv_slot >= 0 => i \in ToCompress'
  BY <1>5, <1>7 DEF ToCompress
<1>12. StatesHeld' /\ KeysHeld'
  <2>1. /\ kcEnv' = kcEnv /\ kcBatch' = kcBatch /\ written' = written /\ content' = content
        /\ stateCache' = stateCache /\ kvCache' = kvCache
    OBVIOUS
  <2> HIDE DEF forward
  <2> QED BY <1>1, <1>10, <1>11, <2>1, HeldKept
<1>13. GatheredAre' BY <1>5 DEF GatheredAre
<1> QED BY <1>8, <1>9, <1>12, <1>13 DEF KcInv

LEMMA BatchElement ==
  ASSUME KcTypeOK, NEW i \in DOMAIN kcBatch
  PROVE  kcBatch[i].req \in CompressorReqs /\ kcBatch[i].slot \in Int /\ kcBatch[i].kv_slot \in Int
<1>1. kcBatch \in Seq(BatchToken) BY DEF KcTypeOK
<1>2. kcBatch[i] \in BatchToken BY <1>1
<1> QED BY <1>2 DEF BatchToken

\* A token of the batch that has a slot is at its position.
LEMMA TokenOfBatch ==
  ASSUME KcTypeOK, BatchIsOfStep, NEW i \in DOMAIN kcBatch, kcBatch[i].slot >= 0
  PROVE  \E r \in CompressorReqs : \E p \in Nat :
           p < SeqLenOf(r) /\ kcBatch[i] = TokenAt(r, p)
<1>1. kcBatch[i].req \in CompressorReqs BY BatchElement
<1> DEFINE r == kcBatch[i].req  p == kcBatch[i].pos
<1>2. p \in written[r] .. SeqLenOf(r) - 1 /\ kcBatch[i] = TokenAt(r, p) BY <1>1 DEF BatchIsOfStep
<1>3. p \in Nat /\ p < SeqLenOf(r) BY <1>1, <1>2, LenType
<1> QED BY <1>1, <1>2, <1>3

\* A cache with one place written.
LEMMA Written ==
  ASSUME NEW a, NEW v, NEW f
  PROVE  /\ DOMAIN Stored(f, a, v) = DOMAIN f \cup {a}
         /\ Stored(f, a, v)[a] = v
         /\ \A b \in DOMAIN f : b # a => Stored(f, a, v)[b] = f[b]
BY DEF Stored

LEMMA SaveSound ==
  ASSUME KcInv, NEW i \in DOMAIN kcBatch, _SAVE_PARTIAL_STATES_KERNEL(i) PROVE KcInv'
<1> DEFINE t == kcBatch[i]
<1>1. KcTypeOK /\ BatchIsOfStep /\ StatesHeld /\ KeysHeld BY DEF KcInv
<1>2. /\ kcStage = "launched" /\ kcStage' = kcStage /\ i \in saving /\ saving' = saving \ {i}
      /\ kcEnv' = kcEnv /\ kcBatch' = kcBatch /\ written' = written /\ content' = content
      /\ kvCache' = kvCache /\ compressing' = compressing /\ captured' = captured
  BY DEF _SAVE_PARTIAL_STATES_KERNEL
<1>3. head_dim' = head_dim BY <1>2, SameCompressor
<1>4. KcTypeOK' BY <1>1, <1>2, <1>3 DEF KcTypeOK, Working
<1>5. BatchIsOfStep' BY <1>1, <1>2, BatchKept
<1>6. ToSave = saving /\ ToSave' = saving \ {i} /\ ToCompress' = ToCompress
  BY <1>2 DEF ToSave, ToCompress
<1>7. KeysHeld'
  <2>1. \A r \in CompressorReqs : \A x \in Nat : KeyHeld(r, x) => KeyHeld(r, x)'
    BY <1>2, AllKeysKept
  <2> QED BY <1>1, <1>2, <1>6, <2>1, KeysKept
<1>8. StatesHeld'
  <2>1. CASE t.slot < 0
    <3>1. stateCache' = stateCache BY <2>1 DEF _SAVE_PARTIAL_STATES_KERNEL
    <3>2. \A r \in CompressorReqs : \A p \in Nat : StateHeld(r, p) => StateHeld(r, p)'
      BY <1>2, <3>1, AllStatesKept
    <3>3. \A r \in CompressorReqs : \A p \in Nat : kcBatch[i] # TokenAt(r, p)
      <4> SUFFICES ASSUME NEW r \in CompressorReqs, NEW p \in Nat PROVE kcBatch[i] # TokenAt(r, p)
        OBVIOUS
      <4>1. TokenAt(r, p).slot \in Nat BY TokenSlots
      <4> QED BY <2>1, <4>1
    <3>4. \A r \in CompressorReqs : \A p \in Nat : \A j \in ToSave :
            kcBatch[j] = TokenAt(r, p) => j \in ToSave'
      BY <1>6, <3>3
    <3> QED BY <1>1, <1>2, <3>2, <3>4, StatesKept
  <2>2. CASE t.slot >= 0
    <3>1. PICK s \in CompressorReqs, q \in Nat : t = TokenAt(s, q)
      BY <1>1, <2>2, TokenOfBatch
    <3>2. t.req = s /\ t.pos = q /\ << t.slot \div StateBlock, t.slot % StateBlock >> = RowOf(s, q)
          /\ t.slot \in Nat
      BY <3>1, TokenSlots
    <3>3. stateCache' = Stored(stateCache, RowOf(s, q), StateOf(s, q))
      BY <3>2 DEF _SAVE_PARTIAL_STATES_KERNEL, StateOf
    <3>4. /\ DOMAIN stateCache' = DOMAIN stateCache \cup {RowOf(s, q)}
          /\ stateCache'[RowOf(s, q)] = StateOf(s, q)
          /\ \A a \in DOMAIN stateCache : a # RowOf(s, q) => stateCache'[a] = stateCache[a]
      <4> DEFINE a0 == RowOf(s, q)  v0 == StateOf(s, q)
      <4>1. stateCache' = Stored(stateCache, a0, v0) BY <3>3
      <4> HIDE DEF a0, v0
      <4>2. /\ DOMAIN stateCache' = DOMAIN stateCache \cup {a0} /\ stateCache'[a0] = v0
            /\ \A a \in DOMAIN stateCache : a # a0 => stateCache'[a] = stateCache[a]
        BY <4>1 DEF Stored
      <4> QED BY <4>2 DEF a0, v0
    <3>5. \A r \in CompressorReqs : \A p \in Nat : StateOf(r, p)' = StateOf(r, p)
      BY <1>2, SameCompressor DEF StateOf
    <3>6. StateHeld(s, q)' BY <3>4, <3>5 DEF StateHeld, RowOf
    <3>7. ASSUME NEW r \in CompressorReqs, NEW p \in Nat, StateHeld(r, p) PROVE StateHeld(r, p)'
      <4>1. CASE RowOf(r, p) = RowOf(s, q)
        <5>1. r = s /\ p = q BY <4>1, StateRowsApart
        <5> QED BY <3>6, <5>1
      <4>2. CASE RowOf(r, p) # RowOf(s, q)
        <5>1. RowOf(r, p) \in DOMAIN stateCache /\ stateCache[RowOf(r, p)] = StateOf(r, p)
          BY <3>7 DEF StateHeld
        <5>2. RowOf(r, p) \in DOMAIN stateCache' /\ stateCache'[RowOf(r, p)] = StateOf(r, p)'
          BY <3>4, <3>5, <4>2, <5>1
        <5>3. RowOf(r, p)' = RowOf(r, p) BY DEF RowOf, Physical
        <5> QED BY <5>2, <5>3 DEF StateHeld
      <4> QED BY <4>1, <4>2
    <3>8. ASSUME NEW r \in CompressorReqs, NEW p \in Nat, NEW j \in ToSave, kcBatch[j] = TokenAt(r, p)
          PROVE  j \in ToSave' \/ StateHeld(r, p)'
      <4>1. CASE j # i BY <1>6, <4>1
      <4>2. CASE j = i
        <5>1. r = s /\ p = q BY <3>2, <3>8, <4>2, TokenSlots
        <5> QED BY <3>6, <5>1
      <4> QED BY <4>1, <4>2
    <3> QED BY <1>1, <1>2, <3>7, <3>8, StatesKept
  <2>3. t.slot \in Int BY <1>1, BatchElement
  <2> QED BY <2>1, <2>2, <2>3
<1>9. GatheredAre' BY <1>2 DEF GatheredAre
<1> QED BY <1>4, <1>5, <1>7, <1>8, <1>9 DEF KcInv

\* What a program gathers, once the states it reads are held, is the window it closes.
LEMMA GatheredIs ==
  ASSUME NEW r \in CompressorReqs, NEW x \in Nat, \A q \in 0 .. ClosingPos(x) : StateHeld(r, q)
  PROVE  /\ Gathered(TokenAt(r, ClosingPos(x))) = WindowKey(r, x).window
         /\ compressed_pos(ClosingPos(x)) = x * compress_ratio
<1> DEFINE c == ClosingPos(x)
           start == c - coff * compress_ratio + 1
           tokens == { n \in 0 .. coff * compress_ratio - 1 : start + n >= 0 }
           G == { [half |-> IF n >= compress_ratio THEN 2 ELSE 1, state |-> StateOf(r, start + n)] : n \in tokens }
<1>1. TokenAt(r, c).req = r /\ TokenAt(r, c).pos = c BY ClosingIs, TokenSlots
<1>2. compress_ratio \in {2, 3} /\ coff \in {1, 2} /\ (overlapping => coff = 2 /\ compress_ratio = 2)
      /\ (~ overlapping => coff = 1 /\ compress_ratio = 3)
  BY DEF coff, overlapping, compress_ratio
<1>3. c = x * compress_ratio + (compress_ratio - 1) BY DEF ClosingPos
<1>4. \A n \in tokens : start + n \in 0 .. c
  <2>1. CASE overlapping BY <1>2, <1>3, <2>1
  <2>2. CASE ~ overlapping BY <1>2, <1>3, <2>2
  <2> QED BY <2>1, <2>2
<1>5. Gathered(TokenAt(r, c)) = G
  <2> DEFINE S(p) == IF RowOf(r, p) \in DOMAIN stateCache THEN stateCache[RowOf(r, p)] ELSE Nothing
  <2>1. Gathered(TokenAt(r, c)) =
          { [half |-> IF n >= compress_ratio THEN 2 ELSE 1, state |-> S(start + n)] : n \in tokens }
    BY <1>1 DEF Gathered
  <2>2. \A n \in tokens : S(start + n) = StateOf(r, start + n)
    BY <1>4 DEF StateHeld
  <2> HIDE DEF S, tokens, start
  <2> QED BY <2>1, <2>2
<1>6. G = WindowKey(r, x).window
  <2>1. CASE ~ overlapping
    <3>1. start = 3 * x /\ tokens = 0 .. 2 /\ c = 3 * x + 2 BY <1>2, <1>3, <2>1
    <3>2. G = { [half |-> 1, state |-> StateOf(r, 3 * x + n)] : n \in 0 .. 2 }
      BY <1>2, <2>1, <3>1
    <3>3. WindowKey(r, x).window = { [half |-> 1, state |-> StateOf(r, p)] : p \in 3 * x .. 3 * x + 2 }
      BY <1>2, <2>1 DEF WindowKey, WindowOf
    <3> DEFINE F(p) == [half |-> 1, state |-> StateOf(r, p)]
    <3>4. { F(3 * x + n) : n \in 0 .. 2 } = { F(p) : p \in 3 * x .. 3 * x + 2 }
      <4>1. \A p \in 3 * x .. 3 * x + 2 : p - 3 * x \in 0 .. 2 /\ p = 3 * x + (p - 3 * x) OBVIOUS
      <4>2. \A n \in 0 .. 2 : 3 * x + n \in 3 * x .. 3 * x + 2 OBVIOUS
      <4> HIDE DEF F
      <4> QED BY <4>1, <4>2
    <3> QED BY <3>2, <3>3, <3>4
  <2>2. CASE overlapping
    <3>1. start = 2 * x - 2 /\ c = 2 * x + 1 /\ compress_ratio = 2
          /\ tokens = { n \in 0 .. 3 : 2 * x - 2 + n >= 0 }
      BY <1>2, <1>3, <2>2
    <3> DEFINE F(h, p) == [half |-> h, state |-> StateOf(r, p)]
    <3>2. G = { F(IF n >= 2 THEN 2 ELSE 1, 2 * x - 2 + n) : n \in { m \in 0 .. 3 : 2 * x - 2 + m >= 0 } }
      BY <3>1
    <3>3. WindowKey(r, x).window =
            { F(2, p) : p \in 2 * x .. 2 * x + 1 }
              \cup (IF x > 0 THEN { F(1, p) : p \in 2 * x - 2 .. 2 * x - 1 } ELSE {})
      BY <2>2, <3>1 DEF WindowKey, WindowOf
    <3> HIDE DEF F, G
    <3>4. ASSUME NEW e \in G PROVE e \in WindowKey(r, x).window
      <4>1. PICK n \in 0 .. 3 : 2 * x - 2 + n >= 0 /\ e = F(IF n >= 2 THEN 2 ELSE 1, 2 * x - 2 + n)
        BY <3>2, <3>4
      <4>2. CASE n >= 2 BY <3>3, <4>1, <4>2
      <4>3. CASE n < 2
        <5>1. x > 0 /\ 2 * x - 2 + n \in 2 * x - 2 .. 2 * x - 1 BY <4>1, <4>3
        <5> QED BY <3>3, <4>1, <4>3, <5>1
      <4> QED BY <4>2, <4>3
    <3>5. ASSUME NEW e \in WindowKey(r, x).window PROVE e \in G
      <4>1. CASE e \in { F(2, p) : p \in 2 * x .. 2 * x + 1 }
        <5>1. PICK p \in 2 * x .. 2 * x + 1 : e = F(2, p) BY <4>1
        <5>2. p - (2 * x - 2) \in 0 .. 3 /\ p - (2 * x - 2) >= 2 /\ 2 * x - 2 + (p - (2 * x - 2)) = p /\ p >= 0
          BY <5>1
        <5> QED BY <3>2, <5>1, <5>2
      <4>2. CASE x > 0 /\ e \in { F(1, p) : p \in 2 * x - 2 .. 2 * x - 1 }
        <5>1. PICK p \in 2 * x - 2 .. 2 * x - 1 : e = F(1, p) BY <4>2
        <5>2. PICK n \in 0 .. 1 : p = 2 * x - 2 + n
          <6>1. p - (2 * x - 2) \in 0 .. 1 /\ p = 2 * x - 2 + (p - (2 * x - 2)) BY <5>1
          <6> QED BY <6>1
        <5>3. 2 * x - 2 + n >= 0 /\ n \in 0 .. 3 /\ ~ (n >= 2) BY <4>2, <5>2
        <5> QED BY <3>2, <5>1, <5>2, <5>3
      <4> QED BY <3>3, <3>5, <4>1, <4>2
    <3> QED BY <3>4, <3>5
  <2> QED BY <2>1, <2>2
<1>7. compressed_pos(c) = x * compress_ratio
  BY ClosingIs DEF compressed_pos
<1> QED BY <1>5, <1>6, <1>7

\* The compress kernel starts when the states of the batch are saved.
LEMMA CompressSound ==
  ASSUME KcInv, NEW i \in DOMAIN kcBatch, compress(i) PROVE KcInv'
<1> DEFINE t == kcBatch[i]
<1>1. KcTypeOK /\ BatchIsOfStep /\ StatesHeld /\ KeysHeld BY DEF KcInv
<1>2. /\ kcStage = "launched" /\ kcStage' = kcStage /\ i \in compressing
      /\ compressing' = compressing \ {i}
      /\ kcEnv' = kcEnv /\ kcBatch' = kcBatch /\ written' = written /\ content' = content
      /\ stateCache' = stateCache /\ saving' = saving /\ captured' = captured
  BY DEF compress
<1>3. saving = {} BY DEF compress, launch_pdl
<1>4. head_dim \in {128, 512} BY <1>1, <1>2 DEF KcTypeOK, Working
<1>5. KcTypeOK'
  <2>1. head_dim' = head_dim BY <1>2, SameCompressor
  <2> QED BY <1>1, <1>2, <2>1, ZenonT(40) DEF KcTypeOK, Working
<1>6. BatchIsOfStep' BY <1>1, <1>2, BatchKept
<1>7. ToCompress = compressing /\ ToCompress' = compressing \ {i} /\ ToSave' = ToSave /\ ToSave = {}
  BY <1>2, <1>3 DEF ToSave, ToCompress
<1>8. StatesHeld'
  <2>1. \A r \in CompressorReqs : \A p \in Nat : StateHeld(r, p) => StateHeld(r, p)'
    BY <1>2, AllStatesKept
  <2> QED BY <1>1, <1>2, <1>7, <2>1, StatesKept
<1>9. KeysHeld'
  <2>1. CASE t.slot < 0 \/ (t.pos + 1) % compress_ratio # 0 \/ t.kv_slot < 0
    <3>1. kvCache' = kvCache BY <2>1 DEF compress
    <3>2. \A r \in CompressorReqs : \A x \in Nat : KeyHeld(r, x) => KeyHeld(r, x)'
      BY <1>2, <3>1, AllKeysKept
    <3>3. \A r \in CompressorReqs : \A x \in Nat : kcBatch[i] # TokenAt(r, ClosingPos(x))
      <4> SUFFICES ASSUME NEW r \in CompressorReqs, NEW x \in Nat, t = TokenAt(r, ClosingPos(x))
                   PROVE  FALSE
        OBVIOUS
      <4>1. ClosingPos(x) \in Nat /\ (ClosingPos(x) + 1) % compress_ratio = 0 BY ClosingIs
      <4>2. t.slot \in Nat /\ t.pos = ClosingPos(x) BY <4>1, TokenSlots
      <4>3. t.kv_slot \in Nat BY KeySlot
      <4> QED BY <2>1, <4>1, <4>2, <4>3
    <3>4. \A r \in CompressorReqs : \A x \in Nat : \A j \in ToCompress :
            kcBatch[j] = TokenAt(r, ClosingPos(x)) => j \in ToCompress'
      BY <1>7, <3>3
    <3> QED BY <1>1, <1>2, <3>2, <3>4, KeysKept
  <2>2. CASE t.slot >= 0 /\ (t.pos + 1) % compress_ratio = 0 /\ t.kv_slot >= 0
    <3>1. PICK s \in CompressorReqs, q \in Nat : q < SeqLenOf(s) /\ t = TokenAt(s, q)
      BY <1>1, <2>2, TokenOfBatch
    <3>2. t.req = s /\ t.pos = q BY <3>1, TokenSlots
    <3>3. PICK y \in Nat : q = ClosingPos(y) BY <2>2, <3>2, ClosesAWindow
    <3>4. \A p \in 0 .. ClosingPos(y) : StateHeld(s, p)
      <4> SUFFICES ASSUME NEW p \in 0 .. ClosingPos(y) PROVE StateHeld(s, p) OBVIOUS
      <4>1. p \in 0 .. SeqLenOf(s) - 1 BY <1>1, <3>1, <3>3, LenType
      <4> QED BY <1>1, <1>7, <4>1 DEF StatesHeld
    <3>5. Gathered(t) = WindowKey(s, y).window /\ compressed_pos(t.pos) = y * compress_ratio
      BY <3>1, <3>2, <3>3, <3>4, GatheredIs
    <3>6. [window |-> Gathered(t), rope |-> compressed_pos(t.pos)] = WindowKey(s, y)
      BY <3>5 DEF WindowKey
    <3>7. t.kv_slot = SlotOf(s, y) BY <3>1, <3>3, KeySlot
    <3> DEFINE a == KeyAddress(SlotOf(s, y))  b == ScaleAddress(SlotOf(s, y))  k == WindowKey(s, y)
    <3>8. kvCache' = Stored(Stored(kvCache, b, [scale |-> k]), a, [bytes |-> k])
      <4>1. ~ (t.slot < 0 \/ (t.pos + 1) % compress_ratio # 0 \/ t.kv_slot < 0)
        BY <1>1, <2>2, BatchElement
      <4> QED BY <3>6, <3>7, <4>1 DEF compress
    <3>9. a # b BY <1>4, KeysApart
    <3>10. /\ DOMAIN kvCache' = DOMAIN kvCache \cup {a, b}
           /\ kvCache'[a] = [bytes |-> k] /\ kvCache'[b] = [scale |-> k]
           /\ \A d \in DOMAIN kvCache : d \notin {a, b} => kvCache'[d] = kvCache[d]
      <4> HIDE DEF a, b, k
      <4> QED BY <3>8, <3>9 DEF Stored
    <3>11. \A r \in CompressorReqs : \A x \in Nat : WindowKey(r, x)' = WindowKey(r, x)
      BY <1>2, SameKey
    <3>12. \A r, x : /\ KeyAddress(SlotOf(r, x))' = KeyAddress(SlotOf(r, x))
                      /\ ScaleAddress(SlotOf(r, x))' = ScaleAddress(SlotOf(r, x))
      <4>1. Layout' = Layout BY <1>2, SameCompressor
      <4> QED BY <4>1 DEF KeyAddress, ScaleAddress, SlotOf, Physical
    <3>13. KeyHeld(s, y)'
      <4>1. {a, b} \subseteq DOMAIN kvCache' /\ kvCache'[a] = [bytes |-> k] /\ kvCache'[b] = [scale |-> k]
        BY <3>10
      <4>2. a' = a /\ b' = b /\ k' = k BY <3>11, <3>12
      <4> HIDE DEF a, b, k
      <4>3. ({a, b} \subseteq DOMAIN kvCache /\ kvCache[a] = [bytes |-> k] /\ kvCache[b] = [scale |-> k])'
        BY <4>1, <4>2
      <4> QED BY <4>3 DEF KeyHeld, a, b, k
    <3>14. ASSUME NEW r \in CompressorReqs, NEW x \in Nat, KeyHeld(r, x) PROVE KeyHeld(r, x)'
      <4>1. CASE r = s /\ x = y BY <3>13, <4>1
      <4>2. CASE ~ (r = s /\ x = y)
        <5> DEFINE c == KeyAddress(SlotOf(r, x))  d == ScaleAddress(SlotOf(r, x))  l == WindowKey(r, x)
        <5>1. c \notin {a, b} /\ d \notin {a, b}
          <6>1. c # a /\ d # b /\ c # b BY <1>4, <4>2, KeysApart
          <6>2. a # d BY <1>4, KeysApart
          <6> QED BY <6>1, <6>2
        <5>2. {c, d} \subseteq DOMAIN kvCache /\ kvCache[c] = [bytes |-> l] /\ kvCache[d] = [scale |-> l]
          BY <3>14 DEF KeyHeld
        <5>3. c' = c /\ d' = d /\ l' = l BY <3>11, <3>12
        <5> HIDE DEF a, b, c, d, k, l
        <5>4. ({c, d} \subseteq DOMAIN kvCache /\ kvCache[c] = [bytes |-> l] /\ kvCache[d] = [scale |-> l])'
          BY <3>10, <5>1, <5>2, <5>3
        <5> QED BY <5>4 DEF KeyHeld, c, d, l
      <4> QED BY <4>1, <4>2
    <3>15. ASSUME NEW r \in CompressorReqs, NEW x \in Nat, NEW j \in ToCompress,
                  kcBatch[j] = TokenAt(r, ClosingPos(x))
           PROVE  j \in ToCompress' \/ KeyHeld(r, x)'
      <4>1. CASE j # i BY <1>7, <4>1
      <4>2. CASE j = i
        <5>1. ClosingPos(x) \in Nat /\ ClosingPos(x) \div compress_ratio = x
              /\ ClosingPos(y) \div compress_ratio = y
          BY ClosingIs
        <5>2. r = s /\ ClosingPos(x) = q BY <3>2, <3>15, <4>2, <5>1, TokenSlots
        <5>3. x = y BY <3>3, <5>1, <5>2
        <5> QED BY <3>13, <5>2, <5>3
      <4> QED BY <4>1, <4>2
    <3> QED BY <1>1, <1>2, <3>14, <3>15, KeysKept
  <2>3. t.slot \in Int /\ t.kv_slot \in Int BY <1>1, BatchElement
  <2> QED BY <2>1, <2>2, <2>3
<1>10. GatheredAre' BY <1>2 DEF GatheredAre
<1> QED BY <1>5, <1>6, <1>8, <1>9, <1>10 DEF KcInv

\* A gather of packed keys finds each where it was put.
LEMMA GatherReads ==
  ASSUME NEW r \in CompressorReqs, NEW n \in Nat, NEW g \in 0 .. n, head_dim = 512,
         \A x \in 0 .. n - 1 : KeyHeld(r, x)
  PROVE  _dequantize_and_gather_k_kernel_sm80(r, n, g) =
           [o \in 1 .. g |-> << [bytes |-> WindowKey(r, n - g + (o - 1))],
                               [scale |-> WindowKey(r, n - g + (o - 1))] >>]
<1> DEFINE start_pos == n - g
           rows == UNION { { i \in 0 .. g - 1 : i % 2 = w } : w \in 0 .. 2 - 1 }
           At(a) == IF a \in DOMAIN kvCache THEN kvCache[a] ELSE Nothing
           KeyAt(i)   == << Physical(r, (start_pos + i) \div KeyBlock), ((start_pos + i) % KeyBlock) * 576 >>
           ScaleAt(i) == << Physical(r, (start_pos + i) \div KeyBlock),
                            KeyBlock * 576 + ((start_pos + i) % KeyBlock) * 8 >>
<1>1. _dequantize_and_gather_k_kernel_sm80(r, n, g) =
        [o \in { 1 + i : i \in rows } |-> << At(KeyAt(o - 1)), At(ScaleAt(o - 1)) >>]
  BY DEF _dequantize_and_gather_k_kernel_sm80, GatherLayout, Offset
<1>2. rows = 0 .. g - 1
  <2> DEFINE Worker(w) == { i \in 0 .. g - 1 : i % 2 = w }
  <2>1. rows = UNION { Worker(w) : w \in 0 .. 1 } OBVIOUS
  <2>2. \A i \in 0 .. g - 1 : i % 2 \in 0 .. 1 /\ i \in Worker(i % 2) OBVIOUS
  <2>3. \A w : Worker(w) \subseteq 0 .. g - 1 OBVIOUS
  <2> HIDE DEF Worker, rows
  <2> QED BY <2>1, <2>2, <2>3
<1>3. { 1 + i : i \in rows } = 1 .. g
  <2>1. \A o \in 1 .. g : o - 1 \in 0 .. g - 1 /\ o = 1 + (o - 1) OBVIOUS
  <2>2. \A i \in 0 .. g - 1 : 1 + i \in 1 .. g OBVIOUS
  <2> QED BY <1>2, <2>1, <2>2, ZenonT(40)
<1>4. ASSUME NEW o \in 1 .. g
      PROVE  /\ At(KeyAt(o - 1)) = [bytes |-> WindowKey(r, n - g + (o - 1))]
             /\ At(ScaleAt(o - 1)) = [scale |-> WindowKey(r, n - g + (o - 1))]
  <2> DEFINE x == n - g + (o - 1)
  <2>1. x \in 0 .. n - 1 /\ x \in Nat OBVIOUS
  <2>2. KeyHeld(r, x) BY <2>1
  <2>3. Layout.token_stride = 576 /\ Layout.scale_dim = 8 BY LayoutType
  <2>4. KeyAddress(SlotOf(r, x)) = KeyAt(o - 1) /\ ScaleAddress(SlotOf(r, x)) = ScaleAt(o - 1)
    <3> HIDE DEF x
    <3>1. /\ SlotOf(r, x) \div KeyBlock = Physical(r, x \div KeyBlock)
          /\ SlotOf(r, x) % KeyBlock = x % KeyBlock
      BY <2>1, KeySlot
    <3>2. /\ KeyAddress(SlotOf(r, x)) = << Physical(r, x \div KeyBlock), (x % KeyBlock) * 576 >>
          /\ ScaleAddress(SlotOf(r, x)) = << Physical(r, x \div KeyBlock), KeyBlock * 576 + (x % KeyBlock) * 8 >>
      BY <2>3, <3>1 DEF KeyAddress, ScaleAddress
    <3>3. start_pos + (o - 1) = x BY DEF x
    <3> QED BY <3>2, <3>3
  <2> HIDE DEF x, KeyAt, ScaleAt
  <2>5. At(KeyAt(o - 1)) = [bytes |-> WindowKey(r, x)] /\ At(ScaleAt(o - 1)) = [scale |-> WindowKey(r, x)]
    BY <2>2, <2>4 DEF KeyHeld
  <2> QED BY <2>5 DEF x
<1> HIDE DEF At, KeyAt, ScaleAt, rows
<1> QED BY <1>1, <1>3, <1>4

LEMMA GatherSound == ASSUME KcInv, dequant_gather PROVE KcInv'
<1>1. KcTypeOK /\ BatchIsOfStep /\ StatesHeld /\ KeysHeld BY DEF KcInv
<1>2. /\ kcStage = "launched" /\ saving = {} /\ compressing = {}
      /\ kcEnv' = kcEnv /\ kcBatch' = kcBatch /\ written' = written /\ content' = content
      /\ stateCache' = stateCache /\ kvCache' = kvCache /\ captured' = captured
      /\ saving' = saving /\ compressing' = compressing
  BY DEF dequant_gather
<1>3. head_dim' = head_dim /\ compress_ratio' = compress_ratio BY <1>2, SameCompressor
<1>4. dequantize_and_gather_k_cache # "uncompilable"
  <2>1. Replaced("nvidia.flashmla") BY DEF Replaced, Rebound
  <2> QED BY <2>1 DEF dequantize_and_gather_k_cache
<1>5. kcStage' = "served" BY <1>4 DEF dequant_gather
<1>6. KcTypeOK' BY <1>1, <1>2, <1>3, <1>5 DEF KcTypeOK, Working
<1>7. BatchIsOfStep' BY <1>1, <1>2, BatchKept
<1>8. ToSave' = ToSave /\ ToCompress' = ToCompress /\ ToCompress = {} BY <1>2, <1>5 DEF ToSave, ToCompress
<1>9. StatesHeld' /\ KeysHeld' BY <1>1, <1>2, <1>8, HeldKept
<1>10. GatheredAre'
  <2> SUFFICES ASSUME head_dim' = 512, NEW r \in CompressorReqs,
                      NEW n \in {SeqLenOf(r) \div compress_ratio}'
               PROVE  \E g \in 0 .. n :
                        (out[r] = [o \in 1 .. g |-> << [bytes |-> WindowKey(r, n - g + (o - 1))],
                                                      [scale |-> WindowKey(r, n - g + (o - 1))] >>])'
    BY DEF GatheredAre
  <2>1. n \in Nat /\ n = SeqLenOf(r) \div compress_ratio
    <3>1. n = SeqLenOf(r) \div compress_ratio BY <1>2, <1>3, LenKept
    <3> QED BY <1>1, <3>1, LenType
  <2>2. PICK short \in BOOLEAN :
          out' = [q \in CompressorReqs |->
                    LET m == SeqLenOf(q) \div compress_ratio
                    IN _dequantize_and_gather_k_kernel_sm80(q, m, IF short /\ m > 0 THEN m - 1 ELSE m)]
    BY <1>3, <1>4 DEF dequant_gather
  <2>3. PICK g \in 0 .. n : g = IF short /\ n > 0 THEN n - 1 ELSE n BY <2>1
  <2>4. out'[r] = _dequantize_and_gather_k_kernel_sm80(r, n, g) BY <2>1, <2>2, <2>3
  <2>5. \A x \in 0 .. n - 1 : KeyHeld(r, x) BY <1>1, <1>8, <2>1 DEF KeysHeld
  <2>6. head_dim = 512 BY <1>3
  <2>7. out'[r] = [o \in 1 .. g |-> << [bytes |-> WindowKey(r, n - g + (o - 1))],
                                       [scale |-> WindowKey(r, n - g + (o - 1))] >>]
    BY <2>1, <2>4, <2>5, <2>6, GatherReads, ZenonT(40)
  <2>8. \A o \in 1 .. g : WindowKey(r, n - g + (o - 1))' = WindowKey(r, n - g + (o - 1))
    <3> SUFFICES ASSUME NEW o \in 1 .. g
                 PROVE  WindowKey(r, n - g + (o - 1))' = WindowKey(r, n - g + (o - 1))
      OBVIOUS
    <3>1. n - g + (o - 1) \in Nat BY <2>1
    <3> QED BY <1>2, <3>1, SameKey
  <2> QED BY <2>7, <2>8
<1> QED BY <1>6, <1>7, <1>9, <1>10 DEF KcInv

\* Between two steps everything is held, up to what is written.
LEMMA HeldBetweenSteps ==
  ASSUME KcInv, kcStage \in {"idle", "served"}
  PROVE  /\ \A r \in CompressorReqs : \A p \in 0 .. SeqLenOf(r) - 1 : StateHeld(r, p)
         /\ \A r \in CompressorReqs : \A x \in 0 .. (SeqLenOf(r) \div compress_ratio) - 1 : KeyHeld(r, x)
<1>1. StatesHeld /\ KeysHeld BY DEF KcInv
<1>2. saving = {} /\ compressing = {} BY ZenonT(40) DEF KcInv, KcTypeOK
<1>3. ToSave = {} /\ ToCompress = {} BY <1>2 DEF ToSave, ToCompress
<1> QED BY <1>1, <1>3 DEF StatesHeld, KeysHeld

\* The windows that so many tokens close end before them.
LEMMA WindowsEnd ==
  ASSUME NEW n \in Nat, NEW x \in 0 .. (n \div compress_ratio) - 1
  PROVE  x \in Nat /\ ClosingPos(x) \in 0 .. n - 1
<1>1. CASE compress_ratio = 2 BY <1>1 DEF ClosingPos
<1>2. CASE compress_ratio = 3 BY <1>2 DEF ClosingPos
<1> QED BY <1>1, <1>2, RatioType

\* A step after which no batch is left keeps what is held if what it says is written was, and
\* it leaves the tokens up to there.
LEMMA IdleSound ==
  ASSUME KcInv, kcStage \in {"idle", "served"}, kcStage' = "idle", kcBatch' = << >>,
         kcEnv' = kcEnv, stateCache' = stateCache, kvCache' = kvCache, captured' = captured,
         saving' = saving, compressing' = compressing,
         written' \in [CompressorReqs -> Nat],
         \A r \in CompressorReqs : written'[r] <= SeqLenOf(r),
         content' \in [CompressorReqs -> [0 .. CompressorContext - 1 -> Nat]],
         \A r \in CompressorReqs : \A p \in 0 .. written'[r] - 1 : content'[r][p] = content[r][p]
  PROVE  KcInv'
<1>1. KcTypeOK /\ BatchIsOfStep BY DEF KcInv
<1>2. saving = {} /\ compressing = {} BY <1>1, ZenonT(40) DEF KcTypeOK
<1>3. head_dim' = head_dim /\ compress_ratio' = compress_ratio BY SameCompressor
<1>4. \A r \in CompressorReqs : written'[r] \in 0 .. CompressorContext
  <2> SUFFICES ASSUME NEW r \in CompressorReqs PROVE written'[r] \in 0 .. CompressorContext OBVIOUS
  <2>1. written'[r] \in Nat /\ written'[r] <= SeqLenOf(r) OBVIOUS
  <2>2. SeqLenOf(r) \in Nat /\ SeqLenOf(r) <= CompressorContext BY <1>1, LenType
  <2>3. CompressorContext \in Nat BY CompressorAssumption
  <2> QED BY <2>1, <2>2, <2>3
<1>5. written' \in [CompressorReqs -> 0 .. CompressorContext] BY <1>4
<1>6. KcTypeOK'
  <2>1. kcBatch' \in Seq(BatchToken) OBVIOUS
  <2>2. saving' \in SUBSET DOMAIN kcBatch' /\ compressing' \in SUBSET DOMAIN kcBatch'
        /\ saving' = {} /\ compressing' = {}
    BY <1>2
  <2>3. /\ kcEnv' \in CompressorEnvs /\ kcEnv'.full = kcEnv.full
        /\ head_dim \in {128, 512} /\ (head_dim = 512 => ~ kcEnv.fp4)
        /\ kcEnv.full => captured = "save and compress"
    BY <1>1, ZenonT(40) DEF KcTypeOK, Working
  <2>4. head_dim' \in {128, 512} /\ (head_dim' = 512 => ~ kcEnv'.fp4) BY <1>3, <2>3
  <2> QED BY <1>5, <2>1, <2>2, <2>3, <2>4 DEF KcTypeOK, Working
<1>7. \A r : SeqLenOf(r)' = written'[r]
  <2>1. DOMAIN kcBatch' = {} OBVIOUS
  <2>2. \A r : SeqLenIn(kcBatch', written', r) = written'[r] BY <2>1, LenWithout
  <2> QED BY <2>2 DEF SeqLenOf, SeqLenIn
<1>8. BatchIsOfStep'
  <2>1. \A r \in CompressorReqs :
          (/\ SeqLenOf(r) \in written[r] .. CompressorContext
           /\ \A i \in DOMAIN kcBatch : kcBatch[i].req = r /\ kcBatch[i].slot >= 0 =>
                /\ kcBatch[i].pos \in written[r] .. SeqLenOf(r) - 1
                /\ kcBatch[i] = TokenAt(r, kcBatch[i].pos)
           /\ \A p \in written[r] .. SeqLenOf(r) - 1 : \E i \in DOMAIN kcBatch : kcBatch[i] = TokenAt(r, p))'
    <3> SUFFICES ASSUME NEW r \in CompressorReqs
                 PROVE  (/\ SeqLenOf(r) \in written[r] .. CompressorContext
                         /\ \A i \in DOMAIN kcBatch : kcBatch[i].req = r /\ kcBatch[i].slot >= 0 =>
                              /\ kcBatch[i].pos \in written[r] .. SeqLenOf(r) - 1
                              /\ kcBatch[i] = TokenAt(r, kcBatch[i].pos)
                         /\ \A p \in written[r] .. SeqLenOf(r) - 1 :
                              \E i \in DOMAIN kcBatch : kcBatch[i] = TokenAt(r, p))'
      OBVIOUS
    <3>1. SeqLenOf(r)' = written'[r] /\ written'[r] \in 0 .. CompressorContext BY <1>4, <1>7
    <3>2. CompressorContext \in Nat BY CompressorAssumption
    <3>3. DOMAIN kcBatch' = {} OBVIOUS
    <3>4. written'[r] .. SeqLenOf(r)' - 1 = {} BY <3>1, <3>2
    <3>5. SeqLenOf(r)' \in written'[r] .. CompressorContext BY <3>1, <3>2
    <3> QED BY <3>3, <3>4, <3>5
  <2> QED BY <2>1 DEF BatchIsOfStep
<1>9. StatesHeld'
  <2> SUFFICES ASSUME NEW r \in CompressorReqs, NEW p \in 0 .. SeqLenOf(r)' - 1 PROVE StateHeld(r, p)'
    BY DEF StatesHeld
  <2>1. p \in Nat /\ p \in 0 .. written'[r] - 1 BY <1>4, <1>7
  <2>2. p \in 0 .. SeqLenOf(r) - 1 BY <1>1, <2>1, LenType
  <2>3. StateHeld(r, p) BY <2>2, HeldBetweenSteps
  <2>4. content'[r][p] = content[r][p] BY <2>1
  <2> QED BY <2>1, <2>3, <2>4, StateKept
<1>10. KeysHeld'
  <2> SUFFICES ASSUME NEW r \in CompressorReqs, NEW x \in 0 .. (SeqLenOf(r)' \div compress_ratio') - 1
               PROVE  KeyHeld(r, x)'
    BY DEF KeysHeld
  <2>1. written'[r] \in Nat /\ x \in 0 .. (written'[r] \div compress_ratio) - 1 BY <1>3, <1>7
  <2>2. x \in Nat /\ ClosingPos(x) \in 0 .. written'[r] - 1 BY <2>1, WindowsEnd
  <2>3. x \in 0 .. (SeqLenOf(r) \div compress_ratio) - 1
    <3>1. SeqLenOf(r) \in Nat /\ written'[r] <= SeqLenOf(r) BY <1>1, LenType
    <3>2. CASE compress_ratio = 2 BY <2>1, <3>1, <3>2
    <3>3. CASE compress_ratio = 3 BY <2>1, <3>1, <3>3
    <3> QED BY <3>2, <3>3, RatioType
  <2>4. KeyHeld(r, x) BY <2>3, HeldBetweenSteps
  <2>5. \A q \in 0 .. ClosingPos(x) : content'[r][q] = content[r][q]
    <3>1. \A q \in 0 .. ClosingPos(x) : q \in 0 .. written'[r] - 1 BY <2>1, <2>2
    <3> QED BY <3>1
  <2> QED BY <2>2, <2>4, <2>5, KeyKept
<1>11. GatheredAre' BY DEF GatheredAre
<1> QED BY <1>6, <1>8, <1>9, <1>10, <1>11 DEF KcInv

LEMMA AcceptSound == ASSUME KcInv, AcceptTokens PROVE KcInv'
<1>1. KcTypeOK /\ BatchIsOfStep BY DEF KcInv
<1>2. /\ kcStage = "served" /\ kcStage' = "idle" /\ kcBatch' = << >> /\ kcEnv' = kcEnv
      /\ stateCache' = stateCache /\ kvCache' = kvCache /\ captured' = captured
      /\ saving' = saving /\ compressing' = compressing
  BY DEF AcceptTokens
<1>3. PICK kept \in [CompressorReqs -> 0 .. CompressorContext] :
        /\ \A r \in CompressorReqs :
             kept[r] \in IF SeqLenOf(r) = written[r] THEN {0}
                         ELSE IF written[r] = 0 THEN {SeqLenOf(r)}
                         ELSE 1 .. SeqLenOf(r) - written[r]
        /\ written' = [r \in CompressorReqs |-> written[r] + kept[r]]
        /\ content' = [r \in CompressorReqs |-> [p \in DOMAIN content[r] |->
             IF p >= written[r] + kept[r] /\ p < SeqLenOf(r) THEN content[r][p] + 1
             ELSE content[r][p]]]
  BY DEF AcceptTokens
<1>4. ASSUME NEW r \in CompressorReqs
      PROVE  written'[r] = written[r] + kept[r] /\ written'[r] \in Nat /\ written'[r] <= SeqLenOf(r)
  <2>1. written[r] \in Nat /\ SeqLenOf(r) \in Nat /\ written[r] <= SeqLenOf(r) BY <1>1, LenType
  <2>2. written'[r] = written[r] + kept[r] BY <1>3
  <2>3. kept[r] \in 0 .. SeqLenOf(r) - written[r]
    <3>1. CASE SeqLenOf(r) = written[r] BY <1>3, <2>1, <3>1
    <3>2. CASE SeqLenOf(r) # written[r] /\ written[r] = 0 BY <1>3, <2>1, <3>2
    <3>3. CASE SeqLenOf(r) # written[r] /\ written[r] # 0 BY <1>3, <2>1, <3>3
    <3> QED BY <3>1, <3>2, <3>3
  <2> QED BY <2>1, <2>2, <2>3
<1>5. content \in [CompressorReqs -> [0 .. CompressorContext - 1 -> Nat]] BY <1>1 DEF KcTypeOK
<1>6. content' \in [CompressorReqs -> [0 .. CompressorContext - 1 -> Nat]]
  <2>1. ASSUME NEW r \in CompressorReqs
        PROVE  [p \in DOMAIN content[r] |->
                  IF p >= written[r] + kept[r] /\ p < SeqLenOf(r) THEN content[r][p] + 1
                  ELSE content[r][p]] \in [0 .. CompressorContext - 1 -> Nat]
    <3>1. content[r] \in [0 .. CompressorContext - 1 -> Nat] BY <1>5
    <3> DEFINE c == content[r]
    <3>2. \A p \in 0 .. CompressorContext - 1 : c[p] \in Nat /\ c[p] + 1 \in Nat
      <4> SUFFICES ASSUME NEW p \in 0 .. CompressorContext - 1 PROVE c[p] \in Nat /\ c[p] + 1 \in Nat
        OBVIOUS
      <4> HIDE DEF c
      <4>1. c[p] \in Nat BY <3>1 DEF c
      <4> QED BY <4>1
    <3> QED BY <3>1, <3>2
  <2> QED BY <1>3, <2>1
<1>7. ASSUME NEW r \in CompressorReqs, NEW p \in 0 .. written'[r] - 1
      PROVE  content'[r][p] = content[r][p]
  <2>1. written'[r] <= CompressorContext /\ CompressorContext \in Nat
    BY <1>1, <1>4, LenType, CompressorAssumption
  <2>2. p \in 0 .. CompressorContext - 1 /\ p < written[r] + kept[r] BY <1>4, <2>1
  <2>3. DOMAIN content[r] = 0 .. CompressorContext - 1 BY <1>5
  <2>4. ~ (p >= written[r] + kept[r]) BY <1>4, <2>2
  <2> QED BY <1>3, <2>2, <2>3, <2>4
<1>8. written' \in [CompressorReqs -> Nat] BY <1>3, <1>4
<1> QED BY <1>2, <1>4, <1>6, <1>7, <1>8, IdleSound

LEMMA RecycleSound == ASSUME KcInv, NEW r \in CompressorReqs, Recycle(r) PROVE KcInv'
<1>1. KcTypeOK /\ BatchIsOfStep BY DEF KcInv
<1>2. /\ kcStage = "idle" /\ kcStage' = "idle" /\ kcBatch' = kcBatch /\ kcEnv' = kcEnv
      /\ stateCache' = stateCache /\ kvCache' = kvCache /\ captured' = captured
      /\ saving' = saving /\ compressing' = compressing
      /\ written' = [written EXCEPT ![r] = 0]
      /\ content' = [content EXCEPT ![r] = [p \in DOMAIN content[r] |-> content[r][p] + 1]]
  BY DEF Recycle
<1>3. kcBatch' = << >> BY <1>1, <1>2 DEF KcTypeOK
<1>4. written \in [CompressorReqs -> 0 .. CompressorContext] /\ CompressorContext \in Nat
  BY <1>1, CompressorAssumption DEF KcTypeOK
<1>5. content \in [CompressorReqs -> [0 .. CompressorContext - 1 -> Nat]] BY <1>1 DEF KcTypeOK
<1>6. written' \in [CompressorReqs -> Nat] BY <1>2, <1>4
<1>7. \A q \in CompressorReqs : written'[q] <= SeqLenOf(q)
  <2> SUFFICES ASSUME NEW q \in CompressorReqs PROVE written'[q] <= SeqLenOf(q) OBVIOUS
  <2>1. SeqLenOf(q) \in Nat /\ written[q] <= SeqLenOf(q) BY <1>1, LenType
  <2>2. written'[q] = IF q = r THEN 0 ELSE written[q] BY <1>2, <1>4
  <2> QED BY <2>1, <2>2
<1>8. content' \in [CompressorReqs -> [0 .. CompressorContext - 1 -> Nat]]
  <2>1. [p \in DOMAIN content[r] |-> content[r][p] + 1] \in [0 .. CompressorContext - 1 -> Nat]
    <3>1. content[r] \in [0 .. CompressorContext - 1 -> Nat] BY <1>5
    <3> DEFINE c == content[r]
    <3>2. \A p \in 0 .. CompressorContext - 1 : c[p] \in Nat /\ c[p] + 1 \in Nat
      <4> SUFFICES ASSUME NEW p \in 0 .. CompressorContext - 1 PROVE c[p] \in Nat /\ c[p] + 1 \in Nat
        OBVIOUS
      <4> HIDE DEF c
      <4>1. c[p] \in Nat BY <3>1 DEF c
      <4> QED BY <4>1
    <3> QED BY <3>1, <3>2
  <2> QED BY <1>2, <1>5, <2>1
<1>9. \A q \in CompressorReqs : \A p \in 0 .. written'[q] - 1 : content'[q][p] = content[q][p]
  <2> SUFFICES ASSUME NEW q \in CompressorReqs, NEW p \in 0 .. written'[q] - 1
               PROVE  content'[q][p] = content[q][p]
    OBVIOUS
  <2>1. CASE q = r
    <3>1. written'[q] = 0 BY <1>2, <1>4, <2>1
    <3> QED BY <3>1
  <2>2. CASE q # r BY <1>2, <1>5, <2>2
  <2> QED BY <2>1, <2>2
<1> QED BY <1>2, <1>3, <1>6, <1>7, <1>8, <1>9, IdleSound

\* A step takes of each request the tokens after those that are written.
LEMMA ScheduleSound == ASSUME KcInv, ScheduleTokens PROVE KcInv'
<1>1. KcTypeOK /\ BatchIsOfStep BY DEF KcInv
<1>2. /\ kcStage = "idle" /\ kcStage' = "forward" /\ kcEnv' = kcEnv /\ written' = written
      /\ content' = content /\ stateCache' = stateCache /\ kvCache' = kvCache
      /\ captured' = captured /\ saving' = saving /\ compressing' = compressing
  BY DEF ScheduleTokens
<1>3. kcBatch = << >> /\ saving = {} /\ compressing = {} BY <1>1, <1>2 DEF KcTypeOK
<1>4. \A r : SeqLenOf(r) = written[r] BY <1>3, LenEmpty
<1>50. PICK R \in (SUBSET CompressorReqs) \ {{}} : \E len \in [R -> 1 .. CompressorContext] :
        /\ \A r \in R : len[r] <= CompressorContext - written[r]
        /\ LET tokens == SetToSeq(UNION { { TokenAt(r, p) : p \in written[r] .. written[r] + len[r] - 1 } :
                                            r \in R })
           IN IF kcEnv.full THEN \E pad \in Padding : kcBatch' = Append(tokens, pad)
              ELSE kcBatch' = tokens
  BY DEF ScheduleTokens
<1>5. PICK len \in [R -> 1 .. CompressorContext] :
        /\ \A r \in R : len[r] <= CompressorContext - written[r]
        /\ LET tokens == SetToSeq(UNION { { TokenAt(r, p) : p \in written[r] .. written[r] + len[r] - 1 } :
                                            r \in R })
           IN IF kcEnv.full THEN \E pad \in Padding : kcBatch' = Append(tokens, pad)
              ELSE kcBatch' = tokens
  BY <1>50
<1> DEFINE S == UNION { { TokenAt(r, p) : p \in written[r] .. written[r] + len[r] - 1 } : r \in R }
           tokens == SetToSeq(S)
<1>6. CompressorContext \in Nat BY CompressorAssumption
<1>7. \A r \in CompressorReqs : written[r] \in Nat /\ written[r] <= CompressorContext
  BY <1>1, <1>4, LenType
<1>8. \A r \in R : r \in CompressorReqs /\ len[r] \in Nat \ {0} /\ written[r] + len[r] <= CompressorContext
  <2> SUFFICES ASSUME NEW r \in R
               PROVE  r \in CompressorReqs /\ len[r] \in Nat \ {0} /\ written[r] + len[r] <= CompressorContext
    OBVIOUS
  <2>1. len[r] \in 1 .. CompressorContext /\ len[r] <= CompressorContext - written[r] /\ written[r] \in Nat
        /\ r \in CompressorReqs
    BY <1>5, <1>7
  <2> QED BY <1>6, <2>1
<1>9. \A r \in R : \A p \in written[r] .. written[r] + len[r] - 1 : p \in Nat /\ TokenAt(r, p) \in S
  BY <1>7, <1>8
<1>10. \A t \in S : \E r \in R : \E p \in Nat :
         p \in written[r] .. written[r] + len[r] - 1 /\ t = TokenAt(r, p)
  BY <1>9
<1>11. IsFiniteSet(S)
  <2> DEFINE Q == CompressorReqs \X (0 .. CompressorContext)
             T == { q \in Q : TokenAt(q[1], q[2]) \in S }
             f == [q \in T |-> TokenAt(q[1], q[2])]
  <2>1. IsFiniteSet(Q)
    <3>1. IsFiniteSet(0 .. CompressorContext) BY <1>6, FS_Interval
    <3>2. IsFiniteSet(CompressorReqs) BY CompressorAssumption
    <3> QED BY <3>1, <3>2, FS_Product
  <2>2. IsFiniteSet(T)
    <3>1. T \in SUBSET Q OBVIOUS
    <3> HIDE DEF T, Q
    <3> QED BY <2>1, <3>1, FS_Subset
  <2>3. ASSUME NEW t \in S PROVE \E q \in T : f[q] = t
    <3>1. PICK r \in R, p \in Nat : p \in written[r] .. written[r] + len[r] - 1 /\ t = TokenAt(r, p) BY <1>10
    <3>2. r \in CompressorReqs /\ p \in 0 .. CompressorContext
      <4>1. /\ r \in CompressorReqs /\ len[r] \in Nat \ {0} /\ written[r] \in Nat
            /\ written[r] + len[r] <= CompressorContext
        BY <1>7, <1>8
      <4> QED BY <1>6, <3>1, <4>1
    <3> DEFINE q == << r, p >>
    <3>3. q \in Q /\ q[1] = r /\ q[2] = p BY <3>2
    <3>4. q \in T BY <3>1, <3>3
    <3>5. f[q] = t BY <3>1, <3>3, <3>4
    <3> QED BY <3>4, <3>5
  <2>4. f \in [T -> S] OBVIOUS
  <2>5. f \in Surjection(T, S)
    <3> HIDE DEF f, T, S
    <3> QED BY <2>3, <2>4 DEF Surjection
  <2> HIDE DEF f, T, S
  <2> QED BY <2>2, <2>5, FS_Surjection
<1>12. S \subseteq BatchToken
  <2> SUFFICES ASSUME NEW t \in S PROVE t \in BatchToken OBVIOUS
  <2>1. PICK r \in R, p \in Nat : p \in written[r] .. written[r] + len[r] - 1 /\ t = TokenAt(r, p) BY <1>10
  <2>2. r \in CompressorReqs /\ p \in Nat BY <1>7, <1>8
  <2>3. TokenAt(r, p) \in BatchToken BY <2>2, TokenIsElement
  <2> QED BY <2>1, <2>3
<1> HIDE DEF S
<1>13. /\ tokens \in Seq(S) /\ \A i \in DOMAIN tokens : tokens[i] \in S
       /\ \A t \in S : \E i \in DOMAIN tokens : tokens[i] = t
  BY <1>11, SetAsSeq
<1> HIDE DEF tokens
<1>14. tokens \in Seq(BatchToken)
  <2> QED BY <1>12, <1>13
<1>15. \E pad \in Padding : kcBatch' = tokens \/ kcBatch' = Append(tokens, pad)
  <2>1. CASE kcEnv.full BY <1>5, <2>1 DEF tokens, S
  <2>2. CASE ~ kcEnv.full
    <3>1. kcBatch' = tokens BY <1>5, <2>2 DEF tokens, S
    <3>2. \E pad : pad \in Padding BY DEF Padding
    <3> QED BY <3>1, <3>2
  <2> QED BY <2>1, <2>2
<1>16. PICK pad \in Padding : kcBatch' = tokens \/ kcBatch' = Append(tokens, pad) BY <1>15
<1>17. pad \in BatchToken /\ pad.slot = -1 BY PaddingIsElement
<1>18. kcBatch' \in Seq(BatchToken)
  <2> QED BY <1>14, <1>16, <1>17
<1>19. \A i \in DOMAIN kcBatch' : kcBatch'[i] \in S \/ kcBatch'[i] = pad
  <2> QED BY <1>13, <1>14, <1>16, <1>17
<1>20. \A t \in S : \E i \in DOMAIN kcBatch' : kcBatch'[i] = t
  <2>1. \A i \in DOMAIN tokens : i \in DOMAIN kcBatch' /\ kcBatch'[i] = tokens[i]
    BY <1>14, <1>16, <1>17
  <2> QED BY <1>13, <2>1
<1>21. ASSUME NEW r \in CompressorReqs, NEW i \in DOMAIN kcBatch', kcBatch'[i].req = r, kcBatch'[i].slot >= 0
       PROVE  r \in R /\ \E p \in written[r] .. written[r] + len[r] - 1 : kcBatch'[i] = TokenAt(r, p)
  <2>1. kcBatch'[i] \in S
    <3>1. kcBatch'[i] # pad BY <1>17, <1>21
    <3> QED BY <1>19, <3>1
  <2>2. PICK s \in R, p \in Nat : p \in written[s] .. written[s] + len[s] - 1 /\ kcBatch'[i] = TokenAt(s, p)
    BY <1>10, <2>1
  <2>3. s \in CompressorReqs /\ p \in Nat BY <1>7, <1>8
  <2>4. TokenAt(s, p).req = s BY <2>3, TokenSlots
  <2> QED BY <1>21, <2>2, <2>4
<1>22. \A r \in CompressorReqs :
         SeqLenOf(r)' = IF r \in R THEN written[r] + len[r] ELSE written[r]
  <2> SUFFICES ASSUME NEW r \in CompressorReqs
               PROVE  SeqLenOf(r)' = IF r \in R THEN written[r] + len[r] ELSE written[r]
    OBVIOUS
  <2>1. SeqLenOf(r)' = SeqLenIn(kcBatch', written, r) BY <1>2 DEF SeqLenOf, SeqLenIn
  <2>2. CASE r \notin R
    <3>1. \A i \in DOMAIN kcBatch' : ~ (kcBatch'[i].req = r /\ kcBatch'[i].slot >= 0)
      BY <1>21, <2>2
    <3>2. SeqLenIn(kcBatch', written, r) = written[r] BY <3>1, LenWithout
    <3> QED BY <2>1, <2>2, <3>2
  <2>3. CASE r \in R
    <3> DEFINE n == written[r] + len[r]
    <3>1. n \in Int /\ n - 1 \in written[r] .. written[r] + len[r] - 1 /\ n - 1 \in Nat
      BY <1>7, <1>8, <2>3
    <3>2. \A i \in DOMAIN kcBatch' : kcBatch'[i].req = r /\ kcBatch'[i].slot >= 0 =>
            kcBatch'[i].pos \in Int /\ kcBatch'[i].pos < n
      <4> SUFFICES ASSUME NEW i \in DOMAIN kcBatch', kcBatch'[i].req = r, kcBatch'[i].slot >= 0
                   PROVE  kcBatch'[i].pos \in Int /\ kcBatch'[i].pos < n
        OBVIOUS
      <4>1. PICK p \in written[r] .. written[r] + len[r] - 1 : kcBatch'[i] = TokenAt(r, p) BY <1>21
      <4>2. p \in Nat /\ p < n BY <1>7, <1>8, <2>3
      <4>3. TokenAt(r, p).pos = p BY <4>2, TokenSlots
      <4> QED BY <4>1, <4>2, <4>3
    <3>3. \E i \in DOMAIN kcBatch' : kcBatch'[i].req = r /\ kcBatch'[i].slot >= 0 /\ kcBatch'[i].pos = n - 1
      <4>1. TokenAt(r, n - 1) \in S BY <1>9, <2>3, <3>1
      <4>2. PICK i \in DOMAIN kcBatch' : kcBatch'[i] = TokenAt(r, n - 1) BY <1>20, <4>1
      <4>3. /\ TokenAt(r, n - 1).req = r /\ TokenAt(r, n - 1).pos = n - 1
            /\ TokenAt(r, n - 1).slot \in Nat
        BY <3>1, TokenSlots
      <4> QED BY <4>2, <4>3
    <3>4. SeqLenIn(kcBatch', written, r) = n
      <4> HIDE DEF n
      <4> QED BY <3>1, <3>2, <3>3, LenWith
    <3> QED BY <2>1, <2>3, <3>4
  <2> QED BY <2>2, <2>3
<1>23. \A r, p : TokenAt(r, p)' = TokenAt(r, p) BY <1>2, SameCompressor
<1>24. ASSUME NEW r \in CompressorReqs, NEW p \in Nat, p \in written[r] .. SeqLenOf(r)' - 1
       PROVE  \E i \in DOMAIN kcBatch' : kcBatch'[i] = TokenAt(r, p)
  <2>1. r \in R /\ p \in written[r] .. written[r] + len[r] - 1 BY <1>7, <1>22, <1>24
  <2> QED BY <1>9, <1>20, <2>1
<1>25. KcTypeOK'
  <2>1. head_dim' = head_dim BY <1>2, SameCompressor
  <2>2. saving' \in SUBSET DOMAIN kcBatch' /\ compressing' \in SUBSET DOMAIN kcBatch'
        /\ saving' = {} /\ compressing' = {}
    BY <1>2, <1>3
  <2>3. /\ kcEnv' \in CompressorEnvs /\ kcEnv'.full = kcEnv.full
        /\ head_dim \in {128, 512} /\ (head_dim = 512 => ~ kcEnv.fp4)
        /\ kcEnv.full => captured = "save and compress"
    BY <1>1, <1>2 DEF KcTypeOK, Working
  <2>4. written' \in [CompressorReqs -> 0 .. CompressorContext]
        /\ content' \in [CompressorReqs -> [0 .. CompressorContext - 1 -> Nat]]
    BY <1>1, <1>2 DEF KcTypeOK
  <2>5. head_dim' \in {128, 512} /\ (head_dim' = 512 => ~ kcEnv'.fp4) BY <1>2, <2>1, <2>3
  <2> QED BY <1>2, <1>18, <2>2, <2>3, <2>4, <2>5 DEF KcTypeOK, Working
<1>26. BatchIsOfStep'
  <2>1. \A r \in CompressorReqs :
          (/\ SeqLenOf(r) \in written[r] .. CompressorContext
           /\ \A i \in DOMAIN kcBatch : kcBatch[i].req = r /\ kcBatch[i].slot >= 0 =>
                /\ kcBatch[i].pos \in written[r] .. SeqLenOf(r) - 1
                /\ kcBatch[i] = TokenAt(r, kcBatch[i].pos)
           /\ \A p \in written[r] .. SeqLenOf(r) - 1 : \E i \in DOMAIN kcBatch : kcBatch[i] = TokenAt(r, p))'
    <3> SUFFICES ASSUME NEW r \in CompressorReqs
                 PROVE  (/\ SeqLenOf(r) \in written[r] .. CompressorContext
                         /\ \A i \in DOMAIN kcBatch : kcBatch[i].req = r /\ kcBatch[i].slot >= 0 =>
                              /\ kcBatch[i].pos \in written[r] .. SeqLenOf(r) - 1
                              /\ kcBatch[i] = TokenAt(r, kcBatch[i].pos)
                         /\ \A p \in written[r] .. SeqLenOf(r) - 1 :
                              \E i \in DOMAIN kcBatch : kcBatch[i] = TokenAt(r, p))'
      OBVIOUS
    <3>1. SeqLenOf(r)' \in written'[r] .. CompressorContext BY <1>2, <1>6, <1>7, <1>8, <1>22
    <3>2. \A p \in written'[r] .. SeqLenOf(r)' - 1 : p \in Nat /\ \E i \in DOMAIN kcBatch' : kcBatch'[i] = TokenAt(r, p)'
      <4> SUFFICES ASSUME NEW p \in written'[r] .. SeqLenOf(r)' - 1
                   PROVE  p \in Nat /\ \E i \in DOMAIN kcBatch' : kcBatch'[i] = TokenAt(r, p)'
        OBVIOUS
      <4>1. p \in Nat /\ p \in written[r] .. SeqLenOf(r)' - 1 BY <1>2, <1>6, <1>7, <3>1
      <4> QED BY <1>23, <1>24, <4>1
    <3>3. ASSUME NEW i \in DOMAIN kcBatch', kcBatch'[i].req = r, kcBatch'[i].slot >= 0
          PROVE  (/\ kcBatch[i].pos \in written[r] .. SeqLenOf(r) - 1
                  /\ kcBatch[i] = TokenAt(r, kcBatch[i].pos))'
      <4>1. PICK p \in written[r] .. written[r] + len[r] - 1 : r \in R /\ kcBatch'[i] = TokenAt(r, p)
        BY <1>21, <3>3
      <4>2. p \in Nat BY <1>7, <1>8, <4>1
      <4>3. kcBatch'[i].pos = p BY <4>1, <4>2, TokenSlots
      <4>4. kcBatch'[i].pos \in written'[r] .. SeqLenOf(r)' - 1
        <5>1. SeqLenOf(r)' = written[r] + len[r] BY <1>22, <4>1
        <5>2. written'[r] = written[r] BY <1>2
        <5>3. written'[r] .. SeqLenOf(r)' - 1 = written[r] .. written[r] + len[r] - 1
          BY <1>7, <1>8, <4>1, <5>1, <5>2
        <5>4. p \in written[r] .. written[r] + len[r] - 1 BY <4>1
        <5> QED BY ONLY <4>3, <5>3, <5>4
      <4>5. TokenAt(r, kcBatch[i].pos)' = TokenAt(r, p)
        BY <1>2, <4>3, SameCompressor DEF TokenAt
      <4> QED BY <4>1, <4>4, <4>5
    <3> QED BY <3>1, <3>2, <3>3
  <2> QED BY <2>1 DEF BatchIsOfStep
<1>27. StatesHeld'
  <2> SUFFICES ASSUME NEW r \in CompressorReqs, NEW p \in 0 .. SeqLenOf(r)' - 1
               PROVE  StateHeld(r, p)' \/ \E i \in DOMAIN kcBatch' : kcBatch'[i] = TokenAt(r, p)'
    BY <1>2 DEF StatesHeld, ToSave
  <2>1. SeqLenOf(r)' \in Nat /\ written[r] \in Nat BY <1>7, <1>8, <1>22
  <2>2. CASE p < written[r]
    <3>1. p \in Nat /\ p \in 0 .. SeqLenOf(r) - 1 BY <1>4, <2>1, <2>2
    <3>2. StateHeld(r, p) BY <1>2, <3>1, HeldBetweenSteps
    <3> QED BY <1>2, <3>1, <3>2, StateKept
  <2>3. CASE ~ (p < written[r])
    <3>1. p \in Nat /\ p \in written[r] .. SeqLenOf(r)' - 1 BY <2>1, <2>3
    <3> QED BY <1>23, <1>24, <3>1
  <2> QED BY <2>2, <2>3
<1>28. KeysHeld'
  <2>1. compress_ratio' = compress_ratio BY <1>2, SameCompressor
  <2> SUFFICES ASSUME NEW r \in CompressorReqs, NEW x \in 0 .. (SeqLenOf(r)' \div compress_ratio') - 1
               PROVE  KeyHeld(r, x)' \/ \E i \in DOMAIN kcBatch' : kcBatch'[i] = TokenAt(r, ClosingPos(x))'
    BY <1>2 DEF KeysHeld, ToCompress
  <2>2. SeqLenOf(r)' \in Nat /\ written[r] \in Nat BY <1>7, <1>8, <1>22
  <2>3. x \in Nat /\ ClosingPos(x) \in 0 .. SeqLenOf(r)' - 1 BY <2>1, <2>2, WindowsEnd
  <2>4. CASE ClosingPos(x) < written[r]
    <3>1. x \in 0 .. (SeqLenOf(r) \div compress_ratio) - 1
      <4>1. SeqLenOf(r) = written[r] BY <1>4
      <4>2. CASE compress_ratio = 2 BY <2>2, <2>3, <2>4, <4>1, <4>2 DEF ClosingPos
      <4>3. CASE compress_ratio = 3 BY <2>2, <2>3, <2>4, <4>1, <4>3 DEF ClosingPos
      <4> QED BY <4>2, <4>3, RatioType
    <3>2. KeyHeld(r, x) BY <1>2, <3>1, HeldBetweenSteps
    <3>3. \A q \in 0 .. ClosingPos(x) : content'[r][q] = content[r][q] BY <1>2
    <3> QED BY <1>2, <2>3, <3>2, <3>3, KeyKept
  <2>5. CASE ~ (ClosingPos(x) < written[r])
    <3>1. ClosingPos(x) \in Nat /\ ClosingPos(x) \in written[r] .. SeqLenOf(r)' - 1 BY <2>2, <2>3, <2>5
    <3>2. \E i \in DOMAIN kcBatch' : kcBatch'[i] = TokenAt(r, ClosingPos(x)) BY <1>24, <3>1
    <3>3. TokenAt(r, ClosingPos(x))' = TokenAt(r, ClosingPos(x)) BY <1>2, SameCompressor DEF TokenAt
    <3> QED BY <3>2, <3>3
  <2> QED BY <2>4, <2>5
<1>29. GatheredAre' BY <1>2 DEF GatheredAre
<1> QED BY <1>25, <1>26, <1>27, <1>28, <1>29 DEF KcInv

LEMMA KcNextSound == ASSUME SupportedCompressors PROVE KcInv /\ [KeyCompressorNext]_kcVars => KcInv'
<1> SUFFICES ASSUME KcInv, [KeyCompressorNext]_kcVars PROVE KcInv' OBVIOUS
<1>1. CASE UNCHANGED kcVars
  <2>1. /\ kcEnv' = kcEnv /\ written' = written /\ content' = content /\ stateCache' = stateCache
        /\ kvCache' = kvCache /\ kcBatch' = kcBatch /\ captured' = captured /\ saving' = saving
        /\ compressing' = compressing /\ out' = out /\ kcStage' = kcStage
    BY <1>1 DEF kcVars
  <2>2. KcTypeOK /\ BatchIsOfStep /\ StatesHeld /\ KeysHeld BY DEF KcInv
  <2>3. KcTypeOK'
    <3>1. head_dim' = head_dim BY <2>1, SameCompressor
    <3>2. /\ kcEnv' \in CompressorEnvs
          /\ written' \in [CompressorReqs -> 0 .. CompressorContext]
          /\ content' \in [CompressorReqs -> [0 .. CompressorContext - 1 -> Nat]]
          /\ kcBatch' \in Seq(BatchToken)
      BY <2>1, <2>2 DEF KcTypeOK
    <3>3. /\ saving' \in SUBSET DOMAIN kcBatch' /\ compressing' \in SUBSET DOMAIN kcBatch'
          /\ kcStage' \notin {"launched"} => saving' = {} /\ compressing' = {}
      BY <2>1, <2>2, ZenonT(40) DEF KcTypeOK
    <3>4. kcStage' \notin {"forward", "launched", "served"} => kcBatch' = << >>
      BY <2>1, <2>2 DEF KcTypeOK
    <3>5. /\ kcStage' \in Working \cup {"construct", "refused", "capture"}
          /\ kcStage' \in Working \cup {"capture"} =>
               head_dim' \in {128, 512} /\ (head_dim' = 512 => ~ kcEnv'.fp4)
          /\ kcStage' = "capture" => kcEnv'.full
          /\ kcStage' \in Working /\ kcEnv'.full => captured' = "save and compress"
      BY <2>1, <2>2, <3>1, ZenonT(40) DEF KcTypeOK
    <3> QED BY <3>2, <3>3, <3>4, <3>5 DEF KcTypeOK
  <2>4. BatchIsOfStep' BY <2>1, <2>2, BatchKept
  <2>5. ToSave' = ToSave /\ ToCompress' = ToCompress BY <2>1 DEF ToSave, ToCompress
  <2>6. StatesHeld' /\ KeysHeld' BY <2>1, <2>2, <2>5, HeldKept
  <2>7. GatheredAre'
    <3> SUFFICES ASSUME kcStage = "served", head_dim = 512, NEW r \in CompressorReqs,
                        NEW n \in {SeqLenOf(r) \div compress_ratio}
                 PROVE  \E g \in 0 .. n :
                          (out[r] = [o \in 1 .. g |-> << [bytes |-> WindowKey(r, n - g + (o - 1))],
                                                        [scale |-> WindowKey(r, n - g + (o - 1))] >>])'
      <4>1. head_dim' = head_dim /\ compress_ratio' = compress_ratio BY <2>1, SameCompressor
      <4>2. \A r : SeqLenOf(r)' = SeqLenOf(r) BY <2>1, LenKept
      <4> QED BY <2>1, <4>1, <4>2 DEF GatheredAre
    <3>1. n \in Nat BY <2>2, LenType
    <3>2. PICK g \in 0 .. n :
            out[r] = [o \in 1 .. g |-> << [bytes |-> WindowKey(r, n - g + (o - 1))],
                                          [scale |-> WindowKey(r, n - g + (o - 1))] >>]
      BY DEF KcInv, GatheredAre
    <3>3. \A o \in 1 .. g : WindowKey(r, n - g + (o - 1))' = WindowKey(r, n - g + (o - 1))
      <4> SUFFICES ASSUME NEW o \in 1 .. g
                   PROVE  WindowKey(r, n - g + (o - 1))' = WindowKey(r, n - g + (o - 1))
        OBVIOUS
      <4>1. n - g + (o - 1) \in Nat BY <3>1
      <4> QED BY <2>1, <4>1, SameKey
    <3> QED BY <2>1, <3>2, <3>3
  <2> QED BY <2>3, <2>4, <2>6, <2>7 DEF KcInv
<1>2. CASE construct_compressor BY <1>2, ConstructSound
<1>3. CASE capture BY <1>3, CaptureSound
<1>4. CASE ScheduleTokens BY <1>4, ScheduleSound
<1>5. CASE forward BY <1>5, ForwardSound
<1>6. CASE dequant_gather BY <1>6, GatherSound
<1>7. CASE AcceptTokens BY <1>7, AcceptSound
<1>8. CASE \E r \in CompressorReqs : Recycle(r) BY <1>8, RecycleSound
<1>9. CASE \E i \in DOMAIN kcBatch : _SAVE_PARTIAL_STATES_KERNEL(i) \/ compress(i)
  BY <1>9, SaveSound, CompressSound
<1> QED BY <1>1, <1>2, <1>3, <1>4, <1>5, <1>6, <1>7, <1>8, <1>9 DEF KeyCompressorNext

\* In every state a program that has still to run is the only excuse for a row or a key that is
\* missing or of other tokens, however the steps end and whatever the blocks held before.
THEOREM CompressorIsSound == ASSUME SupportedCompressors PROVE KeyCompressorSpec => []KcInv
<1>1. KeyCompressorInit => KcInv BY KcInit
<1>2. KcInv /\ [KeyCompressorNext]_kcVars => KcInv' BY KcNextSound
<1> QED BY <1>1, <1>2, PTL DEF KeyCompressorSpec

LEMMA KeysOfWindows == KcInv => KeysHoldTheirWindow
<1> SUFFICES ASSUME KcInv PROVE KeysHoldTheirWindow OBVIOUS
<1>1. kcStage # "raised" BY DEF KcInv, KcTypeOK, Working
<1>2. KcTypeOK /\ BatchIsOfStep BY DEF KcInv
<1>3. ASSUME kcStage = "served", NEW r \in CompressorReqs
      PROVE  LET n == SeqLenOf(r) \div compress_ratio
             IN /\ \A x \in 0 .. n - 1 : KeyHeld(r, x)
                /\ head_dim = 512 =>
                     /\ \A o \in DOMAIN out[r] :
                          out[r][o] = << [bytes |-> WindowKey(r, n + o - Offset - Cardinality(DOMAIN out[r]))],
                                         [scale |-> WindowKey(r, n + o - Offset - Cardinality(DOMAIN out[r]))] >>
                     /\ DOMAIN out[r] = Offset .. Offset + Cardinality(DOMAIN out[r]) - 1
  <2> DEFINE n == SeqLenOf(r) \div compress_ratio
  <2>1. n \in Nat BY <1>2, LenType
  <2>2. \A x \in 0 .. n - 1 : KeyHeld(r, x) BY <1>3, HeldBetweenSteps
  <2>3. ASSUME head_dim = 512
        PROVE  /\ \A o \in DOMAIN out[r] :
                    out[r][o] = << [bytes |-> WindowKey(r, n + o - Offset - Cardinality(DOMAIN out[r]))],
                                   [scale |-> WindowKey(r, n + o - Offset - Cardinality(DOMAIN out[r]))] >>
               /\ DOMAIN out[r] = Offset .. Offset + Cardinality(DOMAIN out[r]) - 1
    <3>1. PICK g \in 0 .. n :
            out[r] = [o \in 1 .. g |-> << [bytes |-> WindowKey(r, n - g + (o - 1))],
                                          [scale |-> WindowKey(r, n - g + (o - 1))] >>]
      BY <1>3, <2>3 DEF KcInv, GatheredAre
    <3> HIDE DEF n
    <3>2. DOMAIN out[r] = 1 .. g BY <3>1
    <3>3. g \in Nat BY <2>1
    <3>4. Cardinality(1 .. g) = g BY <3>3, FS_Interval
    <3>5. \A o \in 1 .. g : n + o - Offset - g = n - g + (o - 1) BY <2>1, <3>3 DEF Offset
    <3>6. 1 .. g = Offset .. Offset + g - 1 BY <3>3 DEF Offset
    <3> QED BY <3>1, <3>2, <3>4, <3>5, <3>6
  <2> QED BY <2>2, <2>3
<1> QED BY <1>1, <1>3 DEF KeysHoldTheirWindow, KeyHeld, WindowKey, WindowOf, StateOf, SlotOf

\* The keys that attention reads are those of the windows they stand for.
THEOREM KeysAlwaysHoldTheirWindow ==
  ASSUME SupportedCompressors PROVE KeyCompressorSpec => []KeysHoldTheirWindow
BY CompressorIsSound, KeysOfWindows, PTL

--------------------------------------------------------------------------------
(* The numbers of the caches.                                                  *)

\* What a division leaves.
LEMMA DivisionLeaves ==
  ASSUME NEW n \in Nat, NEW d \in Nat \ {0}
  PROVE  /\ n \div d \in Nat
         /\ d * (n \div d) <= n /\ n < d * (n \div d) + d
<1>1. n \div d \in Int /\ n % d \in 0 .. d - 1 /\ n = (d * (n \div d)) + (n % d)
  OBVIOUS
<1>2. n \div d >= 0 OBVIOUS
<1> QED BY <1>1, <1>2

\* A product grows with a factor.
LEMMA ProductMonotone ==
  ASSUME NEW p \in Nat, NEW q \in Nat, NEW n \in Nat, p <= q
  PROVE  p * n <= q * n
<1>1. PICK d \in Nat : q = p + d
  <2>1. q - p \in Nat /\ q = p + (q - p) OBVIOUS
  <2> QED BY <2>1
<1>2. q * n = p * n + d * n BY <1>1
<1>3. d * n \in Nat /\ p * n \in Nat OBVIOUS
<1> QED BY <1>2, <1>3

\* A product is within the product of the bounds.
LEMMA ProductWithin ==
  ASSUME NEW p \in Int, NEW q \in Int, NEW P \in Nat, NEW Q \in Nat,
         Magnitude(p) <= P, Magnitude(q) <= Q
  PROVE  Magnitude(p * q) <= P * Q
<1> DEFINE a == Magnitude(p)
           b == Magnitude(q)
<1>1. a \in Nat /\ b \in Nat BY DEF Magnitude
<1>2. a * b <= P * Q
  <2>1. a * b <= P * b
    <3>1. a <= P OBVIOUS
    <3> HIDE DEF a, b
    <3> QED BY <1>1, <3>1, ProductMonotone
  <2>2. P * b <= P * Q
    <3>1. b <= Q OBVIOUS
    <3> HIDE DEF a, b
    <3>2. b * P <= Q * P BY <1>1, <3>1, ProductMonotone
    <3>3. b * P = P * b /\ Q * P = P * Q BY <1>1
    <3> QED BY <3>2, <3>3
  <2>3. a * b \in Int /\ P * b \in Int /\ P * Q \in Int
    <3> HIDE DEF a, b
    <3> QED BY <1>1
  <2> HIDE DEF a, b
  <2> QED BY <2>1, <2>2, <2>3
<1>3. Magnitude(p * q) = a * b
  <2>1. CASE p >= 0 /\ q >= 0 BY <2>1 DEF Magnitude
  <2>2. CASE p >= 0 /\ q < 0 BY <2>2 DEF Magnitude
  <2>3. CASE p < 0 /\ q >= 0 BY <2>3 DEF Magnitude
  <2>4. CASE p < 0 /\ q < 0 BY <2>4 DEF Magnitude
  <2> QED BY <2>1, <2>2, <2>3, <2>4
<1> QED BY <1>2, <1>3

\* A truncated entry, times its scale, is the entry's magnitude by 127 but for less than
\* the scale; it fits eight bits.
LEMMA TruncatedEntry ==
  ASSUME NEW n \in Int, NEW scale \in Nat \ {0}, Magnitude(n) <= scale
  PROVE  /\ Truncated(n, scale) \in Int /\ Magnitude(Truncated(n, scale)) <= 127
         /\ Magnitude(scale * Truncated(n, scale)) <= 127 * scale
         /\ Magnitude(scale * Truncated(n, scale) - (127 * n)) <= scale
<1> DEFINE m == Magnitude(n)
           t == (m * 127) \div scale
<1>1. m \in Nat BY DEF Magnitude
<1>2. t \in Nat /\ scale * t <= m * 127 /\ m * 127 < (scale * t) + scale
  <2>1. m * 127 \in Nat BY <1>1
  <2> HIDE DEF m
  <2> QED BY <2>1, DivisionLeaves
<1>3. scale * t <= 127 * scale /\ scale * t \in Nat
  <2>1. m <= scale OBVIOUS
  <2> HIDE DEF m, t
  <2> QED BY <1>1, <1>2, <2>1
<1>4. t <= 127
  <2> SUFFICES ASSUME 128 <= t PROVE FALSE
    <3> HIDE DEF t
    <3> QED BY <1>2
  <2>1. 128 * scale <= t * scale
    <3> HIDE DEF t
    <3> QED BY <1>2, ProductMonotone
  <2>2. t * scale = scale * t
    <3> HIDE DEF t
    <3> QED BY <1>2
  <2> HIDE DEF t
  <2> QED BY <1>3, <2>1, <2>2
<1>5. CASE n >= 0
  <2>1. Truncated(n, scale) = t /\ m = n BY <1>5 DEF Truncated, Magnitude
  <2> HIDE DEF t, m
  <2> QED BY <1>1, <1>2, <1>3, <1>4, <2>1 DEF Magnitude
<1>6. CASE n < 0
  <2>1. Truncated(n, scale) = - t /\ n = - m BY <1>6 DEF Truncated, Magnitude
  <2>2. scale * (- t) = - (scale * t)
    <3> HIDE DEF t, m
    <3> QED BY <1>2
  <2> HIDE DEF t, m
  <2> QED BY <1>1, <1>2, <1>3, <1>4, <2>1, <2>2 DEF Magnitude
<1> QED BY <1>5, <1>6

\* The product of two numbers that are each near another.
LEMMA ProductNear ==
  ASSUME NEW x \in Int, NEW y \in Int, NEW p \in Int, NEW q \in Int, NEW P \in Nat, NEW Q \in Nat,
         Magnitude(p) <= 127 * P, Magnitude(p - x) <= P,
         Magnitude(y) <= 127 * Q, Magnitude(q - y) <= Q
  PROVE  Magnitude(p * q - (x * y)) <= 254 * (P * Q)
<1>1. p * q - (x * y) = (p * (q - y)) + ((p - x) * y) OBVIOUS
<1>2. Magnitude(p * (q - y)) <= (127 * P) * Q BY ProductWithin
<1>3. Magnitude((p - x) * y) <= P * (127 * Q) BY ProductWithin
<1>4. (127 * P) * Q = 127 * (P * Q) /\ P * (127 * Q) = 127 * (P * Q) /\ P * Q \in Nat OBVIOUS
<1> DEFINE a == p * (q - y)
           b == (p - x) * y
           c == P * Q
<1>5. a \in Int /\ b \in Int /\ c \in Nat OBVIOUS
<1>6. Magnitude(a) <= 127 * c /\ Magnitude(b) <= 127 * c BY <1>2, <1>3, <1>4
<1>7. Magnitude(a + b) <= 254 * c
  <2> HIDE DEF a, b, c
  <2> QED BY <1>5, <1>6 DEF Magnitude
<1> QED BY <1>1, <1>7

\* A block or two vectors, and what was stored of them.
QkInv ==
  \/ qkStage = "block" /\ values \in Floats \X Floats /\ AtMost(values[2], values[1])
  \/ /\ qkStage = "stored" /\ values \in Floats \X Floats /\ AtMost(values[2], values[1])
     /\ \E e \in exponents :
          stored = [bytes |-> << _encode_e4m3fn(x_clamped(values[1], e)),
                                 _encode_e4m3fn(x_clamped(values[2], e)) >>,
                    encoded |-> Lesser(Greater(e + 127, 0), 255)]
  \/ qkStage = "vectors" /\ values \in [query : Entries \X Entries, key : Entries \X Entries, weight : {1, -3}]
  \/ /\ qkStage = "scored"
     /\ values \in [query : Entries \X Entries, key : Entries \X Entries, weight : {1, -3}]
     /\ stored = [q |-> Quantized(values.query), weights |-> index_weights(values.query, values.weight),
                  k |-> _compress_indexer_rope_int8(values.key)]

\* What is stored is what the actions make of the values, whatever was chosen of two scales.
LEMMA KeysAreStored == QuantizedSpec => []QkInv
<1>1. QuantizedInit => QkInv
  <2> SUFFICES ASSUME QuantizedInit PROVE QkInv OBVIOUS
  <2>1. CASE /\ qkStage = "block"
             /\ values \in { v \in { << x, y >> : x \in Floats, y \in Floats } : AtMost(v[2], v[1]) }
    <3>1. PICK x \in Floats, y \in Floats : values = << x, y >> /\ AtMost(values[2], values[1]) BY <2>1
    <3> QED BY <2>1, <3>1 DEF QkInv
  <2>2. CASE qkStage = "vectors" /\ values \in [query : Entries \X Entries, key : Entries \X Entries, weight : {1, -3}]
    BY <2>2 DEF QkInv
  <2> QED BY <2>1, <2>2 DEF QuantizedInit
<1>2. QkInv /\ [QuantizedNext]_qkVars => QkInv'
  <2> SUFFICES ASSUME QkInv, [QuantizedNext]_qkVars PROVE QkInv' OBVIOUS
  <2>1. CASE StoreBlock
    <3>1. values \in Floats \X Floats /\ AtMost(values[2], values[1]) BY <2>1 DEF QkInv, StoreBlock
    <3>2. values' = values /\ qkStage' = "stored" BY <2>1 DEF StoreBlock
    <3>3. exponents' = exponents BY <3>2 DEF exponents, block_absmax
    <3>4. PICK e \in exponents :
            stored' = [bytes |-> << _encode_e4m3fn(x_clamped(values[1], e)),
                                    _encode_e4m3fn(x_clamped(values[2], e)) >>,
                       encoded |-> Lesser(Greater(e + 127, 0), 255)]
      BY <2>1 DEF StoreBlock
    <3>5. stored' = [bytes |-> << _encode_e4m3fn(x_clamped(values'[1], e)),
                                    _encode_e4m3fn(x_clamped(values'[2], e)) >>,
                       encoded |-> Lesser(Greater(e + 127, 0), 255)]
      BY <3>2, <3>4
    <3> QED BY <3>1, <3>2, <3>3, <3>5 DEF QkInv
  <2>2. CASE StoreVectors
    <3>1. values \in [query : Entries \X Entries, key : Entries \X Entries, weight : {1, -3}]
      BY <2>2 DEF QkInv, StoreVectors
    <3> QED BY <2>2, <3>1 DEF QkInv, StoreVectors
  <2>3. CASE UNCHANGED qkVars
    <3>1. values' = values /\ qkStage' = qkStage /\ stored' = stored BY <2>3 DEF qkVars
    <3>2. exponents' = exponents BY <3>1 DEF exponents, block_absmax
    <3> QED BY <3>1, <3>2 DEF QkInv
  <2> QED BY <2>1, <2>2, <2>3 DEF QuantizedNext
<1> QED BY <1>1, <1>2, PTL DEF QuantizedSpec

\* The scale of a vector holds its entries.
LEMMA ScaleHolds ==
  ASSUME NEW v \in Entries \X Entries
  PROVE  /\ amax(v) \in Nat \ {0} /\ v[1] \in Int /\ v[2] \in Int
         /\ Magnitude(v[1]) <= amax(v) /\ Magnitude(v[2]) <= amax(v)
<1>1. v[1] \in Int /\ v[2] \in Int
  <2>1. \A n \in Entries : n \in Int BY QuantizedAssumption
  <2> QED BY <2>1
<1> QED BY <1>1 DEF amax, Greater, Magnitude

\* A scored pair of vectors, from what truncation took of each entry.
LEMMA LogitOfVectors == QkInv => LogitIsTheVectors
<1> SUFFICES ASSUME QkInv, qkStage = "scored" PROVE LogitIsTheVectors BY DEF LogitIsTheVectors
<1> DEFINE x == values.query
           y == values.key
           w == values.weight
           sx == amax(x)
           sy == amax(y)
           a(i) == Truncated(x[i], sx)
           b(i) == Truncated(y[i], sy)
           s == sx * sy
<1>1. x \in Entries \X Entries /\ y \in Entries \X Entries /\ w \in {1, -3} BY DEF QkInv
<1>2. stored = [q |-> Quantized(x), weights |-> index_weights(x, w), k |-> _compress_indexer_rope_int8(y)]
  BY DEF QkInv
<1>3. /\ sx \in Nat \ {0} /\ sy \in Nat \ {0}
      /\ \A i \in 1 .. 2 : /\ x[i] \in Int /\ Magnitude(x[i]) <= sx
                           /\ y[i] \in Int /\ Magnitude(y[i]) <= sy
  BY <1>1, ScaleHolds
<1>4. \A i \in 1 .. 2 : /\ a(i) \in Int /\ Magnitude(a(i)) <= 127
                        /\ Magnitude(sx * a(i)) <= 127 * sx /\ Magnitude(sx * a(i) - (127 * x[i])) <= sx
  <2> HIDE DEF sx
  <2> QED BY <1>3, TruncatedEntry
<1>5. \A i \in 1 .. 2 : /\ b(i) \in Int /\ Magnitude(b(i)) <= 127
                        /\ Magnitude(sy * b(i) - (127 * y[i])) <= sy
  <2> HIDE DEF sy
  <2> QED BY <1>3, TruncatedEntry
<1>6. stored.q = << a(1), a(2) >> /\ stored.weights = w * sx BY <1>2 DEF Quantized, index_weights
<1>7. stored.k.bytes = << b(1), b(2) >> /\ stored.k.scale = sy
  <2>1. Quantized(y) = << b(1), b(2) >> BY DEF Quantized
  <2>2. \A n \in Int : Magnitude(n) <= 127 => Lesser(Greater(n, -127), 127) = n
    BY DEF Magnitude, Lesser, Greater
  <2>3. b(1) \in Int /\ Magnitude(b(1)) <= 127 /\ b(2) \in Int /\ Magnitude(b(2)) <= 127 BY <1>5
  <2> HIDE DEF b
  <2> QED BY <1>2, <2>1, <2>2, <2>3 DEF _compress_indexer_rope_int8
<1>8. \A i \in 1 .. 2 : Magnitude(((sx * a(i)) * (sy * b(i))) - ((127 * x[i]) * (127 * y[i]))) <= 254 * s
  <2> SUFFICES ASSUME NEW i \in 1 .. 2
               PROVE  Magnitude(((sx * a(i)) * (sy * b(i))) - ((127 * x[i]) * (127 * y[i]))) <= 254 * s
    OBVIOUS
  <2> DEFINE p == sx * a(i)
             q == sy * b(i)
             u == 127 * x[i]
             v == 127 * y[i]
  <2>1. p \in Int /\ q \in Int /\ u \in Int /\ v \in Int BY <1>3, <1>4, <1>5
  <2>2. Magnitude(p) <= 127 * sx /\ Magnitude(p - u) <= sx /\ Magnitude(q - v) <= sy BY <1>4, <1>5
  <2>3. Magnitude(v) <= 127 * sy BY <1>3 DEF Magnitude
  <2>4. sx \in Nat /\ sy \in Nat BY <1>3
  <2>5. Magnitude(p * q - (u * v)) <= 254 * (sx * sy)
    <3> HIDE DEF p, q, u, v, sx, sy
    <3>1. Magnitude(p) <= 127 * sx BY <2>2
    <3>2. Magnitude(p - u) <= sx BY <2>2
    <3>3. Magnitude(q - v) <= sy BY <2>2
    <3> QED BY <2>1, <2>3, <2>4, <3>1, <3>2, <3>3, ProductNear, ZenonT(40)
  <2> QED BY <2>5
<1> DEFINE D(i) == ((sx * a(i)) * (sy * b(i))) - ((127 * x[i]) * (127 * y[i]))
           Exact == w * (x[1] * y[1] + x[2] * y[2])
           Scored == (w * sx) * sy * (a(1) * b(1) + a(2) * b(2))
<1>9. Scored - 127 * 127 * Exact = w * (D(1) + D(2))
  <2>1. /\ w \in Int /\ sx \in Int /\ sy \in Int /\ x[1] \in Int /\ x[2] \in Int /\ y[1] \in Int /\ y[2] \in Int
        /\ a(1) \in Int /\ a(2) \in Int /\ b(1) \in Int /\ b(2) \in Int
    BY <1>1, <1>3, <1>4, <1>5
  <2> HIDE DEF sx, sy, a, b, x, y, w
  <2> QED BY <2>1
<1>10. Magnitude(w * (D(1) + D(2))) <= Magnitude(w) * (508 * s)
  <2>1. D(1) \in Int /\ D(2) \in Int /\ s \in Nat /\ w \in Int /\ Magnitude(w) \in Nat
    BY <1>1, <1>3, <1>4, <1>5 DEF Magnitude
  <2>2. Magnitude(D(1)) <= 254 * s /\ Magnitude(D(2)) <= 254 * s BY <1>8
  <2> HIDE DEF D, s, w
  <2>3. Magnitude(D(1) + D(2)) <= 508 * s BY <2>1, <2>2 DEF Magnitude
  <2>4. D(1) + D(2) \in Int /\ 508 * s \in Nat BY <2>1
  <2> QED BY <2>1, <2>3, <2>4, ProductWithin
<1>11. Magnitude(w) * (508 * s) = 4 * 127 * Magnitude(w) * sx * sy
  <2>1. sx \in Int /\ sy \in Int /\ Magnitude(w) \in Int BY <1>1, <1>3 DEF Magnitude
  <2> HIDE DEF sx, sy, w
  <2> QED BY <2>1
<1>12. \A i \in 1 .. 2 : Magnitude(stored.q[i]) <= 127
  BY <1>4, <1>6
<1>13. /\ values.weight * (values.query[1] * values.key[1] + values.query[2] * values.key[2]) = Exact
       /\ stored.weights * stored.k.scale
            * (stored.q[1] * stored.k.bytes[1] + stored.q[2] * stored.k.bytes[2]) = Scored
  BY <1>6, <1>7
<1> HIDE DEF Exact, Scored, D
<1>14. Magnitude(Scored - 127 * 127 * Exact) <= 4 * 127 * Magnitude(w) * sx * sy
  BY <1>9, <1>10, <1>11
<1> QED BY <1>12, <1>13, <1>14 DEF LogitIsTheVectors

\* A weighed logit of the int8 vectors is that of the vectors themselves, to within what the
\* truncation of each entry takes, and every entry fits its byte: for any entries.
THEOREM LogitsAreTheVectors == QuantizedSpec => []LogitIsTheVectors
BY KeysAreStored, LogitOfVectors, PTL

\* A float within E4M3 as a normal number.
NormalFloat(x) ==
  /\ x.sign \in {0, 1} /\ x.exp \in 121 .. 135 /\ x.mant \in Nat /\ x.mant < 2^23
  /\ x.exp = 135 => x.mant <= 3 * 2^21

\* The carry of a rounded mantissa makes the next byte, as if nothing had been carried.
LEMMA NormalByte ==
  ASSUME NEW x, NormalFloat(x)
  PROVE  _encode_e4m3fn(x) =
           << x.sign, ((x.exp - 120) * 8) + (x.mant \div 2^20) + Bit(round_up_n(x)) >>
<1> DEFINE r == Bit(round_up_n(x))
           q == x.mant \div 2^20
           n == NormalPath(x)
<1>1. r \in {0, 1} BY DEF Bit
<1>2. q \in 0 .. 7 BY DEF NormalFloat
<1>3. fp8_exp_normal(x) = x.exp - 120 /\ x.exp - 120 \in 1 .. 15 BY DEF fp8_exp_normal, NormalFloat
<1>4. n = [exp |-> (x.exp - 120) + Bit(q + r >= 8), mant |-> IF q + r >= 8 THEN 0 ELSE q + r]
  BY <1>3 DEF NormalPath
<1>5. x.exp - 120 = 15 => q + r <= 6
  <2> SUFFICES ASSUME x.exp - 120 = 15 PROVE q + r <= 6 OBVIOUS
  <2>1. x.mant \in Nat /\ x.mant <= 6291456 BY <1>3 DEF NormalFloat
  <2>2. CASE q <= 5 BY <1>1, <1>2, <2>2
  <2>3. CASE q > 5
    <3>1. x.mant = 6291456 /\ q = 6 BY <2>1, <2>3
    <3>2. x.mant % 2^20 = 0 BY <3>1
    <3>3. ~ round_up_n(x) BY <3>2 DEF round_up_n
    <3> QED BY <3>1, <3>3 DEF Bit
  <2> QED BY <1>2, <2>2, <2>3
<1>6. _encode_e4m3fn(x) =
        << x.sign, IF x.exp = 0 /\ x.mant = 0 THEN 0
                   ELSE (Lesser(Greater(n.exp, 0), 15) * 8) + (n.mant % 8) >>
  BY <1>3 DEF _encode_e4m3fn
<1>7. x.exp # 0 BY DEF NormalFloat
<1> HIDE DEF r, q, n
<1>8. CASE q + r >= 8
  <2>1. n.exp = (x.exp - 120) + 1 /\ n.mant = 0 /\ q + r = 8 BY <1>1, <1>2, <1>4, <1>8 DEF Bit
  <2>2. n.exp \in 1 .. 15 BY <1>3, <1>5, <1>8, <2>1
  <2>3. Lesser(Greater(n.exp, 0), 15) = n.exp BY <2>2 DEF Lesser, Greater
  <2>4. (Lesser(Greater(n.exp, 0), 15) * 8) + (n.mant % 8) = ((x.exp - 120) * 8) + q + r
    BY <1>1, <1>2, <1>3, <2>1, <2>3
  <2> QED BY <1>6, <1>7, <2>4 DEF r, q
<1>9. CASE ~ (q + r >= 8)
  <2>1. n.exp = x.exp - 120 /\ n.mant = q + r /\ q + r \in 0 .. 7 BY <1>1, <1>2, <1>3, <1>4, <1>9 DEF Bit
  <2>3. Lesser(Greater(n.exp, 0), 15) = n.exp BY <1>3, <2>1 DEF Lesser, Greater
  <2>4. (Lesser(Greater(n.exp, 0), 15) * 8) + (n.mant % 8) = ((x.exp - 120) * 8) + q + r
    BY <1>1, <1>2, <1>3, <2>1, <2>3
  <2> QED BY <1>6, <1>7, <2>4 DEF r, q
<1> QED BY <1>8, <1>9

\* The powers of two of a normal number's last places.
LEMMA PowersOfTwo ==
  /\ \A n : n = 19 => 2^n = 524288
  /\ \A n : n = 20 => 2^n = 1048576
  /\ \A n : n = 21 => 2^n = 2097152
<1>1. \A n : n = 19 => 2^n = 524288 BY SMT
<1>2. \A n : n = 20 => 2^n = 1048576 BY SMT
<1>3. \A n : n = 21 => 2^n = 2097152 BY SMT
<1> QED BY SMT, <1>1, <1>2, <1>3

\* What a byte is read as, in the unit of a float that is a normal number.
LEMMA DecodeNormal ==
  ASSUME NEW b \in Nat, NEW unit \in 121 .. 135, NEW d \in {-1, 0, 1},
         b \div 8 = (unit - 120) + d
  PROVE  /\ d = 0 => _decode_e4m3fn(b, unit) = (8 + (b % 8)) * 1048576
         /\ d = 1 => _decode_e4m3fn(b, unit) = (8 + (b % 8)) * 2097152
         /\ d = -1 /\ b \div 8 >= 1 => _decode_e4m3fn(b, unit) = (8 + (b % 8)) * 524288
         /\ d = -1 /\ b \div 8 = 0 => _decode_e4m3fn(b, unit) = (b % 8) * 1048576
<1>1. CASE b \div 8 >= 1
  <2>1. \E n : n = (b \div 8) + 140 - unit /\ _decode_e4m3fn(b, unit) = (8 + (b % 8)) * 2^n
    BY SMT, <1>1 DEF _decode_e4m3fn
  <2>2. PICK n : n = (b \div 8) + 140 - unit /\ _decode_e4m3fn(b, unit) = (8 + (b % 8)) * 2^n BY <2>1
  <2>3. n = 20 + d BY SMT, <2>2
  <2>4. (d = 0 => 2^n = 1048576) /\ (d = 1 => 2^n = 2097152) /\ (d = -1 => 2^n = 524288)
    BY SMT, <2>3, PowersOfTwo
  <2> QED BY SMT, <1>1, <2>2, <2>4
<1>2. CASE ~ (b \div 8 >= 1)
  <2>1. b \div 8 = 0 /\ d = -1 /\ unit = 121 BY SMT, <1>2
  <2>2. \E n : n = 1 + 140 - unit /\ _decode_e4m3fn(b, unit) = (b % 8) * 2^n
    <3>1. b \div 8 = 0 BY <2>1
    <3> QED BY <3>1, Zenon DEF _decode_e4m3fn
  <2>3. PICK n : n = 1 + 140 - unit /\ _decode_e4m3fn(b, unit) = (b % 8) * 2^n BY <2>2
  <2>4. n = 20 BY SMT, <2>1, <2>3
  <2>5. 2^n = 1048576 BY SMT, <2>4, PowersOfTwo
  <2> QED BY SMT, <2>1, <2>3, <2>5
<1> QED BY SMT, <1>1, <1>2

\* How far a byte is from a float, in the float's unit.
ByteError(b, x) == Magnitude(_decode_e4m3fn(b, x.exp) - (2^23 + x.mant))

\* No byte is nearer, and none but an odd one as near.
NearestByte(b, x) ==
  \A c \in {b - 1, b + 1} \cap 0 .. 126 :
    /\ ByteError(b, x) <= ByteError(c, x)
    /\ ByteError(b, x) = ByteError(c, x) => b % 2 = 0

\* The byte of a normal number is the nearest.
LEMMA NormalNearest ==
  ASSUME NEW x, NormalFloat(x)
  PROVE  /\ _encode_e4m3fn(x)[1] = x.sign
         /\ _encode_e4m3fn(x)[2] \in 0 .. 126 /\ NearestByte(_encode_e4m3fn(x)[2], x)
<1> DEFINE r == Bit(round_up_n(x))
           q == x.mant \div 2^20
           t == x.mant % 2^20
           E == x.exp - 120
           B == (E * 8) + q + r
           m == x.mant
           v == 8388608 + m
           D(b) == _decode_e4m3fn(b, x.exp)
<1>1. _encode_e4m3fn(x)[1] = x.sign /\ _encode_e4m3fn(x)[2] = B BY NormalByte
<1>20. m \in Nat /\ m < 8388608 /\ x.exp \in 121 .. 135 /\ (x.exp = 135 => m <= 6291456)
  BY SMT DEF NormalFloat
<1>21. q = m \div 1048576 /\ t = m % 1048576
  <2>1. 2^20 = 1048576 BY SMT
  <2> QED BY <2>1
<1>22. r = 1 <=> t > 524288 \/ (t = 524288 /\ q % 2 = 1)
  <2>1. 2^19 = 524288 BY SMT
  <2> HIDE DEF t, q
  <2>2. round_up_n(x) <=> t > 2^19 \/ (t = 2^19 /\ q % 2 = 1) BY DEF round_up_n, t, q
  <2> QED BY SMT, <2>1, <2>2 DEF Bit
<1>23. r \in {0, 1} BY DEF Bit
<1>24. ByteError(B, x) = Magnitude(D(B) - v) /\ ByteError(B + 1, x) = Magnitude(D(B + 1) - v)
       /\ ByteError(B - 1, x) = Magnitude(D(B - 1) - v)
  <2>1. 2^23 = 8388608 BY SMT
  <2> QED BY <2>1 DEF ByteError
<1>25. E = x.exp - 120 /\ B = (E * 8) + q + r /\ v = 8388608 + m OBVIOUS
<1>26. /\ D(B) = _decode_e4m3fn(B, x.exp) /\ D(B + 1) = _decode_e4m3fn(B + 1, x.exp)
       /\ D(B - 1) = _decode_e4m3fn(B - 1, x.exp)
  OBVIOUS
<1> DEFINE unit == x.exp
<1>27. unit \in 121 .. 135 /\ E = unit - 120 /\ (unit = 135 => m <= 6291456) BY SMT, <1>20, <1>25
<1>28. /\ D(B) = _decode_e4m3fn(B, unit) /\ D(B + 1) = _decode_e4m3fn(B + 1, unit)
       /\ D(B - 1) = _decode_e4m3fn(B - 1, unit)
  BY SMT, <1>26
<1> HIDE DEF r, q, t, m, E, v, D, B, unit
<1>2. q \in 0 .. 7 /\ t \in Nat /\ t < 1048576 /\ m = (q * 1048576) + t /\ m \in Nat BY SMT, <1>20, <1>21
<1>3. q + r \in 0 .. 8 /\ (unit = 135 => q + r <= 6) BY SMT, <1>2, <1>22, <1>23, <1>27
<1> DEFINE n == q + r
<1>4. n \in 0 .. 8 /\ (unit = 135 => n <= 6) /\ B = (E * 8) + n BY SMT, <1>2, <1>3, <1>23, <1>25, <1>27
<1> HIDE DEF n
<1>5. B \in 8 .. 126 BY SMT, <1>4, <1>27
<1>6. D(B) = (8 + n) * 1048576
  <2>1. CASE n <= 7
    <3>1. B \div 8 = (unit - 120) + 0 /\ B % 8 = n BY SMT, <2>1, <1>4, <1>27
    <3> QED BY SMT, <3>1, <1>27, <1>5, <1>28, DecodeNormal
  <2>2. CASE n = 8
    <3>1. B \div 8 = (unit - 120) + 1 /\ B % 8 = 0 BY SMT, <2>2, <1>4, <1>27
    <3> QED BY SMT, <3>1, <2>2, <1>27, <1>5, <1>28, DecodeNormal
  <2> QED BY SMT, <2>1, <2>2, <1>4
<1>7. D(B + 1) = IF n <= 7 THEN (9 + n) * 1048576 ELSE 18 * 1048576
  <2>0. B + 1 \in Nat BY SMT, <1>5
  <2>1. CASE n <= 6
    <3>1. (B + 1) \div 8 = (unit - 120) + 0 /\ (B + 1) % 8 = n + 1 BY SMT, <2>1, <1>4, <1>27
    <3> QED BY SMT, <3>1, <1>4, <1>27, <1>28, <2>0, <2>1, DecodeNormal
  <2>2. CASE n = 7
    <3>1. (B + 1) \div 8 = (unit - 120) + 1 /\ (B + 1) % 8 = 0 BY SMT, <2>2, <1>4, <1>27
    <3> QED BY SMT, <3>1, <2>2, <1>27, <1>28, <2>0, DecodeNormal
  <2>3. CASE n = 8
    <3>1. (B + 1) \div 8 = (unit - 120) + 1 /\ (B + 1) % 8 = 1 BY SMT, <2>3, <1>4, <1>27
    <3> QED BY SMT, <3>1, <2>3, <1>27, <1>28, <2>0, DecodeNormal
  <2> QED BY SMT, <2>1, <2>2, <2>3, <1>4
<1>8. D(B - 1) = IF n >= 1 THEN (7 + n) * 1048576 ELSE IF E > 1 THEN 15 * 524288 ELSE 7 * 1048576
  <2>0. B - 1 \in Nat BY SMT, <1>5
  <2>1. CASE n >= 1
    <3>1. (B - 1) \div 8 = (unit - 120) + 0 /\ (B - 1) % 8 = n - 1 BY SMT, <2>1, <1>4, <1>27
    <3> QED BY SMT, <3>1, <1>4, <1>27, <1>28, <2>0, <2>1, DecodeNormal
  <2>2. CASE n = 0
    <3>1. (B - 1) \div 8 = (unit - 120) + (-1) /\ (B - 1) % 8 = 7 /\ (B - 1) \div 8 = E - 1
      BY SMT, <2>2, <1>4, <1>27
    <3> QED BY SMT, <3>1, <2>2, <1>27, <1>28, <2>0, DecodeNormal
  <2> QED BY SMT, <2>1, <2>2, <1>4
<1>9. B % 2 = n % 2 BY SMT, <1>4, <1>27
<1>10. v = ((8 + q) * 1048576) + t /\ n = q + r BY SMT, <1>2, <1>25 DEF n
<1>11. ByteError(B, x) = IF r = 0 THEN t ELSE 1048576 - t
  BY SMT, <1>2, <1>23, <1>6, <1>24, <1>10 DEF Magnitude
<1>12. ByteError(B + 1, x) \in Int /\ ByteError(B + 1, x) >= 1048576 - t /\ (ByteError(B + 1, x) = 1048576 - t => r = 0)
  BY SMT, <1>2, <1>4, <1>22, <1>23, <1>7, <1>24, <1>10 DEF Magnitude
<1>13. ByteError(B - 1, x) \in Int /\ ByteError(B - 1, x) >= t /\ (ByteError(B - 1, x) = t => r = 1)
  BY SMT, <1>2, <1>4, <1>22, <1>23, <1>8, <1>24, <1>10, <1>27 DEF Magnitude
<1>14. /\ ByteError(B, x) <= ByteError(B + 1, x) /\ ByteError(B, x) <= ByteError(B - 1, x)
       /\ ByteError(B, x) = ByteError(B + 1, x) => B % 2 = 0
       /\ ByteError(B, x) = ByteError(B - 1, x) => B % 2 = 0
  <2>1. CASE r = 0
    <3>1. ByteError(B, x) = t /\ t <= 524288 /\ (t = 524288 => q % 2 = 0) /\ n = q
      BY SMT, <2>1, <1>2, <1>10, <1>11, <1>22
    <3> QED BY SMT, <1>2, <1>9, <1>12, <1>13, <2>1, <3>1
  <2>2. CASE r = 1
    <3>1. ByteError(B, x) = 1048576 - t /\ t >= 524288 /\ (t = 524288 => q % 2 = 1) /\ n = q + 1
      BY SMT, <2>2, <1>2, <1>10, <1>11, <1>22
    <3>2. q % 2 = 1 => n % 2 = 0 BY SMT, <1>2, <3>1
    <3> QED BY SMT, <1>2, <1>9, <1>12, <1>13, <2>2, <3>1, <3>2
  <2> QED BY SMT, <1>23, <2>1, <2>2
<1>15. NearestByte(B, x) BY <1>14 DEF NearestByte
<1> QED BY SMT, <1>1, <1>5, <1>15

\* A float that is below E4M3's normal numbers, and how it is rounded.
SubnormalFloat(x) ==
  /\ x.sign \in {0, 1} /\ x.exp \in 64 .. 120 /\ x.mant \in Nat /\ x.mant < 2^23

ShiftOf(x) == Lesser(Greater(141 - x.exp, 1), 31)
ShiftedBy(x, n) == IF n >= 24 THEN 0 ELSE (2^23 + x.mant) \div 2^n
Sticky(x, n) == IF n >= 24 THEN TRUE ELSE (2^23 + x.mant) % 2^n # 0
Rounded(x, n) ==
  ShiftedBy(x, n) + Bit(ShiftedBy(x, n - 1) % 2 = 1 /\ (Sticky(x, n - 1) \/ ShiftedBy(x, n) % 2 = 1))

\* A rounded multiple below the normal numbers is its own byte, the carry to them included.
LEMMA SubnormalByte ==
  ASSUME NEW x, SubnormalFloat(x), NEW n \in 0 .. 8, n = Rounded(x, ShiftOf(x))
  PROVE  _encode_e4m3fn(x) = << x.sign, n >>
<1> DEFINE p == SubnormalPath(x)
<1>1. p = [exp |-> Bit(n >= 8), mant |-> IF n >= 8 THEN 0 ELSE n % 8]
  BY ZenonT(40) DEF SubnormalPath, Rounded, ShiftedBy, Sticky, ShiftOf
<1>2. fp8_exp_normal(x) <= 0 /\ x.exp # 0 BY DEF fp8_exp_normal, SubnormalFloat
<1>3. _encode_e4m3fn(x) =
        << x.sign, IF x.exp = 0 /\ x.mant = 0 THEN 0
                   ELSE (Lesser(Greater(p.exp, 0), 15) * 8) + (p.mant % 8) >>
  BY <1>2 DEF _encode_e4m3fn
<1>4. p.exp = Bit(n >= 8) /\ p.mant = IF n >= 8 THEN 0 ELSE n % 8 BY <1>1
<1> HIDE DEF p
<1>5. (Lesser(Greater(p.exp, 0), 15) * 8) + (p.mant % 8) = n
  <2>1. CASE n = 8 BY <1>4, <2>1 DEF Bit, Lesser, Greater
  <2>2. CASE n \in 0 .. 7
    <3>1. p.exp = 0 /\ p.mant = n /\ n % 8 = n BY <1>4, <2>2 DEF Bit
    <3> QED BY <3>1 DEF Lesser, Greater
  <2> QED BY <2>1, <2>2
<1> QED BY <1>2, <1>3, <1>5

\* A number between two multiples of p, and the one it is rounded to: the nearest, the
\* even one where two are as near.
RoundsTo(n, v, half, p, T, R) ==
  /\ half \in Nat \ {0} /\ p \in Nat /\ p = half + half /\ T \in Nat /\ R \in Nat /\ R < p
  /\ v \in Nat /\ v = (T * p) + R
  /\ n \in Nat /\ n = T + Bit(R > half \/ (R = half /\ T % 2 = 1))

\* The rounded multiple is no farther than its neighbours, and even where one is as near.
LEMMA NearestMultiple ==
  ASSUME NEW n, NEW v, NEW half, NEW p, NEW T, NEW R, RoundsTo(n, v, half, p, T, R)
  PROVE  /\ Magnitude((n * p) - v) <= Magnitude(((n + 1) * p) - v)
         /\ Magnitude((n * p) - v) <= Magnitude(((n - 1) * p) - v)
         /\ Magnitude((n * p) - v) = Magnitude(((n + 1) * p) - v) => n % 2 = 0
         /\ Magnitude((n * p) - v) = Magnitude(((n - 1) * p) - v) => n % 2 = 0
<1> USE DEF RoundsTo
<1> DEFINE w == T * p
<1>1. w \in Nat /\ v = w + R OBVIOUS
<1>2. (T + 1) * p = w + p /\ (T - 1) * p = w - p /\ (T + 2) * p = w + p + p OBVIOUS
<1>3. CASE R > half \/ (R = half /\ T % 2 = 1)
  <2>1. n = T + 1 /\ n - 1 = T /\ n + 1 = T + 2 BY <1>3 DEF Bit
  <2>2. n * p = w + p /\ (n + 1) * p = w + p + p /\ (n - 1) * p = w BY <1>2, <2>1
  <2>3. R = half => n % 2 = 0 BY <1>3, <2>1
  <2> HIDE DEF w
  <2> QED BY <1>1, <1>3, <2>2, <2>3 DEF Magnitude
<1>4. CASE ~ (R > half \/ (R = half /\ T % 2 = 1))
  <2>1. n = T /\ n - 1 = T - 1 /\ n + 1 = T + 1 BY <1>4 DEF Bit
  <2>2. n * p = w /\ (n + 1) * p = w + p /\ (n - 1) * p = w - p BY <1>2, <2>1
  <2>3. R = half => n % 2 = 0 BY <1>4, <2>1
  <2> HIDE DEF w
  <2> QED BY <1>1, <1>4, <2>2, <2>3 DEF Magnitude
<1> QED BY <1>3, <1>4

\* The first bits of a number below 2^24, the next one, and whether there are others.
LEMMA Halves ==
  ASSUME NEW v \in Nat, v >= 8388608, v < 16777216
  PROVE  /\ (v \div 1048576) % 2 = 1 <=> v % 2097152 >= 1048576
         /\ (v \div 2097152) % 2 = 1 <=> v % 4194304 >= 2097152
         /\ (v \div 4194304) % 2 = 1 <=> v % 8388608 >= 4194304
         /\ v \div 8388608 = 1
         /\ v % 2097152 >= 1048576 => (v % 1048576 # 0 <=> v % 2097152 > 1048576)
         /\ v % 4194304 >= 2097152 => (v % 2097152 # 0 <=> v % 4194304 > 2097152)
         /\ v % 8388608 >= 4194304 => (v % 4194304 # 0 <=> v % 8388608 > 4194304)
         /\ v % 8388608 # 0 <=> v > 8388608
<1>1. (v \div 1048576) % 2 = 1 <=> v % 2097152 >= 1048576 BY SMT
<1>2. (v \div 2097152) % 2 = 1 <=> v % 4194304 >= 2097152 BY SMT
<1>3. (v \div 4194304) % 2 = 1 <=> v % 8388608 >= 4194304 BY SMT
<1>4. v \div 8388608 = 1 BY SMT
<1>5. v % 2097152 >= 1048576 => (v % 1048576 # 0 <=> v % 2097152 > 1048576) BY SMT
<1>6. v % 4194304 >= 2097152 => (v % 2097152 # 0 <=> v % 4194304 > 2097152) BY SMT
<1>7. v % 8388608 >= 4194304 => (v % 4194304 # 0 <=> v % 8388608 > 4194304) BY SMT
<1>8. v % 8388608 # 0 <=> v > 8388608 BY SMT
<1> QED BY SMT, <1>1, <1>2, <1>3, <1>4, <1>5, <1>6, <1>7, <1>8

\* The shifts: what is left of the float's first bits, and of which a half decides.
LEMMA RoundedMultiple ==
  ASSUME NEW x, SubnormalFloat(x), NEW v \in Nat, v = 8388608 + x.mant
  PROVE  /\ x.exp = 120 => Rounded(x, ShiftOf(x)) =
              (v \div 2097152) + Bit(v % 2097152 > 1048576 \/ (v % 2097152 = 1048576 /\ (v \div 2097152) % 2 = 1))
         /\ x.exp = 119 => Rounded(x, ShiftOf(x)) =
              (v \div 4194304) + Bit(v % 4194304 > 2097152 \/ (v % 4194304 = 2097152 /\ (v \div 4194304) % 2 = 1))
         /\ x.exp = 118 => Rounded(x, ShiftOf(x)) =
              (v \div 8388608) + Bit(v % 8388608 > 4194304 \/ (v % 8388608 = 4194304 /\ (v \div 8388608) % 2 = 1))
         /\ x.exp = 117 => Rounded(x, ShiftOf(x)) = Bit(v > 8388608)
         /\ x.exp < 117 => Rounded(x, ShiftOf(x)) = 0
<1>1. v = 2^23 + x.mant /\ v >= 8388608 /\ v < 16777216
  <2>1. 2^23 = 8388608 BY SMT
  <2> QED BY <2>1, SMT DEF SubnormalFloat
<1>2. CASE x.exp = 120
  <2>1. ShiftOf(x) = 21 /\ ShiftOf(x) - 1 = 20 BY <1>2 DEF ShiftOf, Lesser, Greater
  <2>2. 2^21 = 2097152 /\ 2^20 = 1048576 BY SMT
  <2>3. /\ ShiftedBy(x, 21) = v \div 2097152 /\ ShiftedBy(x, 20) = v \div 1048576
        /\ Sticky(x, 20) <=> v % 1048576 # 0
    BY <1>1, <2>2 DEF ShiftedBy, Sticky
  <2>4. Bit(ShiftedBy(x, 20) % 2 = 1 /\ (Sticky(x, 20) \/ ShiftedBy(x, 21) % 2 = 1))
          = Bit(v % 2097152 > 1048576 \/ (v % 2097152 = 1048576 /\ (v \div 2097152) % 2 = 1))
    BY SMT, <1>1, <2>3, Halves DEF Bit
  <2> QED BY SMT, <1>2, <2>1, <2>3, <2>4 DEF Rounded
<1>3. CASE x.exp = 119
  <2>1. ShiftOf(x) = 22 /\ ShiftOf(x) - 1 = 21 BY <1>3 DEF ShiftOf, Lesser, Greater
  <2>2. 2^22 = 4194304 /\ 2^21 = 2097152 BY SMT
  <2>3. /\ ShiftedBy(x, 22) = v \div 4194304 /\ ShiftedBy(x, 21) = v \div 2097152
        /\ Sticky(x, 21) <=> v % 2097152 # 0
    BY <1>1, <2>2 DEF ShiftedBy, Sticky
  <2>4. Bit(ShiftedBy(x, 21) % 2 = 1 /\ (Sticky(x, 21) \/ ShiftedBy(x, 22) % 2 = 1))
          = Bit(v % 4194304 > 2097152 \/ (v % 4194304 = 2097152 /\ (v \div 4194304) % 2 = 1))
    BY SMT, <1>1, <2>3, Halves DEF Bit
  <2> QED BY SMT, <1>3, <2>1, <2>3, <2>4 DEF Rounded
<1>4. CASE x.exp = 118
  <2>1. ShiftOf(x) = 23 /\ ShiftOf(x) - 1 = 22 BY <1>4 DEF ShiftOf, Lesser, Greater
  <2>2. 2^23 = 8388608 /\ 2^22 = 4194304 BY SMT
  <2>3. /\ ShiftedBy(x, 23) = v \div 8388608 /\ ShiftedBy(x, 22) = v \div 4194304
        /\ Sticky(x, 22) <=> v % 4194304 # 0
    BY <1>1, <2>2 DEF ShiftedBy, Sticky
  <2>4. Bit(ShiftedBy(x, 22) % 2 = 1 /\ (Sticky(x, 22) \/ ShiftedBy(x, 23) % 2 = 1))
          = Bit(v % 8388608 > 4194304 \/ (v % 8388608 = 4194304 /\ (v \div 8388608) % 2 = 1))
    BY SMT, <1>1, <2>3, Halves DEF Bit
  <2> QED BY SMT, <1>4, <2>1, <2>3, <2>4 DEF Rounded
<1>5. CASE x.exp = 117
  <2>1. ShiftOf(x) = 24 /\ ShiftOf(x) - 1 = 23 BY <1>5 DEF ShiftOf, Lesser, Greater
  <2>2. 2^23 = 8388608 BY SMT
  <2>3. /\ ShiftedBy(x, 24) = 0 /\ ShiftedBy(x, 23) = v \div 8388608
        /\ Sticky(x, 23) <=> v % 8388608 # 0
    BY <1>1, <2>2 DEF ShiftedBy, Sticky
  <2>4. Bit(ShiftedBy(x, 23) % 2 = 1 /\ (Sticky(x, 23) \/ ShiftedBy(x, 24) % 2 = 1)) = Bit(v > 8388608)
    BY SMT, <1>1, <2>3, Halves DEF Bit
  <2> QED BY SMT, <1>5, <2>1, <2>3, <2>4 DEF Rounded, Bit
<1>6. CASE x.exp < 117
  <2>1. ShiftOf(x) \in 25 .. 31 /\ ShiftOf(x) - 1 >= 24 BY <1>6 DEF ShiftOf, Lesser, Greater, SubnormalFloat
  <2>2. ShiftedBy(x, ShiftOf(x)) = 0 /\ ShiftedBy(x, ShiftOf(x) - 1) = 0 BY <2>1 DEF ShiftedBy
  <2> QED BY <1>6, <2>2 DEF Rounded, Bit
<1> QED BY SMT, <1>2, <1>3, <1>4, <1>5, <1>6

\* What a byte of a subnormal number, or of the first normal ones, is read as.
LEMMA DecodeSubnormal ==
  ASSUME NEW b \in 0 .. 15, NEW unit \in Int
  PROVE  \E k : k = 1 + 140 - unit /\ _decode_e4m3fn(b, unit) = b * 2^k
<1>1. CASE b \div 8 = 0
  <2>1. b % 8 = b BY <1>1
  <2>2. _decode_e4m3fn(b, unit) = (b % 8) * 2^(1 + 140 - unit) BY <1>1, Zenon DEF _decode_e4m3fn
  <2> QED BY <2>1, <2>2, Zenon
<1>2. CASE b \div 8 # 0
  <2>1. b \div 8 = 1 /\ 8 + (b % 8) = b BY <1>2
  <2>2. _decode_e4m3fn(b, unit) = (8 + (b % 8)) * 2^((b \div 8) + 140 - unit)
    BY <1>2, Zenon DEF _decode_e4m3fn
  <2> QED BY <2>1, <2>2, Zenon
<1> QED BY <1>1, <1>2

\* The powers of two of a subnormal number's last places.
LEMMA LargerPowers ==
  /\ \A n : n = 21 => 2^n = 2097152
  /\ \A n : n = 22 => 2^n = 4194304
  /\ \A n : n = 23 => 2^n = 8388608
  /\ \A n : n = 24 => 2^n = 16777216
  /\ \A n : n = 25 => 2^n = 33554432
  /\ \A n : n = 26 => 2^n = 67108864
  /\ \A n : n = 27 => 2^n = 134217728
  /\ \A n : n = 28 => 2^n = 268435456
  /\ \A n : n = 29 => 2^n = 536870912
<1>1. \A n : n = 21 => 2^n = 2097152 BY SMT
<1>2. \A n : n = 22 => 2^n = 4194304 BY SMT
<1>3. \A n : n = 23 => 2^n = 8388608 BY SMT
<1>4. \A n : n = 24 => 2^n = 16777216 BY SMT
<1>5. \A n : n = 25 => 2^n = 33554432 BY SMT
<1>6. \A n : n = 26 => 2^n = 67108864 BY SMT
<1>7. \A n : n = 27 => 2^n = 134217728 BY SMT
<1>8. \A n : n = 28 => 2^n = 268435456 BY SMT
<1>9. \A n : n = 29 => 2^n = 536870912 BY SMT
<1> QED BY SMT, <1>1, <1>2, <1>3, <1>4, <1>5, <1>6, <1>7, <1>8, <1>9

\* A subnormal number is a multiple of a power of two that is twice another.
LEMMA SubnormalNearest ==
  ASSUME NEW x, SubnormalFloat(x)
  PROVE  /\ _encode_e4m3fn(x)[1] = x.sign /\ _encode_e4m3fn(x)[2] \in 0 .. 8
         /\ x.exp < 112 => _encode_e4m3fn(x)[2] = 0
         /\ x.exp >= 112 => NearestByte(_encode_e4m3fn(x)[2], x)
<1> DEFINE v == 8388608 + x.mant
           n == Rounded(x, ShiftOf(x))
           unit == x.exp
<1>1. v \in Nat /\ v >= 8388608 /\ v < 16777216 /\ unit \in 64 .. 120 BY SMT DEF SubnormalFloat
<1>2. /\ unit = 120 => n = (v \div 2097152) + Bit(v % 2097152 > 1048576 \/ (v % 2097152 = 1048576 /\ (v \div 2097152) % 2 = 1))
      /\ unit = 119 => n = (v \div 4194304) + Bit(v % 4194304 > 2097152 \/ (v % 4194304 = 2097152 /\ (v \div 4194304) % 2 = 1))
      /\ unit = 118 => n = (v \div 8388608) + Bit(v % 8388608 > 4194304 \/ (v % 8388608 = 4194304 /\ (v \div 8388608) % 2 = 1))
      /\ unit = 117 => n = Bit(v > 8388608)
      /\ unit < 117 => n = 0
  <2>1. v \in Nat /\ v = 8388608 + x.mant BY <1>1
  <2> HIDE DEF v
  <2> QED BY <2>1, RoundedMultiple
<1> DEFINE Multiple(half, p, T, R) ==
             /\ half \in Nat \ {0} /\ p \in Nat /\ p = half + half /\ T \in Nat /\ R \in Nat /\ R < p
             /\ v = (T * p) + R /\ n = T + Bit(R > half \/ (R = half /\ T % 2 = 1))
             /\ \A k : k = 1 + 140 - unit => 2^k = p
<1> HIDE DEF v, n, unit
<1>3. n \in 0 .. 8
  <2>1. CASE unit = 120 BY SMT, <1>1, <1>2, <2>1 DEF Bit
  <2>2. CASE unit = 119 BY SMT, <1>1, <1>2, <2>2 DEF Bit
  <2>3. CASE unit = 118 BY SMT, <1>1, <1>2, <2>3 DEF Bit
  <2>4. CASE unit = 117 BY SMT, <1>1, <1>2, <2>4 DEF Bit
  <2>5. CASE unit < 117 BY SMT, <1>1, <1>2, <2>5
  <2> QED BY SMT, <1>1, <2>1, <2>2, <2>3, <2>4, <2>5
<1>4. _encode_e4m3fn(x) = << x.sign, n >>
  <2>1. n = Rounded(x, ShiftOf(x)) BY DEF n
  <2> QED BY <1>3, <2>1, SubnormalByte
<1>5. unit >= 112 => \E half, p, T, R : Multiple(half, p, T, R)
  <2> SUFFICES ASSUME unit >= 112 PROVE \E half, p, T, R : Multiple(half, p, T, R) OBVIOUS
  <2>1. CASE unit = 120
    <3>1. \A k : k = 1 + 140 - unit => 2^k = 2097152 BY SMT, <2>1, LargerPowers
    <3>2. Multiple(1048576, 2097152, v \div 2097152, v % 2097152) BY SMT, <1>1, <1>2, <2>1, <3>1
    <3> HIDE DEF Multiple
    <3> QED BY SMT, <3>2
  <2>2. CASE unit = 119
    <3>1. \A k : k = 1 + 140 - unit => 2^k = 4194304 BY SMT, <2>2, LargerPowers
    <3>2. Multiple(2097152, 4194304, v \div 4194304, v % 4194304) BY SMT, <1>1, <1>2, <2>2, <3>1
    <3> HIDE DEF Multiple
    <3> QED BY SMT, <3>2
  <2>3. CASE unit = 118
    <3>1. \A k : k = 1 + 140 - unit => 2^k = 8388608 BY SMT, <2>3, LargerPowers
    <3>2. Multiple(4194304, 8388608, v \div 8388608, v % 8388608) BY SMT, <1>1, <1>2, <2>3, <3>1
    <3> HIDE DEF Multiple
    <3> QED BY SMT, <3>2
  <2>4. CASE unit = 117
    <3>1. \A k : k = 1 + 140 - unit => 2^k = 16777216 BY SMT, <2>4, LargerPowers
    <3>2. Multiple(8388608, 16777216, 0, v) BY SMT, <1>1, <1>2, <2>4, <3>1 DEF Bit
    <3> HIDE DEF Multiple
    <3> QED BY SMT, <3>2
  <2>5. CASE unit < 117
    <3>1. \A k : k = 1 + 140 - unit =>
            2^k \in {33554432, 67108864, 134217728, 268435456, 536870912}
      BY SMT, <2>5, <1>1, LargerPowers
    <3>2. PICK p : p \in {33554432, 67108864, 134217728, 268435456, 536870912}
                   /\ \A k : k = 1 + 140 - unit => 2^k = p
      BY SMT, <3>1
    <3>3. PICK half \in Nat \ {0} : p = half + half /\ half > v BY SMT, <1>1, <3>2
    <3>4. Multiple(half, p, 0, v) BY SMT, <1>1, <1>2, <2>5, <3>2, <3>3 DEF Bit
    <3> HIDE DEF Multiple
    <3> QED BY SMT, <3>4
  <2> QED BY SMT, <1>1, <2>1, <2>2, <2>3, <2>4, <2>5
<1>6. unit >= 112 => NearestByte(n, x)
  <2> SUFFICES ASSUME unit >= 112 PROVE NearestByte(n, x) OBVIOUS
  <2>1. PICK half, p, T, R : Multiple(half, p, T, R) BY <1>5
  <2>2. /\ Magnitude((n * p) - v) <= Magnitude(((n + 1) * p) - v)
        /\ Magnitude((n * p) - v) <= Magnitude(((n - 1) * p) - v)
        /\ Magnitude((n * p) - v) = Magnitude(((n + 1) * p) - v) => n % 2 = 0
        /\ Magnitude((n * p) - v) = Magnitude(((n - 1) * p) - v) => n % 2 = 0
    <3>1. RoundsTo(n, v, half, p, T, R) BY <1>1, <1>3, <2>1 DEF RoundsTo
    <3> QED BY <3>1, NearestMultiple, Zenon
  <2>3. \A c \in 0 .. 15 : ByteError(c, x) = Magnitude((c * p) - v)
    <3> SUFFICES ASSUME NEW c \in 0 .. 15 PROVE ByteError(c, x) = Magnitude((c * p) - v) OBVIOUS
    <3>1. unit \in Int BY <1>1
    <3>2. PICK k : k = 1 + 140 - unit /\ _decode_e4m3fn(c, unit) = c * 2^k BY <3>1, DecodeSubnormal
    <3>3. 2^k = p BY <2>1, <3>2
    <3>4. 2^23 + x.mant = v
      <4>1. 2^23 = 8388608 BY SMT
      <4> QED BY <4>1 DEF v
    <3> QED BY <3>2, <3>3, <3>4, Zenon DEF ByteError, unit
  <2> SUFFICES ASSUME NEW c \in {n - 1, n + 1} \cap 0 .. 126
               PROVE  /\ ByteError(n, x) <= ByteError(c, x)
                      /\ ByteError(n, x) = ByteError(c, x) => n % 2 = 0
    BY DEF NearestByte
  <2>4. n \in 0 .. 15 /\ c \in 0 .. 15 /\ (c = n - 1 \/ c = n + 1) BY <1>3
  <2>5. ByteError(n, x) = Magnitude((n * p) - v) /\ ByteError(c, x) = Magnitude((c * p) - v) BY <2>3, <2>4
  <2> QED BY <2>2, <2>4, <2>5, Zenon
<1> QED BY SMT, <1>1, <1>2, <1>3, <1>4, <1>6 DEF unit

\* A float that a block holds, zero or not.
BlockFloat(x) ==
  /\ x.sign \in {0, 1} /\ x.mant \in Nat /\ x.mant < 8388608
  /\ x.exp \in 90 .. 160 \/ (x.exp = 0 /\ x.mant = 0)
  /\ x = Float(x.sign, x.exp, x.mant)

\* Every float to be stored is one.
LEMMA FloatsAreOfBlocks == \A x \in Floats : BlockFloat(x)
<1> SUFFICES ASSUME NEW x \in Floats PROVE BlockFloat(x) OBVIOUS
<1>1. CASE \E s \in {0, 1}, e \in Exponents, m \in Mantissas : x = Float(s, e, m)
  <2>1. PICK s \in {0, 1}, e \in Exponents, m \in Mantissas : x = Float(s, e, m) BY <1>1
  <2>2. x.sign = s /\ x.exp = e /\ x.mant = m /\ x = Float(x.sign, x.exp, x.mant) BY <2>1 DEF Float
  <2>3. m \in Nat /\ m < 2^23 /\ e \in 90 .. 160 BY QuantizedAssumption
  <2>4. 2^23 = 8388608 BY SMT
  <2>5. m < 8388608 BY <2>3, <2>4
  <2> HIDE DEF Floats
  <2> QED BY SMT, <2>2, <2>3, <2>5 DEF BlockFloat
<1>2. CASE x = Float(0, 0, 0)
  <2>1. x.sign = 0 /\ x.exp = 0 /\ x.mant = 0 /\ x = Float(x.sign, x.exp, x.mant) BY <1>2 DEF Float
  <2> QED BY SMT, <2>1 DEF BlockFloat
<1> QED BY <1>1, <1>2 DEF Floats

\* The scale of a block: its largest float, or the floor, is brought to the exponent 135 or
\* 134, and to 135 only with a mantissa that E4M3 has, but for eight units of the last place.
LEMMA ScaleOfBlock ==
  ASSUME NEW e \in exponents, BlockFloat(values[1])
  PROVE  /\ block_absmax.exp \in 113 .. 160 /\ block_absmax.mant \in Nat
         /\ AtMost(values[1], block_absmax)
         /\ AtMost(Floor, values[1]) =>
              block_absmax.exp = values[1].exp /\ block_absmax.mant = values[1].mant
         /\ e = block_absmax.exp - 135 \/ e = block_absmax.exp - 134
         /\ e = block_absmax.exp - 135 => block_absmax.mant <= 6291464
         /\ e = block_absmax.exp - 134 => block_absmax.mant >= 6291448
<1> DEFINE A == block_absmax
           x == values[1]
<1>1. Floor.exp = 113 /\ Floor.mant = 5355287 BY SMT DEF Floor, Float
<1>2. AtMost(x, Floor) <=> x.exp < 113 \/ (x.exp = 113 /\ x.mant <= 5355287) BY SMT, <1>1 DEF AtMost
<1>3. AtMost(Floor, x) <=> 113 < x.exp \/ (x.exp = 113 /\ 5355287 <= x.mant) BY SMT, <1>1 DEF AtMost
<1>4. (A = Floor /\ AtMost(x, Floor)) \/ (A = x /\ ~ AtMost(x, Floor)) BY Zenon DEF block_absmax
<1>5. /\ A.exp \in 113 .. 160 /\ A.mant \in Nat
      /\ AtMost(x, A)
      /\ AtMost(Floor, x) => A.exp = x.exp /\ A.mant = x.mant
  <2>1. CASE A = Floor /\ AtMost(x, Floor)
    <3>1. A.exp = 113 /\ A.mant = 5355287 BY <1>1, <2>1
    <3>2. AtMost(x, A) BY <2>1
    <3> HIDE DEF A, x
    <3>3. x.exp \in Int /\ x.mant \in Int BY SMT DEF BlockFloat, x
    <3> QED BY SMT, <1>2, <1>3, <2>1, <3>1, <3>2, <3>3
  <2>2. CASE A = x /\ ~ AtMost(x, Floor)
    <3> HIDE DEF A, x
    <3>1. BlockFloat(x) BY DEF x
    <3>2. x.exp \in 113 .. 160 /\ x.mant \in Nat BY SMT, <1>2, <2>2, <3>1 DEF BlockFloat
    <3>3. AtMost(x, x) BY SMT, <3>2 DEF AtMost
    <3> QED BY <2>2, <3>2, <3>3, Zenon
  <2> QED BY <1>4, <2>1, <2>2
<1>6. 3 * 2^21 = 6291456 
  <2>1. 2^21 = 2097152 BY SMT
  <2> QED BY SMT, <2>1
<1> DEFINE past == A.mant - 3 * 2^21
           exact == A.exp - 135
<1>7. IF Magnitude(past) <= 8 THEN e \in {exact, exact + 1} ELSE e = exact + Bit(past > 0)
  BY Zenon DEF exponents
<1>8. past = A.mant - 6291456 /\ exact = A.exp - 135 BY <1>6
<1> HIDE DEF past, exact, A
<1>9. /\ e = A.exp - 135 \/ e = A.exp - 134
      /\ e = A.exp - 135 => A.mant <= 6291464
      /\ e = A.exp - 134 => A.mant >= 6291448
  BY SMT, <1>5, <1>7, <1>8 DEF Magnitude, Bit
<1> QED BY <1>5, <1>9 DEF A, x

\* A float of the block, scaled, is a number within E4M3, cut to it by eight units of the last
\* place at most.
ScaledFloat(y, x, e) ==
  /\ x.exp \in 90 .. 160 /\ e \in Int
  /\ y.sign = x.sign /\ y.exp = x.exp - e /\ y.exp \in 64 .. 135
  /\ y.mant \in Nat /\ y.mant < 8388608
  /\ y.exp = 135 => y.mant <= 6291456
  /\ x.mant # y.mant => x.mant - y.mant \in 1 .. 8

\* Scaling moves the exponent alone, but for the clamp.
LEMMA ScaledWithin ==
  ASSUME NEW e \in exponents, BlockFloat(values[1]), NEW x, BlockFloat(x), AtMost(x, values[1])
  PROVE  (x.exp = 0 /\ x_clamped(x, e) = x) \/ ScaledFloat(x_clamped(x, e), x, e)
<1> DEFINE A == block_absmax
           w == values[1]
<1>1. /\ A.exp \in 113 .. 160 /\ A.mant \in Nat /\ AtMost(w, A)
      /\ e = A.exp - 135 \/ e = A.exp - 134
      /\ e = A.exp - 135 => A.mant <= 6291464
  BY ScaleOfBlock
<1>2. BlockFloat(w) /\ BlockFloat(x) /\ AtMost(x, w) OBVIOUS
<1> HIDE DEF A, w
<1>3. x.exp <= A.exp /\ (x.exp = A.exp => x.mant <= A.mant) /\ e \in Int
  BY SMTT(40), <1>1, <1>2 DEF BlockFloat, AtMost
<1>4. CASE x.exp = 0 BY <1>4 DEF x_clamped
<1>5. CASE x.exp # 0
  <2>1. x.exp \in 90 .. 160 BY SMT, <1>2, <1>5 DEF BlockFloat
  <2>4. x.mant \in Nat /\ x.mant < 8388608 BY SMT, <1>2 DEF BlockFloat
  <2>2. x.exp - e \in 64 .. 135 /\ (x.exp - e = 135 => x.mant <= 6291464)
    BY SMT, <1>1, <1>3, <2>1, <2>4
  <2>3. 3 * 2^21 = 6291456
    <3>1. 2^21 = 2097152 BY SMT
    <3> QED BY SMT, <3>1
  <2>5. CASE x.exp - e = 135 /\ x.mant > 3 * 2^21
    <3>1. x_clamped(x, e) = Float(x.sign, 135, 3 * 2^21) BY <1>5, <2>5, Zenon DEF x_clamped
    <3>2. /\ x_clamped(x, e).sign = x.sign /\ x_clamped(x, e).exp = 135
          /\ x_clamped(x, e).mant = 6291456
      BY <2>3, <3>1 DEF Float
    <3> QED BY SMT, <1>3, <2>1, <2>2, <2>3, <2>4, <2>5, <3>2 DEF ScaledFloat
  <2>6. CASE ~ (x.exp - e = 135 /\ x.mant > 3 * 2^21)
    <3>1. ~ (x.exp - e > 135) BY <2>2
    <3>2. x_clamped(x, e) = [x EXCEPT !.exp = x.exp - e] BY <1>5, <2>6, <3>1, Zenon DEF x_clamped
    <3>3. /\ x_clamped(x, e).sign = x.sign /\ x_clamped(x, e).exp = x.exp - e
          /\ x_clamped(x, e).mant = x.mant
      <4>1. x = Float(x.sign, x.exp, x.mant) BY <1>2 DEF BlockFloat
      <4>2. "exp" \in DOMAIN x BY <4>1 DEF Float
      <4> QED BY <3>2, <4>2
    <3> QED BY SMT, <1>3, <2>1, <2>2, <2>3, <2>4, <2>6, <3>3 DEF ScaledFloat
  <2> QED BY <2>5, <2>6
<1> QED BY <1>4, <1>5

\* A stored block, scaled and encoded as it was, is read back as the nearest there is.
LEMMA NearestOfBlock == QkInv => StoredIsNearest
<1> SUFFICES ASSUME QkInv, qkStage = "stored" PROVE StoredIsNearest BY DEF StoredIsNearest
<1>1. PICK e \in exponents :
        stored = [bytes |-> << _encode_e4m3fn(x_clamped(values[1], e)),
                               _encode_e4m3fn(x_clamped(values[2], e)) >>,
                  encoded |-> Lesser(Greater(e + 127, 0), 255)]
  BY DEF QkInv
<1>2. BlockFloat(values[1]) /\ BlockFloat(values[2]) /\ AtMost(values[2], values[1])
  <2>1. values \in Floats \X Floats /\ AtMost(values[2], values[1]) BY DEF QkInv
  <2>2. values[1] \in Floats /\ values[2] \in Floats BY <2>1
  <2> QED BY <2>1, <2>2, FloatsAreOfBlocks, Zenon
<1>3. AtMost(values[1], values[1])
  <2>1. values[1].exp \in Int /\ values[1].mant \in Int BY SMT, <1>2 DEF BlockFloat
  <2> QED BY SMT, <2>1 DEF AtMost
<1>4. /\ block_absmax.exp \in 113 .. 160
      /\ AtMost(Floor, values[1]) =>
           block_absmax.exp = values[1].exp /\ block_absmax.mant = values[1].mant
      /\ e = block_absmax.exp - 135 \/ e = block_absmax.exp - 134
      /\ e = block_absmax.exp - 135 => block_absmax.mant <= 6291464
      /\ e = block_absmax.exp - 134 => block_absmax.mant >= 6291448
  BY <1>2, ScaleOfBlock
<1>5. e \in -22 .. 26 BY SMT, <1>4
<1>6. stored.encoded - 127 = e
  <2>1. stored.encoded = Lesser(Greater(e + 127, 0), 255) BY <1>1
  <2> QED BY <1>5, <2>1 DEF Lesser, Greater
<1>7. \A i \in 1 .. 2 : stored.bytes[i] = _encode_e4m3fn(x_clamped(values[i], e)) BY <1>1
<1>8. \A i \in 1 .. 2 : BlockFloat(values[i]) /\ AtMost(values[i], values[1]) BY <1>2, <1>3
<1>9. ASSUME NEW i \in 1 .. 2
      PROVE  LET x == x_clamped(values[i], e)
             IN /\ stored.bytes[i][2] \in 0 .. 126
                /\ stored.bytes[i][1] = values[i].sign
                /\ x.exp < 112 => stored.bytes[i][2] = 0
                /\ x.exp >= 112 => NearestByte(stored.bytes[i][2], x)
                /\ x.mant # values[i].mant => values[i].mant - x.mant \in 1 .. 8
  <2> DEFINE x == x_clamped(values[i], e)
             b == stored.bytes[i]
             w == values[i]
  <2>1. b = _encode_e4m3fn(x) BY <1>7
  <2>2. BlockFloat(w) BY <1>8
  <2>3. (w.exp = 0 /\ x = w) \/ ScaledFloat(x, w, e) BY <1>2, <1>8, ScaledWithin, Zenon
  <2> SUFFICES /\ b[2] \in 0 .. 126
               /\ b[1] = w.sign
               /\ x.exp < 112 => b[2] = 0
               /\ x.exp >= 112 => NearestByte(b[2], x)
               /\ x.mant # w.mant => w.mant - x.mant \in 1 .. 8
    OBVIOUS
  <2>4. 2^23 = 8388608 /\ 3 * 2^21 = 6291456
    <3>1. 2^21 = 2097152 BY SMT
    <3>2. 2^23 = 8388608 BY SMT
    <3> QED BY SMT, <3>1, <3>2
  <2> HIDE DEF x, b, w
  <2>5. CASE w.exp = 0 /\ x = w
    <3>1. w.mant = 0 BY SMT, <2>2, <2>5 DEF BlockFloat
    <3>2. b = << x.sign, 0 >>
      <4>1. x.exp = 0 /\ x.mant = 0 BY <2>5, <3>1
      <4> QED BY <2>1, <4>1, Zenon DEF _encode_e4m3fn
    <3> QED BY SMT, <2>5, <3>1, <3>2
  <2>6. CASE /\ x.sign = w.sign /\ x.exp \in 121 .. 135
             /\ x.mant \in Nat /\ x.mant < 8388608
             /\ x.exp = 135 => x.mant <= 6291456
             /\ w.mant # x.mant => w.mant - x.mant \in 1 .. 8
    <3>1. w.sign \in {0, 1} BY <2>2 DEF BlockFloat
    <3>2. NormalFloat(x) BY SMT, <2>4, <2>6, <3>1 DEF NormalFloat
    <3>3. b[1] = x.sign /\ b[2] \in 0 .. 126 /\ NearestByte(b[2], x) BY <2>1, <3>2, NormalNearest, Zenon
    <3> QED BY SMT, <2>6, <3>3
  <2>7. CASE /\ x.sign = w.sign /\ x.exp \in 64 .. 120
             /\ x.mant \in Nat /\ x.mant < 8388608
             /\ w.mant # x.mant => w.mant - x.mant \in 1 .. 8
    <3>1. w.sign \in {0, 1} BY <2>2 DEF BlockFloat
    <3>2. SubnormalFloat(x) BY SMT, <2>4, <2>7, <3>1 DEF SubnormalFloat
    <3>3. /\ b[1] = x.sign /\ b[2] \in 0 .. 8 /\ (x.exp < 112 => b[2] = 0)
          /\ x.exp >= 112 => NearestByte(b[2], x)
      BY <2>1, <3>2, SubnormalNearest, Zenon
    <3> QED BY SMT, <2>7, <3>3
  <2>8. ScaledFloat(x, w, e) => x.exp \in 121 .. 135 \/ x.exp \in 64 .. 120 BY SMT DEF ScaledFloat
  <2> QED BY SMT, <2>3, <2>5, <2>6, <2>7, <2>8 DEF ScaledFloat
<1>10. AtMost(Floor, values[1]) => stored.bytes[1][2] >= 14 * 8 + 6
  <2> SUFFICES ASSUME AtMost(Floor, values[1]) PROVE stored.bytes[1][2] >= 118 OBVIOUS
  <2> DEFINE x == x_clamped(values[1], e)
             w == values[1]
  <2>1. stored.bytes[1] = _encode_e4m3fn(x) BY <1>7
  <2>2. w.exp \in 113 .. 160 BY <1>4
  <2>3. /\ x.sign = w.sign /\ x.exp = w.exp - e /\ x.exp \in 64 .. 135
        /\ x.mant \in Nat /\ x.mant < 8388608
        /\ x.exp = 135 => x.mant <= 6291456
        /\ w.mant # x.mant => w.mant - x.mant \in 1 .. 8
    <3>1. w.exp # 0 BY SMT, <2>2
    <3>2. ScaledFloat(x, w, e) BY <1>2, <1>3, <3>1, ScaledWithin, Zenon
    <3> HIDE DEF x, w
    <3> QED BY SMT, <3>2 DEF ScaledFloat
  <2>4. BlockFloat(w) BY <1>2
  <2>5. /\ e = w.exp - 135 \/ e = w.exp - 134
        /\ e = w.exp - 134 => w.mant >= 6291448
    BY SMT, <1>4
  <2> HIDE DEF x, w
  <2>6. w.sign \in {0, 1} /\ w.mant \in Nat BY SMT, <2>4 DEF BlockFloat
  <2>7. x.exp \in {134, 135} BY SMT, <2>2, <2>5, <2>3
  <2>8. NormalFloat(x)
    <3>1. 2^21 = 2097152 BY SMT
    <3>2. 2^23 = 8388608 BY SMT
    <3>3. 3 * 2^21 = 6291456 BY SMT, <3>1
    <3> QED BY SMT, <2>3, <2>6, <2>7, <3>2, <3>3 DEF NormalFloat
  <2> DEFINE r == Bit(round_up_n(x))
  <2>9. stored.bytes[1][2] = ((x.exp - 120) * 8) + (x.mant \div 2^20) + r BY <2>1, <2>8, NormalByte
  <2>10. 2^20 = 1048576 BY SMT
  <2>11. 2^19 = 524288 BY SMT
  <2>12. r \in {0, 1} BY DEF Bit
  <2>13. x.exp = 134 => (x.mant \div 1048576) + r >= 6
    <3> SUFFICES ASSUME x.exp = 134 PROVE (x.mant \div 1048576) + r >= 6 OBVIOUS
    <3>1. x.mant >= 6291440 BY SMT, <2>2, <2>3, <2>5, <2>6
    <3>2. CASE x.mant >= 6291456
      <4>1. x.mant \div 1048576 >= 6 BY SMT, <2>3, <3>2
      <4> HIDE DEF r
      <4> QED BY SMT, <2>3, <2>12, <4>1
    <3>3. CASE x.mant < 6291456
      <4>1. x.mant \div 1048576 = 5 /\ x.mant % 1048576 > 524288 BY SMT, <2>3, <3>1, <3>3
      <4>2. round_up_n(x) BY <2>10, <2>11, <4>1 DEF round_up_n
      <4> QED BY SMT, <4>1, <4>2 DEF Bit
    <3> QED BY SMT, <2>3, <3>2, <3>3
  <2>14. x.exp = 135 => x.mant \div 1048576 >= 0 BY SMT, <2>3
  <2> DEFINE q == x.mant \div 1048576
  <2>15. q \in Int BY SMT, <2>3
  <2>16. stored.bytes[1][2] = ((x.exp - 120) * 8) + q + r BY <2>9, <2>10
  <2> HIDE DEF q, r
  <2>17. x.exp = 134 => q + r >= 6 BY <2>13 DEF q
  <2>18. x.exp = 135 => q >= 0 BY <2>14 DEF q
  <2> QED BY SMT, <2>7, <2>12, <2>15, <2>16, <2>17, <2>18
<1> DEFINE Nearest(k) ==
       \A i \in 1 .. 2 :
         LET x == x_clamped(values[i], k)
             v == 2^23 + x.mant
             Error(b) == Magnitude(_decode_e4m3fn(b, x.exp) - v)
             magnitude == stored.bytes[i][2]
         IN /\ magnitude \in 0 .. 126
            /\ stored.bytes[i][1] = values[i].sign
            /\ x.exp < 112 => magnitude = 0
            /\ x.exp >= 112 => \A b \in {magnitude - 1, magnitude + 1} \cap 0 .. 126 :
                 /\ Error(magnitude) <= Error(b)
                 /\ Error(magnitude) = Error(b) => magnitude % 2 = 0
            /\ x.mant # values[i].mant => values[i].mant - x.mant \in 1 .. 8
<1>11. Nearest(e) BY <1>9, Zenon DEF NearestByte, ByteError
<1>12. Nearest(stored.encoded - 127)
  <2> HIDE DEF Nearest
  <2> QED BY <1>6, <1>11
<1> QED BY <1>10, <1>12, Zenon DEF StoredIsNearest

\* Every byte of a packed key is, with its sign, the E4M3 number nearest to the scaled float,
\* an even one of two as near, down to the underflow to zero; the clamp takes eight units of
\* the last place at most, and the scale is the smallest that holds the block, but for the
\* rounding of its logarithm: whatever exponents and mantissas a block's floats have.
THEOREM StoredAlwaysNearest == QuantizedSpec => []StoredIsNearest
<1>1. QkInv => StoredIsNearest BY NearestOfBlock
<1> QED BY <1>1, KeysAreStored, PTL

=============================================================================
