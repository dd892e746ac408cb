------------------------------ MODULE PlaResolver ------------------------------
(***************************************************************************)
(* The lazy resolvers of the PLA kernels (attention/pla_prefill.py and     *)
(* attention/pla_decode.py), as the threads of one worker use them.  Both  *)
(* publish two handles under a lock that later calls do not take:          *)
(*   prefill: _chunk_fwd_fn, then _supported_head_configs;                 *)
(*   decode:  _k_last_fn, then _k_last_packed_fn.                          *)
(* A thread builds a layer, which asks for the first handle and then for   *)
(* the second and settles on PLA if it got both; from then on the layer's  *)
(* forward passes ask again, and call what they get.                       *)
(*                                                                         *)
(* The process runs on a PPU with the kernels switched on: with the switch *)
(* off every call answers None and touches nothing.                        *)
(***************************************************************************)
EXTENDS Naturals

CONSTANTS
  Threads,
  NoThread,
  MaxFailures   (* bound: imports of `pla` that fail                        *)

ASSUME ResolverAssumption ==
  /\ NoThread \notin Threads
  /\ MaxFailures \in Nat

VARIABLES
  explicit,   (* VLLM_GDN_DECODE_KERNEL=pla: a missing package raises; without *)
              (* it, and for prefill, it is tolerated                       *)
  resolved,   (* _resolved                                                  *)
  handle,     (* the two published handles: "none" or "kernel"              *)
  lock,       (* holder of _lock                                            *)
  pc,
  asked,      (* the handle a thread asks for                               *)
  got,        (* the last answer for each handle, to each thread            *)
  layer,      (* what the thread's layer settled on                         *)
  imports,    (* imports of the package that succeeded                      *)
  failures

shared == << resolved, handle, lock >>
vars   == << explicit, shared, pc, asked, got, layer, imports, failures >>

Handles == {1, 2}
Goto(t, label) == pc' = [pc EXCEPT ![t] = label]

Init ==
  /\ explicit \in BOOLEAN
  /\ resolved = FALSE
  /\ handle = [h \in Handles |-> "none"]
  /\ lock = NoThread
  /\ pc = [t \in Threads |-> "idle"]
  /\ asked = [t \in Threads |-> 1]
  /\ got = [t \in Threads |-> [h \in Handles |-> "unknown"]]
  /\ layer = [t \in Threads |-> "deciding"]
  /\ imports = 0
  /\ failures = 0

--------------------------------------------------------------------------------
\* _pla_prefill_supported and _pla_unsupported_reason ask for the first handle,
\* then for the second; a forward pass asks for either.
Ask(t, h) ==
  /\ pc[t] = "idle"
  /\ CASE layer[t] = "deciding" -> h = IF got[t][1] = "unknown" THEN 1 ELSE 2
       [] layer[t] = "pla"      -> TRUE
       [] layer[t] = "other"    -> ~ explicit
  /\ asked' = [asked EXCEPT ![t] = h]
  /\ Goto(t, "fast")
  /\ UNCHANGED << explicit, shared, got, layer, imports, failures >>

\* MUTANT: a published handle is taken for a finished resolution.
FastPathByHandle(t) ==
  /\ pc[t] = "fast"
  /\ Goto(t, IF handle[1] = "kernel" THEN "read" ELSE "wait")
  /\ UNCHANGED << explicit, shared, asked, got, layer, imports, failures >>

\* "Fast path: after the first resolution, skip the lock entirely."
FastPath(t) ==
  /\ pc[t] = "fast"
  /\ Goto(t, IF resolved THEN "read" ELSE "wait")
  /\ UNCHANGED << explicit, shared, asked, got, layer, imports, failures >>

Acquire(t) ==
  /\ pc[t] = "wait"
  /\ lock = NoThread
  /\ lock' = t
  /\ Goto(t, "check")
  /\ UNCHANGED << explicit, resolved, handle, asked, got, layer, imports, failures >>

\* MUTANT: no second look at _resolved.
RecheckNot(t) ==
  /\ pc[t] = "check"
  /\ Goto(t, "import")
  /\ UNCHANGED << explicit, shared, asked, got, layer, imports, failures >>

\* The second look at _resolved, under the lock.
Recheck(t) ==
  /\ pc[t] = "check"
  /\ Goto(t, IF resolved THEN "release" ELSE "import")
  /\ UNCHANGED << explicit, shared, asked, got, layer, imports, failures >>

ImportSucceeds(t) ==
  /\ pc[t] = "import"
  /\ imports' = imports + 1
  /\ Goto(t, "first")
  /\ UNCHANGED << explicit, shared, asked, got, layer, failures >>

Answer(t, a) ==
  /\ got' = [got EXCEPT ![t][asked[t]] = a]
  /\ layer' = [layer EXCEPT ![t] =
       IF @ # "deciding" THEN @
       ELSE IF a = "none" THEN "other"
       ELSE IF asked[t] = 2 THEN "pla" ELSE "deciding"]
  /\ Goto(t, "idle")

\* MUTANT: the explicit choice raises with the lock held.
ImportFailsLocked(t) ==
  /\ pc[t] = "import"
  /\ failures < MaxFailures
  /\ failures' = failures + 1
  /\ IF explicit
     THEN Answer(t, "none") /\ UNCHANGED lock
     ELSE Goto(t, "read") /\ lock' = NoThread /\ UNCHANGED << got, layer >>
  /\ UNCHANGED << explicit, resolved, handle, asked, imports >>

\* The lock is left by the return and by the exception, which the decision turns
\* into a reason against PLA.  Nothing is remembered: a later call tries again.
ImportFails(t) ==
  /\ pc[t] = "import"
  /\ failures < MaxFailures
  /\ failures' = failures + 1
  /\ lock' = NoThread
  /\ IF explicit THEN Answer(t, "none") ELSE Goto(t, "read") /\ UNCHANGED << got, layer >>
  /\ UNCHANGED << explicit, resolved, handle, asked, imports >>

PublishFirst(t) ==
  /\ pc[t] = "first"
  /\ handle' = [handle EXCEPT ![1] = "kernel"]
  /\ Goto(t, "second")
  /\ UNCHANGED << explicit, resolved, lock, asked, got, layer, imports, failures >>

PublishSecond(t) ==
  /\ pc[t] = "second"
  /\ handle' = [handle EXCEPT ![2] = "kernel"]
  /\ Goto(t, "flag")
  /\ UNCHANGED << explicit, resolved, lock, asked, got, layer, imports, failures >>

SetResolved(t) ==
  /\ pc[t] = "flag"
  /\ resolved' = TRUE
  /\ Goto(t, "release")
  /\ UNCHANGED << explicit, handle, lock, asked, got, layer, imports, failures >>

Release(t) ==
  /\ pc[t] = "release"
  /\ lock' = NoThread
  /\ Goto(t, "read")
  /\ UNCHANGED << explicit, resolved, handle, asked, got, layer, imports, failures >>

\* The getter returns what the module holds now, not what this call resolved.
Read(t) ==
  /\ pc[t] = "read"
  /\ Answer(t, handle[asked[t]])
  /\ UNCHANGED << explicit, shared, asked, imports, failures >>

Resolve(t) ==
  \/ FastPath(t) \/ Acquire(t) \/ Recheck(t) \/ ImportSucceeds(t) \/ ImportFails(t)
  \/ PublishFirst(t) \/ PublishSecond(t) \/ SetResolved(t) \/ Release(t) \/ Read(t)

Next == \E t \in Threads : Resolve(t) \/ \E h \in Handles : Ask(t, h)

Spec == Init /\ [][Next]_vars

\* A running thread goes on, an import ends, and a thread that waits for a lock
\* that stays free obtains it.
FairSpec == Spec /\ \A t \in Threads : WF_vars(Resolve(t))

--------------------------------------------------------------------------------
ResolverTypeOK ==
  /\ explicit \in BOOLEAN
  /\ resolved \in BOOLEAN
  /\ handle \in [Handles -> {"none", "kernel"}]
  /\ lock \in Threads \cup {NoThread}
  /\ pc \in [Threads -> {"idle", "fast", "wait", "check", "import", "first", "second",
                         "flag", "release", "read"}]
  /\ asked \in [Threads -> Handles]
  /\ got \in [Threads -> [Handles -> {"unknown", "none", "kernel"}]]
  /\ layer \in [Threads -> {"deciding", "pla", "other"}]
  /\ imports \in Nat
  /\ failures \in 0 .. MaxFailures

\* "concurrent calls from multiple threads resolve exactly once": the package is
\* never imported with success a second time, although failed imports are retried.
ResolvedOnce == imports <= 1

\* The handles come together and stay.  A thread that was given one of them is not
\* answered None afterwards, for either (a prefill layer would find an empty list of
\* head configurations and settle on the slow kernels), also when its own import
\* failed while another thread was publishing.  The forward pass of a layer that
\* settled on PLA calls what it is given without looking (forward_pla).
KernelsAreNotLost ==
  [][\A t \in Threads : (\E h \in Handles : got[t][h] = "kernel") =>
       \A h \in Handles : got'[t][h] = "none" => got[t][h] = "none"]_vars

\* No thread waits for ever: an import that fails, or raises, leaves the lock.
EveryCallReturns == \A t \in Threads : pc[t] # "idle" ~> pc[t] = "idle"
================================================================================
