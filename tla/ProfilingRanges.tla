--------------------------- MODULE ProfilingRanges ---------------------------
(***************************************************************************)
(* The NVTX ranges of the opt-in profiling (profiling/), on one thread of  *)
(* a worker: a step of the engine executes the model, which runs its       *)
(* layers and computes logits; sampling and the dummy runs come by         *)
(* themselves.  Any upstream body may raise at any depth.  torch.cuda.nvtx *)
(* keeps the open ranges on a stack and closes the one on top.             *)
(***************************************************************************)
EXTENDS Naturals, FiniteSets, Sequences, SequencesExt

CONSTANTS
  MaxIterations,  (* bound: instrumented steps of engine and of runner      *)
  MaxRaises       (* bound: bodies that raise                               *)

ASSUME ProfilingAssumption == MaxIterations \in Nat /\ MaxRaises \in Nat

VARIABLES
  works,       (* range_push works in this build of torch                   *)
  calls,       (* the call stack: [f, label], label 0: opened no range      *)
  raising,     (* an exception is on its way                                *)
  ranges,      (* the open ranges                                           *)
  stash,       (* runner._ppu_nvtx_prof_scheduler_output: the batch, 0: None *)
  iteration,   (* self.iteration of the engine core and of the runner       *)
  raised,      (* bodies that raised so far                                 *)
  leaks        (* linear layers that raised inside their range              *)

profVars == << works, calls, raising, ranges, stash, iteration, raised, leaks >>

\* Who calls whom.
Callees ==
  [ idle    |-> {"step", "execute_model", "_model_forward", "_sample"},
    step    |-> {"execute_model", "_sample"},
    execute_model  |-> {"_model_forward", "compute_logits"},
    _model_forward |-> {"linear", "moe"},
    compute_logits |-> {"linear"},
    _sample |-> {}, linear |-> {}, moe |-> {} ]

Top == IF calls = << >> THEN "idle" ELSE Last(calls).f
Opens(label) == IF works THEN Append(ranges, label) ELSE ranges
Closes == IF works /\ ranges # << >> THEN Front(ranges) ELSE ranges
Enter(f, label) ==
  /\ ~ raising /\ f \in Callees[Top]
  /\ calls' = Append(calls, [f |-> f, label |-> label])
  /\ UNCHANGED << works, raising, raised, leaks >>

ProfInit ==
  /\ works \in BOOLEAN
  /\ calls = << >> /\ raising = FALSE /\ ranges = << >> /\ stash = 0
  /\ iteration = [engine |-> 0, runner |-> 0]
  /\ raised = 0
  /\ leaks = 0

--------------------------------------------------------------------------------
\* EngineCore.step and step_with_batch_queue.
Step ==
  /\ iteration.engine < MaxIterations
  /\ Enter("step", iteration.engine + 1)
  /\ ranges' = Opens(iteration.engine + 1)
  /\ iteration' = [iteration EXCEPT !.engine = @ + 1]
  /\ UNCHANGED stash

\* GPUModelRunner.execute_model; the batch has the number of the iteration.
ExecuteModel ==
  /\ iteration.runner < MaxIterations
  /\ Enter("execute_model", iteration.runner + 1)
  /\ ranges' = Opens(iteration.runner + 1)
  /\ iteration' = [iteration EXCEPT !.runner = @ + 1]
  /\ stash' = iteration.runner + 1

\* _model_forward opens a range for the batch it finds, if it finds one.
ModelForward ==
  /\ Enter("_model_forward", stash)
  /\ ranges' = IF stash = 0 THEN ranges ELSE Opens(stash)
  /\ UNCHANGED << stash, iteration >>

\* _sample, moe_range and the wrapper of compute_logits: a range around the call.
Around(f) ==
  /\ Enter(f, 1)
  /\ ranges' = Opens(1)
  /\ UNCHANGED << stash, iteration >>

\* The linear layers push without a guard: where the push does not work, it raises.
Linear ==
  /\ ~ raising /\ "linear" \in Callees[Top]
  /\ IF works
     THEN /\ calls' = Append(calls, [f |-> "linear", label |-> 1]) /\ UNCHANGED raising
     ELSE /\ raising' = TRUE /\ UNCHANGED calls
  /\ ranges' = Opens(1)
  /\ UNCHANGED << works, stash, iteration, raised, leaks >>

BodyRaises ==
  /\ ~ raising /\ calls # << >> /\ raised < MaxRaises
  /\ raising' = TRUE
  /\ raised' = raised + 1
  /\ UNCHANGED << works, calls, ranges, stash, iteration, leaks >>

\* MUTANT: the stash is cleared on the way of a return only.
LeaveStashing ==
  /\ calls # << >>
  /\ calls' = Front(calls)
  /\ ranges' = IF Last(calls).label = 0 \/ (raising /\ Top = "linear") THEN ranges ELSE Closes
  /\ leaks' = IF raising /\ Top = "linear" THEN leaks + 1 ELSE leaks
  /\ stash' = IF Top = "execute_model" /\ ~ raising THEN 0 ELSE stash
  /\ UNCHANGED << works, raising, iteration, raised >>

\* A call returns or is unwound: `finally` closes its range, but the linear layers
\* close theirs on a return only.
Leave ==
  /\ calls # << >>
  /\ calls' = Front(calls)
  /\ ranges' = IF Last(calls).label = 0 \/ (raising /\ Top = "linear") THEN ranges ELSE Closes
  /\ leaks' = IF raising /\ Top = "linear" THEN leaks + 1 ELSE leaks
  /\ stash' = IF Top = "execute_model" THEN 0 ELSE stash
  /\ UNCHANGED << works, raising, iteration, raised >>

\* Whoever called the worker takes the exception.
Catch ==
  /\ raising /\ calls = << >>
  /\ raising' = FALSE
  /\ UNCHANGED << works, calls, ranges, stash, iteration, raised, leaks >>

ProfNext ==
  \/ Step \/ ExecuteModel \/ ModelForward \/ Linear
  \/ \E f \in {"_sample", "compute_logits", "moe"} : Around(f)
  \/ BodyRaises \/ Leave \/ Catch

ProfSpec == ProfInit /\ [][ProfNext]_profVars

--------------------------------------------------------------------------------
\* The calls on the stack that opened a range, and which range is that of call i.
Opened     == {i \in DOMAIN calls : calls[i].label # 0}
RangeOf(i) == ranges[Cardinality({j \in Opened : j <= i})]

\* Every open range belongs to a call on the stack, opened in that order, whatever
\* raised; a linear layer that raises leaves its range behind, and nothing else does.
\* A forward pass is labelled with the batch of the execute_model it runs in; one that
\* runs by itself (a dummy run) finds no batch of an earlier call.
RangesFollowCalls ==
  /\ works =>
       /\ Len(ranges) = Cardinality(Opened) + leaks
       /\ leaks = 0 => \A i \in Opened : RangeOf(i) = calls[i].label
  /\ \A i \in DOMAIN calls : calls[i].f = "_model_forward" =>
       calls[i].label = IF \E j \in 1 .. i - 1 : calls[j].f = "execute_model"
                        THEN iteration.runner ELSE 0
================================================================================
