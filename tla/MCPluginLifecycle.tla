--------------------------- MODULE MCPluginLifecycle ---------------------------
(* An instance of PluginLifecycle for TLC, after the real modules:             *)
(*   dispatch, attention: custom_op_dispatch patches a base class, attention   *)
(*     adds the method to a subclass that inherits it;                         *)
(*   gates: import_gates and quant_keys: a constant, a provider, its alias;    *)
(*   configs, oracles: tuned_configs and moe_backends;                         *)
(*   core, runner: two modules of vllm_sail.profiling.                         *)
EXTENDS PluginLifecycle

CONSTANTS forward, subforward, key, gate, gate_alias, oracle, oracle_alias,
          engine_step, execute_model, m1, m2, m3

AllSlots == {forward, subforward, key, gate, gate_alias, oracle, oracle_alias,
             engine_step, execute_model}
Inherits == [s \in AllSlots |-> IF s = subforward THEN forward ELSE NoSlot]
CopiedFrom == [s \in AllSlots |-> CASE s = gate_alias -> gate
                                   [] s = oracle_alias -> oracle
                                   [] OTHER -> NoSlot]
NewFunctions == {<< s, n >> : s \in AllSlots, n \in 0 .. MaxFailures}

Patch(s)  == [op |-> "patch", slot |-> s, additive |-> FALSE]
Add(s)    == [op |-> "patch", slot |-> s, additive |-> TRUE]
Put(s)    == [op |-> "value", slot |-> s, additive |-> TRUE]
Rebound(s) == [op |-> "rebind", slot |-> s, additive |-> FALSE]

PatchModules     == << "dispatch", "attention", "gates" >>
RegistryChildren == << "configs", "oracles" >>
ProfilingModules == << "core", "runner" >>
StepsOf == [u \in Units |->
  CASE u = "dispatch"  -> << Patch(forward) >>
    [] u = "attention" -> << Add(subforward) >>
    [] u = "gates"     -> << Put(key), Patch(gate), Rebound(gate_alias) >>
    [] u = "configs"   -> << >>
    [] u = "oracles"   -> << Patch(oracle), Rebound(oracle_alias) >>
    [] u = "core"      -> << Patch(engine_step) >>
    [] u = "runner"    -> << Patch(execute_model) >>]
RequiredModels == << m1, m2 >>
OptionalModels == << m3 >>
================================================================================
