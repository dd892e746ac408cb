----------------------------- MODULE MCPatchEngine -----------------------------
(* An instance of PatchEngine for TLC: a method and the subclass that inherits *)
(* it, a provider's function and an alias of it, and a table of data.          *)
EXTENDS PatchEngine, TLC

CONSTANTS method, submethod, provider, alias, table

AllSlots == {method, submethod, provider, alias, table}
Inherits == [s \in AllSlots |-> IF s = submethod THEN method ELSE NoSlot]
CopiedFrom == [s \in AllSlots |-> IF s = alias THEN provider ELSE NoSlot]
Interchangeable == Permutations(Replacements) \cup Permutations(Values)
================================================================================
