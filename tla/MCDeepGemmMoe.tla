----------------------------- MODULE MCDeepGemmMoe -----------------------------
(* Instances of DeepGemmMoe for TLC.                                          *)
EXTENDS DeepGemmMoe

\* Without expert parallelism the ids are local already.
NoMap == [g \in 0 .. 1 |-> g]
LocalIds == {-1, 0, 1}
================================================================================
