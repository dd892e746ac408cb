------------------------------ MODULE MCEpScatter ------------------------------
(* Instances of EpScatter for TLC.                                            *)
EXTENDS EpScatter

\* Three experts over two ranks; this rank holds experts 1 and 2.
MapOfSecondRank == [g \in 0 .. 2 |-> g - 1]
AnyId == {-1, 0, 1, 2}
================================================================================
