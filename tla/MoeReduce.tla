------------------------------- MODULE MoeReduce -------------------------------
(***************************************************************************)
(* What a mixture-of-experts layer promises, without rows, regions or      *)
(* workspaces: the output of a token is the sum, over the lanes that are   *)
(* routed to an expert of this rank, of that expert's answer for that      *)
(* token.  A sum is modelled by the set of its terms, one per lane.        *)
(***************************************************************************)
EXTENDS Integers

CONSTANTS
  Tokens, Slots,
  Answer(_, _),   (* Answer(e, t): the answer of expert e for token t *)
  Pending         (* the output of a token that was not written yet   *)

VARIABLES
  routing,        (* the local expert of each lane, -1 for none       *)
  result          (* the terms of each token's sum                    *)

moeVars == << routing, result >>

Terms(t) == {<< k, Answer(routing[<<t, k>>], t) >> : k \in {s \in Slots : routing[<<t, s>>] >= 0}}

MoeInit == result = [t \in Tokens |-> Pending]

\* A token's output is written once, and complete.
Reduce(t) ==
  /\ result[t] = Pending
  /\ result' = [result EXCEPT ![t] = Terms(t)]
  /\ UNCHANGED routing

MoeNext == \E t \in Tokens : Reduce(t)

MoeSpec == MoeInit /\ [][MoeNext]_moeVars /\ WF_moeVars(MoeNext)
================================================================================
