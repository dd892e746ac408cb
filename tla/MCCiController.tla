---------------------------- MODULE MCCiController ----------------------------
(* Environments for TLC.                                                      *)
EXTENDS CiController

\* The list is up to date; one call fails.
OneFault == {[lag |-> FALSE, native |-> FALSE, faults |-> 1]}

\* Either calls fail, or the list lags and runs are run again by hand.
FaultsOrReruns == {[lag |-> FALSE, native |-> FALSE, faults |-> 2],
                   [lag |-> TRUE, native |-> TRUE, faults |-> 0]}

\* Runs are run again by hand; nothing fails.
RerunsOnly == {[lag |-> FALSE, native |-> TRUE, faults |-> 0]}
================================================================================
