------------------------------ MODULE MCUpdater ------------------------------
(* A small instance of Updater for TLC.  Releases are numbered by date: a  *)
(* stable one, two development releases of the next one, and that one.     *)
EXTENDS Updater, TLC

CONSTANTS f1, f2

Dates == <<[base |-> 1, dev |-> FALSE, date |-> 1], [base |-> 2, dev |-> TRUE, date |-> 2],
           [base |-> 2, dev |-> TRUE, date |-> 3], [base |-> 2, dev |-> FALSE, date |-> 4]>>
FirstLists == {1..3}
Symmetric == Permutations(Flows)
==============================================================================
