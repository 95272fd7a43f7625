----------------------------- MODULE MCWatchdog -----------------------------
(* Small instances of Watchdog for TLC.                                    *)
EXTENDS Watchdog, TLC

CONSTANTS p1, proc, scope1, scope2, c1, c2

(* One launch: its process, then the scope it enters and a second scope.   *)
OneOwner == [x \in Targets |-> p1]
Symmetric == Permutations(Callers) \cup Permutations(Scopes)
=============================================================================
