--------------------------- MODULE MCGateService ---------------------------
(* Small instances of GateService for TLC.                                 *)
EXTENDS GateService, TLC

CONSTANTS p1, proc, scope1, scope2, c1, c2

OneOwner == [x \in Targets |-> p1]
Symmetric == Permutations(Callers)
=============================================================================
