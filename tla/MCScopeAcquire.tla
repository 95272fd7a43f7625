--------------------------- MODULE MCScopeAcquire ---------------------------
(* Small instances of ScopeAcquire for TLC.                                *)
EXTENDS ScopeAcquire

CONSTANTS s1, s2, unit1

OneUnit == [s \in Scopes |-> unit1]
=============================================================================
