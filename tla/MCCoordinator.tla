--------------------------- MODULE MCCoordinator ---------------------------
(* Small instances of Coordinator for TLC: at the second configuration the *)
(* id has gone to a game that is new.                                      *)
EXTENDS Coordinator, TLC

CONSTANTS t1, t2, g1, g2, app1

IdMoves == <<g1 :> app1, g1 :> NoId @@ g2 :> app1>>
NoneSkipped == <<{}, {}>>
SomeBackups == {{}, {g1}}
NoBackups == {{}}
Symmetric == Permutations(Threads)
=============================================================================
