----------------------------- MODULE MCBackends -----------------------------
(* Small instances of Backends for TLC: at the second configuration the    *)
(* game has lost its id, and is skipped.                                   *)
EXTENDS Backends, TLC

CONSTANTS t1, g1, app1

IdGone == <<g1 :> app1, g1 :> NoId>>
LastSkipped == <<{}, {g1}>>
SomeBackups == {{}, {g1}}
=============================================================================
