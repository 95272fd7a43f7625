-------------------------- MODULE MCSyncthingWatch --------------------------
(* A small instance of SyncthingWatch for TLC.                             *)
EXTENDS SyncthingWatch, TLC

CONSTANTS p1, p2

Symmetric == Permutations(Peers)
==============================================================================
