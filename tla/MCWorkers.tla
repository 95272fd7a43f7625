----------------------------- MODULE MCWorkers -----------------------------
(* A small instance of Workers for TLC.                                    *)
EXTENDS Workers, TLC

CONSTANTS c1, c2, g1, g2
==============================================================================
