----------------------------- MODULE LaunchGate -----------------------------
(***************************************************************************)
(* What the launch gate promises, without threads, locks, freezers or      *)
(* clocks.  A gate holds the launch of the game with a given root PID      *)
(* while its saves are inspected.  A save mutation may run only under an   *)
(* identified gate; once its end has been asked for, a gate takes no       *)
(* further mutation, and it opens only when no mutation runs under it.     *)
(* Module Watchdog is shown to implement this specification.               *)
(***************************************************************************)
EXTENDS Naturals

CONSTANT Pids           \* root PIDs of launched games

VARIABLES
  issued,               \* identities handed out so far are 1..issued
  gate,                 \* 0, or the identity of the gate that holds the PID
  ending,               \* the gate's end has been asked for
  mutating              \* a save mutation is running for the PID

vars == <<issued, gate, ending, mutating>>

TypeOK ==
  /\ issued \in Nat
  /\ gate \in [Pids -> 0..issued]
  /\ ending \in [Pids -> BOOLEAN]
  /\ mutating \in [Pids -> BOOLEAN]

Init ==
  /\ issued = 0
  /\ gate = [p \in Pids |-> 0]
  /\ ending = [p \in Pids |-> FALSE]
  /\ mutating = [p \in Pids |-> FALSE]

(* A gate, or its successor on the same PID, is established while no       *)
(* mutation runs.  Its identity was never used before.                     *)
Hold(p) ==
  /\ ~mutating[p] /\ ~ending[p]
  /\ issued' = issued + 1
  /\ gate' = [gate EXCEPT ![p] = issued']
  /\ UNCHANGED <<ending, mutating>>

(* A mutation starts under a gate whose end has not been asked for.        *)
Begin(p) ==
  /\ gate[p] # 0 /\ ~ending[p] /\ ~mutating[p]
  /\ mutating' = [mutating EXCEPT ![p] = TRUE]
  /\ UNCHANGED <<issued, gate, ending>>

Finish(p) ==
  /\ mutating[p]
  /\ mutating' = [mutating EXCEPT ![p] = FALSE]
  /\ UNCHANGED <<issued, gate, ending>>

RequestEnd(p) ==
  /\ gate[p] # 0 /\ ~ending[p]
  /\ ending' = [ending EXCEPT ![p] = TRUE]
  /\ UNCHANGED <<issued, gate, mutating>>

(* The held launch goes on.                                                *)
Open(p) ==
  /\ gate[p] # 0 /\ ending[p] /\ ~mutating[p]
  /\ gate' = [gate EXCEPT ![p] = 0]
  /\ ending' = [ending EXCEPT ![p] = FALSE]
  /\ UNCHANGED <<issued, mutating>>

Next == \E p \in Pids :
          Hold(p) \/ Begin(p) \/ Finish(p) \/ RequestEnd(p) \/ Open(p)

Spec == Init /\ [][Next]_vars
=============================================================================
