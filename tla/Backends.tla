------------------------------ MODULE Backends ------------------------------
(***************************************************************************)
(* A backend and its predecessor on one cache file.  main.rs reads the     *)
(* file (on_migration) before it looks for older processes and ends them   *)
(* (on_main), and goes on when it cannot: until then the predecessor, that *)
(* nobody calls any more, finishes the calls it was in, with a registry,   *)
(* history and locks of its own.  The two share Ludusavi, the file and the *)
(* file lock, which a thread holds while it has its backend's state lock.  *)
(*                                                                         *)
(* The variables of Coordinator are those of the backend that serves.      *)
(* Bounds: one predecessor at a time is alive; when it is in no call any   *)
(* more, and so does nothing, it ends before anything else happens.        *)
(***************************************************************************)
EXTENDS Coordinator

VARIABLES oldReg, oldHistory, oldOpLock, oldStatus, oldStateLock, oldCall, oldDrift

old == <<oldReg, oldHistory, oldOpLock, oldStatus, oldStateLock, oldCall, oldDrift>>
sharedVars == <<vars, old>>

(* The predecessor's answers reach nobody, so that it is not asked what it *)
(* has reported.                                                           *)
Old == INSTANCE Coordinator WITH
  reg <- oldReg, history <- oldHistory, opLock <- oldOpLock, status <- oldStatus,
  stateLock <- oldStateLock, call <- oldCall, drift <- oldDrift,
  known <- {}, reported <- {}

Gone ==
  /\ oldReg = EmptyRegistry /\ oldHistory = NoHistory
  /\ oldOpLock = None /\ oldStatus = None /\ oldStateLock = None
  /\ oldCall = [t \in Threads |-> Idle] /\ oldDrift = "none"
LivesOn ==
  /\ oldReg' = reg /\ oldHistory' = history
  /\ oldOpLock' = opLock /\ oldStatus' = status /\ oldStateLock' = stateLock
  /\ oldCall' = call /\ oldDrift' = drift
Ends ==
  /\ oldReg' = EmptyRegistry /\ oldHistory' = NoHistory
  /\ oldOpLock' = None /\ oldStatus' = None /\ oldStateLock' = None
  /\ oldCall' = [t \in Threads |-> Idle] /\ oldDrift' = "none"
Alive == \E t \in Threads : oldCall[t].pc \notin {"idle", "answer"}

Settled == Alive \/ Gone

SharedInit == Init /\ Gone

FileLockFree == stateLock' = None \/ oldStateLock' = None

BackendServes == Settled /\ Serve /\ UNCHANGED old /\ FileLockFree

(* What it saves is not what the other one remembers.                      *)
PredecessorGoesOn ==
  /\ Alive
  /\ \E t \in Threads : Old!Operate(t)
  /\ drift' = IF file' = file THEN drift ELSE "overwritten"
  /\ UNCHANGED <<reg, history, opLock, status, stateLock, call, known, reported>>
  /\ FileLockFree

(* The successor reads the file under its lock, or has waited for the lock *)
(* in vain.  A backend that is in no call does nothing more.               *)
SuccessorStarts ==
  /\ Settled
  /\ \/ UNCHANGED old
     \/ /\ \E t \in Threads : call[t] # Idle
        /\ LivesOn
  /\ (StartLoaded /\ oldStateLock' = None) \/ StartBlank

(* enforce_single_instance, or its own end.                                *)
PredecessorEnds == ~Gone /\ Ends /\ UNCHANGED vars

SharedNext ==
  \/ BackendServes \/ PredecessorGoesOn \/ SuccessorStarts \/ PredecessorEnds
  \/ Settled /\ ConfigChanges /\ UNCHANGED old

SharedSpec == SharedInit /\ [][SharedNext]_sharedVars

(***************************************************************************)
(* Properties                                                              *)
(***************************************************************************)

(* A predecessor that lives on does to its successor only what Coordinator *)
(* takes another backend to do: what it saves is a good registry for the   *)
(* marker it bears, however far the successor or the configuration is.     *)
ImplementsCoordinator == Spec
=============================================================================
