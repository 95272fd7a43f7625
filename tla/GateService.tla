---------------------------- MODULE GateService ----------------------------
(***************************************************************************)
(* The BackendService around the ProcessWatchdog: RPC calls are admitted    *)
(* and counted by the CallTracker, and shutdown closes admission, kills the *)
(* managed Ludusavi commands, waits for the calls to drain, and stops the   *)
(* watchdog only when every call has returned and every process group is    *)
(* gone; otherwise it leaves the launch gates as they are.                  *)
(***************************************************************************)
EXTENDS Watchdog

VARIABLES
  active,     \* callers that serve an admitted call (TrackerState.active counts them)
  closed,     \* TrackerState.stopping
  killing,    \* ProcessManager.stopping
  unload      \* how far shutdown_until has come

serviceVars == <<active, closed, killing, unload>>
allVars == <<vars, serviceVars>>

UnloadStages == {"serving", "closed", "draining", "drained", "stopping", "retaining"}

ServiceInit ==
  /\ Init
  /\ active = {} /\ closed = FALSE /\ killing = FALSE
  /\ unload = "serving"
-----------------------------------------------------------------------------
(* CallTracker::enter and ActiveCall's drop                                *)
Enter(t) ==
  /\ t \notin active /\ ~closed
  /\ active' = active \cup {t}
  /\ UNCHANGED <<vars, closed, killing, unload>>

(* Mutant: the call stops counting while it is still being served. *)
LeaveEarly(t) ==
  /\ t \in active
  /\ active' = active \ {t}
  /\ UNCHANGED <<vars, closed, killing, unload>>
Leave(t) ==
  /\ t \in active /\ pc[t] = "idle"
  /\ active' = active \ {t}
  /\ UNCHANGED <<vars, closed, killing, unload>>

(* The ProcessManager starts no command while it is stopping.              *)
MayRun(t) == pc[t] = "mutating" /\ killing => pc'[t] # "spawning"

Serve(t) ==
  /\ t \in active
  /\ CallerNext(t) \/ ReleaseNext(t) \/ \E p \in Pids : pc[t] = "idle" /\ Renew(p)
  /\ MayRun(t)
  /\ UNCHANGED serviceVars
-----------------------------------------------------------------------------
(* shutdown_until                                                          *)
StopAdmission ==
  /\ unload = "serving" /\ MaxStops > 0
  /\ closed' = TRUE /\ unload' = "closed"
  /\ UNCHANGED <<vars, active, killing>>

CancelProcesses ==
  /\ unload = "closed"
  /\ killing' = TRUE /\ unload' = "draining"
  /\ UNCHANGED <<vars, active, closed>>

(* Mutants: killing the commands counts as a drain; only the threads that   *)
(* run a command are waited for.                                           *)
DrainedByKilling == active = {} \/ killing
DrainedOfMutations == \A t \in active : ~Operating(t)
Drained == active = {}
ProcessesExited == writing = {}     \* groups_exited

WaitForDrain ==
  /\ unload = "draining" /\ Drained
  /\ unload' = "drained"
  /\ UNCHANGED <<vars, active, closed, killing>>

(* The four-second drain budget is used up, or a process group is left.    *)
RetainGates ==
  /\ \/ unload = "draining" /\ ~Drained
     \/ unload = "drained" /\ ~ProcessesExited
  /\ unload' = "retaining"
  /\ UNCHANGED <<vars, active, closed, killing>>

StopWatchdog ==
  /\ unload = "drained" /\ ProcessesExited
  /\ StopCall
  /\ unload' = "stopping"
  /\ UNCHANGED <<active, closed, killing>>
-----------------------------------------------------------------------------
Background ==
  /\ \/ WatchNext \/ WorldNext
     \/ StopRound \/ StopConfirmed \/ StopFails \/ SweepNext(Stopper)
     \/ ReleaseNext(Watch) \/ ReleaseNext(Stopper)
  /\ UNCHANGED serviceVars

ServiceNext ==
  \/ \E t \in Callers : Enter(t) \/ Leave(t) \/ Serve(t)
  \/ StopAdmission \/ CancelProcesses \/ WaitForDrain \/ RetainGates \/ StopWatchdog
  \/ Background

ServiceSpec == ServiceInit /\ [][ServiceNext]_allVars
-----------------------------------------------------------------------------
(* Properties                                                              *)

(* Every call is in an admitted call, and shutdown's stages are in order.  *)
ServiceTypeOK ==
  /\ TypeOK
  /\ active \subseteq Callers /\ {t \in Callers : pc[t] # "idle"} \subseteq active
  /\ closed \in BOOLEAN /\ killing \in BOOLEAN
  /\ unload \in UnloadStages
  /\ closed <=> unload # "serving"

(* When shutdown reports that the watchdog stopped, it is true and stays    *)
(* true: no gate is left or can still be created, no thread is in the       *)
(* middle of anything and no save is being written, whichever call was in   *)
(* flight when the plugin was unloaded.                                     *)
ShutdownIsComplete ==
  pc[Stopper] = "stopped" =>
    /\ LeasedPids = {} /\ held \subseteq orphans
    /\ \A t \in Callers : pc[t] = "idle"
    /\ pc[Watch] \in {"absent", "exited"}
    /\ writing = {}

(* Shutdown never lets a game go while one of its calls or Ludusavi         *)
(* commands may still touch the saves: unconfirmed gates are retained.      *)
ShutdownFailsClosed ==
  [][pc[Stopper] = "waiting" /\ held' # held /\ life' = life /\ meddled' = meddled
       => active = {} /\ writing = {}]_allVars
=============================================================================
