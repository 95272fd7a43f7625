-------------------------- MODULE GateServiceProofs --------------------------
(* The service around the watchdog takes no step of its own with a lease:  *)
(* what is proved of Watchdog holds under every call and every shutdown.   *)
EXTENDS GateService, WatchdogHolds

(* Every step of the service is a step of the watchdog's module, or leaves  *)
(* its state alone.                                                        *)
LEMMA ServiceStep == [ServiceNext]_allVars => [Next]_vars
<1> SUFFICES ASSUME [ServiceNext]_allVars PROVE [Next]_vars
  OBVIOUS
<1>1. ASSUME NEW t \in Callers, Serve(t) PROVE Next
  BY <1>1 DEF Serve, Next, Threads
<1>2. ASSUME NEW t \in Callers, Enter(t) \/ Leave(t) PROVE UNCHANGED vars
  BY <1>2 DEF Enter, Leave
<1>3. ASSUME StopAdmission \/ CancelProcesses \/ WaitForDrain \/ RetainGates
      PROVE  UNCHANGED vars
  BY <1>3 DEF StopAdmission, CancelProcesses, WaitForDrain, RetainGates
<1>4. ASSUME StopWatchdog PROVE Next
  BY <1>4 DEF StopWatchdog, Next, StopNext
<1>5. ASSUME Background PROVE Next
  BY <1>5 DEF Background, Next, StopNext, Threads
<1>6. ASSUME UNCHANGED allVars PROVE UNCHANGED vars
  BY <1>6 DEF allVars
<1>. QED
  BY <1>1, <1>2, <1>3, <1>4, <1>5, <1>6 DEF ServiceNext

(* Calls and shutdown drive the watchdog only through its operations.      *)
THEOREM ServiceRunsWatchdog == ServiceSpec => Spec
<1>1. ServiceInit => Init
  BY DEF ServiceInit
<1>. QED
  BY <1>1, ServiceStep, PTL DEF ServiceSpec, Spec

(* Also while the plugin is unloaded, a running save mutation keeps its    *)
(* lease and its game stays held.                                          *)
THEOREM ServiceMutationsHeld == ServiceSpec => []MutationHeld
<1>. QED
  BY ServiceRunsWatchdog, MutationsHeld, PTL
-----------------------------------------------------------------------------
(* Who moves in a step                                                     *)

(* The threads that moves are told of.                                     *)
LEMMA CallerThreads == Callers \subseteq Threads /\ Watch \in Threads /\ Stopper \in Threads
BY DEF Threads

(* A caller moves itself, and may start the watchdog thread.               *)
LEMMA CallerMoves ==
  ASSUME TypeOK, NEW t \in Callers, Serve(t)
  PROVE  \A u \in Threads \ {t, Watch} : pc'[u] = pc[u]
<1> USE CallerThreads, Moved
<1>1. ASSUME NEW p \in Pids, PauseCall(t, p) PROVE \A u \in Threads \ {t} : pc'[u] = pc[u]
  BY <1>1 DEF PauseCall
<1>2. ASSUME NEW p \in Pids, NEW gen \in 0..MaxGen, Pin(t, p, gen) \/ Resume(t, p, gen)
      PROVE  \A u \in Threads \ {t} : pc'[u] = pc[u]
  BY <1>2 DEF Pin, Resume, ResumeRequest
<1>3. ASSUME PauseRefused(t) \/ SpawnCheck(t) \/ Spawn(t) \/ CallbackReturns(t) \/ Finalize(t)
      PROVE  \A u \in Threads \ {t} : pc'[u] = pc[u]
  BY <1>3 DEF PauseRefused, SpawnCheck, Spawn, CallbackReturns, Finalize
<1>4. ASSUME PauseStarts(t) PROVE \A u \in Threads \ {t, Watch} : pc'[u] = pc[u]
  BY <1>4 DEF PauseStarts, TypeOK, ThreadTypeOK
<1>5. ASSUME AcquireFails(t) \/ PauseAcquires(t) \/ PauseSwapFails(t)
      PROVE  \A u \in Threads \ {t} : pc'[u] = pc[u]
  BY <1>5 DEF AcquireFails, PauseAcquires, PauseSwapFails, PauseReturns
<1>6. ASSUME WriterExits(t) PROVE pc' = pc
  BY <1>6 DEF WriterExits, threadVars
<1>7. ASSUME ReleaseNext(t) PROVE \A u \in Threads \ {t} : pc'[u] = pc[u]
  BY <1>7 DEF ReleaseNext, GiveUp, Released, ReleaseFails
<1>8. ASSUME NEW p \in Pids, Renew(p) PROVE pc' = pc
  BY <1>8 DEF Renew, threadVars
<1>. QED
  BY <1>1, <1>2, <1>3, <1>4, <1>5, <1>6, <1>7, <1>8 DEF Serve, CallerNext

(* The background moves the watchdog thread or the shutdown sweep, not      *)
(* both, and starts no command.                                            *)
BackgroundOf(t) ==
  \A u \in Threads \ {t} : pc'[u] = pc[u]

LEMMA BackgroundMoves ==
  ASSUME TypeOK, Background
  PROVE  /\ UNCHANGED <<serviceVars, writing>>
         /\ BackgroundOf(Watch) \/ BackgroundOf(Stopper)
<1> USE CallerThreads, Moved DEF BackgroundOf
<1>1. ASSUME NEW t \in {Watch, Stopper}, SweepNext(t)
      PROVE  writing' = writing /\ BackgroundOf(t)
  BY <1>1 DEF SweepNext, ResumeRequest, opVars
<1>2. ASSUME NEW t \in {Watch, Stopper}, ReleaseNext(t)
      PROVE  writing' = writing /\ BackgroundOf(t)
  BY <1>2 DEF ReleaseNext, GiveUp, Released, ReleaseFails, opVars
<1>3. ASSUME WatchScan \/ WatchParks \/ WatchExits
      PROVE  writing' = writing /\ BackgroundOf(Watch)
  BY <1>3 DEF WatchScan, WatchParks, WatchExits, opVars
<1>4. ASSUME StopRound \/ StopConfirmed \/ StopFails
      PROVE  writing' = writing /\ BackgroundOf(Stopper)
  BY <1>4 DEF StopRound, StopConfirmed, StopFails, opVars
<1>5. ASSUME WorldNext PROVE UNCHANGED <<writing, pc>>
  BY <1>5 DEF WorldNext, LaunchMoves, TargetVanishes, ScopeReplaced, Meddle, Tick, opVars, threadVars
<1>. QED
  BY <1>1, <1>2, <1>3, <1>4, <1>5 DEF Background, WatchNext
-----------------------------------------------------------------------------
(* The shutdown                                                            *)

(* Why shutdown is complete and fails closed: the watchdog is stopped only *)
(* after the calls have drained, no call starts after that, and its thread *)
(* has ended before the first sweep, so that nobody can take a lease again. *)
Admission ==
  /\ active \subseteq Callers /\ {t \in Callers : pc[t] # "idle"} \subseteq active
  /\ closed \in BOOLEAN /\ killing \in BOOLEAN
  /\ unload \in UnloadStages
  /\ closed <=> unload # "serving"
ShutdownInv ==
  /\ unload = "stopping" <=> pc[Stopper] # "off"
  /\ unload \in {"drained", "stopping"} => active = {}
  /\ unload = "stopping" => writing = {}
  /\ pc[Stopper] \in {"sweeping", "waiting", "stopped"} => pc[Watch] \in {"absent", "exited"}
  /\ pc[Stopper] = "stopped" => LeasedPids = {}
ServiceInv == Admission /\ ShutdownInv

(* An RPC thread works only for a call that was admitted.                  *)
LEMMA ServeKeeps ==
  ASSUME TypeOK, ServiceInv, NEW t \in Callers, Serve(t)
  PROVE  ServiceInv'
<1>1. t \in active /\ UNCHANGED serviceVars
  BY DEF Serve
<1>2. unload \notin {"drained", "stopping"} /\ pc[Stopper] = "off"
  BY <1>1 DEF ServiceInv, ShutdownInv
<1>3. pc'[Stopper] = "off" /\ \A u \in Callers \ {t} : pc'[u] = pc[u]
  BY <1>2, CallerMoves, CallerThreads, ThreadAssumption
<1>. QED
  BY <1>1, <1>2, <1>3 DEF ServiceInv, ShutdownInv, Admission, serviceVars

(* Admission, and the stages of shutdown, move no thread.                  *)
LEMMA StagesKeep ==
  ASSUME ServiceInv,
         \/ \E t \in Callers : Enter(t) \/ Leave(t)
         \/ StopAdmission \/ CancelProcesses \/ WaitForDrain \/ RetainGates
  PROVE  ServiceInv'
<1> USE DEF ServiceInv, ShutdownInv, Admission, UnloadStages, vars, LeasedPids, HasLease
<1>1. ASSUME NEW t \in Callers, Enter(t) PROVE ServiceInv'
  BY <1>1 DEF Enter
<1>2. ASSUME NEW t \in Callers, Leave(t) PROVE ServiceInv'
  BY <1>2 DEF Leave
<1>3. ASSUME StopAdmission PROVE ServiceInv'
  BY <1>3 DEF StopAdmission
<1>4. ASSUME CancelProcesses PROVE ServiceInv'
  BY <1>4 DEF CancelProcesses
<1>5. ASSUME WaitForDrain PROVE ServiceInv'
  BY <1>5 DEF WaitForDrain, Drained
<1>6. ASSUME RetainGates PROVE ServiceInv'
  BY <1>6 DEF RetainGates
<1>. QED
  BY <1>1, <1>2, <1>3, <1>4, <1>5, <1>6

(* The drain is over before the watchdog is stopped, and the watchdog is    *)
(* stopped before the sweep.                                               *)
LEMMA StopWatchdogKeeps ==
  ASSUME TypeOK, ServiceInv, StopWatchdog
  PROVE  ServiceInv'
<1>1. /\ unload = "drained" /\ writing = {} /\ unload' = "stopping"
      /\ UNCHANGED <<active, closed, killing, writing>>
      /\ Goto(Stopper, "joining")
  BY DEF StopWatchdog, ProcessesExited, StopCall, opVars
<1>2. pc'[Stopper] = "joining" /\ \A u \in Callers : pc'[u] = pc[u]
  BY <1>1, Moved, CallerThreads, ThreadAssumption
<1>. QED
  BY <1>1, <1>2 DEF ServiceInv, ShutdownInv, Admission, UnloadStages

(* Once the watchdog is stopped, only the world outside goes on.           *)
LEMMA StoppedStays ==
  ASSUME TypeOK, ServiceInv, Background, pc[Stopper] = "stopped"
  PROVE  LeasedPids' = {} /\ UNCHANGED pc
<1>1. WorldNext
  BY DEF Background, ServiceInv, ShutdownInv, WatchNext, WatchScan, WatchParks, WatchExits,
    SweepNext, StopRound, StopConfirmed, StopFails, ReleaseNext, GiveUp, Released,
    ReleaseFails, CanRelease
<1>2. \A p \in Pids : leases[p] = NoLease
  BY DEF ServiceInv, ShutdownInv, LeasedPids, HasLease
<1>. QED
  BY <1>1, <1>2 DEF WorldNext, LaunchMoves, TargetVanishes, ScopeReplaced, Meddle, Tick,
    LeasedPids, HasLease, gateVars, threadVars

(* The watchdog thread does not come back once the sweep has begun.        *)
LEMMA SweepStages ==
  ASSUME TypeOK, ServiceInv, Background
  PROVE  /\ pc[Stopper] = "off" <=> pc'[Stopper] = "off"
         /\ pc'[Stopper] \in {"sweeping", "waiting", "stopped"} =>
              pc'[Watch] \in {"absent", "exited"}
         /\ pc'[Stopper] = "stopped" => LeasedPids' = {}
<1> USE CallerThreads, Moved DEF ServiceInv, ShutdownInv
<1>0. Stopper \notin Callers /\ Watch # Stopper
  BY ThreadAssumption
<1>1. CASE WorldNext
  <2>1. pc' = pc
    BY <1>1 DEF WorldNext, LaunchMoves, TargetVanishes, ScopeReplaced, Meddle, Tick, threadVars
  <2>. QED
    BY <2>1, StoppedStays
<1>2. CASE WatchNext \/ ReleaseNext(Watch)
  <2>1. pc[Watch] \in {"parked", "sweeping", "waiting"} /\ pc'[Stopper] = pc[Stopper]
    BY <1>0, <1>2 DEF WatchNext, WatchScan, WatchParks, WatchExits, SweepNext, ResumeRequest,
      ReleaseNext, GiveUp, Released, ReleaseFails, CanRelease
  <2>. QED
    BY <2>1, StoppedStays
<1>3. CASE SweepNext(Stopper) \/ ReleaseNext(Stopper)
  <2>1. /\ pc[Stopper] \in {"sweeping", "waiting"} /\ pc'[Stopper] \in {"sweeping", "waiting"}
        /\ pc'[Watch] = pc[Watch]
    BY <1>0, <1>3 DEF SweepNext, ResumeRequest, ReleaseNext, GiveUp, Released, ReleaseFails,
      CanRelease, Home
  <2>. QED
    BY <2>1
<1>4. CASE StopRound \/ StopFails
  BY <1>0, <1>4 DEF StopRound, StopFails
<1>5. CASE StopConfirmed
  BY <1>0, <1>5 DEF StopConfirmed, LeasedPids, HasLease, gateVars
<1>. QED
  BY <1>1, <1>2, <1>3, <1>4, <1>5 DEF Background

(* What goes on in the background respects the stages of shutdown.         *)
LEMMA BackgroundKeeps ==
  ASSUME TypeOK, ServiceInv, Background
  PROVE  ServiceInv'
<1>1. UNCHANGED <<serviceVars, writing>> /\ \A u \in Callers : pc'[u] = pc[u]
  BY BackgroundMoves, CallerThreads, ThreadAssumption DEF BackgroundOf
<1>. QED
  BY <1>1, SweepStages DEF ServiceInv, ShutdownInv, Admission, serviceVars

(* Admission and the stages of shutdown hold throughout.                   *)
THEOREM ShutdownInvariant == ServiceSpec => []ServiceInv
<1>1. ServiceInit => ServiceInv
  BY ThreadAssumption DEF ServiceInit, Init, ServiceInv, ShutdownInv, Admission, UnloadStages, Threads
<1>2. TypeOK /\ ServiceInv /\ [ServiceNext]_allVars => ServiceInv'
  <2> SUFFICES ASSUME TypeOK, ServiceInv, [ServiceNext]_allVars PROVE ServiceInv'
    OBVIOUS
  <2>1. CASE UNCHANGED allVars
    BY <2>1 DEF allVars, vars, serviceVars, ServiceInv, ShutdownInv, Admission, LeasedPids, HasLease
  <2>. QED
    BY <2>1, ServeKeeps, StagesKeep, StopWatchdogKeeps, BackgroundKeeps DEF ServiceNext
<1>. QED
  BY <1>1, <1>2, ServiceRunsWatchdog, TypeCorrect, PTL DEF ServiceSpec

(* Every working thread serves an admitted call, and the stages of         *)
(* shutdown follow each other.                                             *)
THEOREM ServiceTypeCorrect == ServiceSpec => []ServiceTypeOK
<1>1. TypeOK /\ ServiceInv => ServiceTypeOK
  BY DEF ServiceInv, Admission, ServiceTypeOK
<1>. QED
  BY <1>1, ShutdownInvariant, ServiceRunsWatchdog, TypeCorrect, PTL

(* A shutdown that reports success has stopped everything, and nothing     *)
(* starts again.                                                           *)
THEOREM ShutdownCompletes == ServiceSpec => []ShutdownIsComplete
<1>1. TypeOK /\ HoldsAccounted /\ ServiceInv => ShutdownIsComplete
  <2> SUFFICES ASSUME TypeOK, HoldsAccounted, ServiceInv, pc[Stopper] = "stopped"
               PROVE  ShutdownIsComplete
    BY DEF ShutdownIsComplete
  <2>1. unload = "stopping" /\ LeasedPids = {}
    BY DEF ServiceInv, ShutdownInv
  <2>2. held \subseteq orphans
    BY <2>1, TargetAssumption DEF HoldsAccounted, LeasedPids, TypeOK, WorldTypeOK
  <2>. QED
    BY <2>1, <2>2 DEF ServiceInv, ShutdownInv, Admission, ShutdownIsComplete
<1>. QED
  BY <1>1, ShutdownInvariant, ServiceRunsWatchdog, TypeCorrect, HoldsRecorded, PTL

(* While the sweep of shutdown releases gates, no call is served and no    *)
(* Ludusavi command runs.                                                  *)
THEOREM ShutdownClosed == ServiceSpec => ShutdownFailsClosed
<1>1. ServiceInv /\ [ServiceNext]_allVars =>
        [pc[Stopper] = "waiting" /\ held' # held /\ life' = life /\ meddled' = meddled
           => active = {} /\ writing = {}]_allVars
  BY DEF ServiceInv, ShutdownInv
<1>. QED
  BY <1>1, ShutdownInvariant, PTL DEF ServiceSpec, ShutdownFailsClosed
=============================================================================
