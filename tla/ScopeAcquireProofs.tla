------------------------ MODULE ScopeAcquireProofs -------------------------
(***************************************************************************)
(* The invariants of ScopeAcquire, for any number of incarnations of the   *)
(* PID and of its scopes, and any interleaving of the call with the kernel, *)
(* the service manager and meddlers.  The inductive invariant has the       *)
(* types, and then                                                         *)
(*   Placed    what the call remembers at each of its steps;               *)
(*   Standing  who can have the PID and which scopes can exist;            *)
(*   Closed    why the process stays inside the frozen scope;              *)
(*   Held      what the lease's stop or freeze rests on at each step;      *)
(*   Left      what the call still has to undo.                            *)
(***************************************************************************)
EXTENDS ScopeAcquire, TLAPS

USE DEF procVars, scopeVars, callVars, pastVars, vars, Locals, Units
USE ScopeAssumption

(* The steps before a scope is found, those that work on the scope, and the *)
(* clean-up.                                                               *)
Before == {"idle", "signal", "discover", "await", "confirm", "children"}
Freezing == {"freeze", "command", "frozen", "undo", "undoing"}
Frozen == {"recheck", "rediscover", "continue", "handoff"}
Ending == {"unwind", "uncont", "release", "thawing"}

(* The parts of TypeOK.                                                    *)
ProcTyped ==
  /\ root \in 0..born /\ born \in 1..MaxProcs
  /\ signal \in {"running", "stopping", "stopped"}
  /\ cgroup \in Scopes \cup {Launcher, Elsewhere}
  /\ kids \in {"none", "child", "hidden"}
ScopeTyped ==
  /\ dir \in [Units -> Scopes \cup {NoScope}]
  /\ asked \cup frozen \subseteq made /\ made \subseteq Scopes
LeaseTyped ==
  /\ lease \in [proc : 0..born, scope : Scopes \cup {NoScope}]
  /\ lease.proc = 0 \/ lease.scope = NoScope
IdTyped == id \in 0..born /\ (pc = "idle" <=> id = 0)
CallTyped ==
  /\ found \in Scopes \cup {NoScope} /\ mine \in {found, NoScope}
  /\ mine # NoScope => mine # lease.scope
  /\ stopped \in BOOLEAN
PastTyped ==
  /\ letGo \subseteq Procs \cup Scopes /\ strays \subseteq Procs /\ leftovers \subseteq Scopes

Placed ==
  /\ pc \in Before \cup Freezing \cup Frozen \cup Ending \cup {"identify", "verify"}
  /\ pc \in Before => found = NoScope
  /\ pc \in Freezing \cup Frozen \cup {"identify", "verify"} => found \in Scopes
  /\ pc \in Freezing => found # lease.scope
  /\ pc = "thawing" => mine \in Scopes
  /\ pc \in {"idle", "signal"} => ~stopped
  /\ pc = "handoff" => signal = "running"

Standing ==
  /\ root \in {0, born}
  /\ root = 0 => signal = "running"
  /\ pc # "idle" => lease.proc <= id
  /\ \A s \in Scopes : Exists(s) => s \in made
  /\ \A u \in Units : dir[u] # NoScope => Unit[dir[u]] = u
  /\ \A s \in asked : Exists(s)
  /\ found \in made \cup {NoScope} /\ lease.scope \in made \cup {NoScope}
  /\ found \in Scopes /\ Exists(lease.scope) =>
       found = lease.scope \/ Unit[found] # Unit[lease.scope]

Closed ==
  /\ pc \in Frozen /\ found \notin letGo /\ Exists(found) => found \in asked \cap frozen
  /\ pc \in {"continue", "handoff"} /\ root = id /\ found \notin letGo =>
       cgroup = found /\ Exists(found)

(* The scope of the lease, the stop of a call that has looked at it, and   *)
(* the process of the lease: stopped, or already handed to a freezer.      *)
ScopeHeld ==
  Exists(lease.scope) /\ lease.scope \notin letGo => lease.scope \in asked \cap frozen
SeenStopped ==
  pc \in {"confirm", "children"} /\ root = id /\ id \notin letGo => signal = "stopped"
InFreezer ==
  /\ pc \in Ending \cup {"handoff"} /\ signal = "running"
  /\ found \notin letGo => cgroup = found /\ found \in asked \cap frozen /\ kids # "child"
ProcHeld ==
  lease.proc # 0 /\ root = lease.proc /\ lease.proc \notin letGo =>
    (signal = "stopped" /\ kids # "child") \/ InFreezer
Held == ScopeHeld /\ SeenStopped /\ ProcHeld

Undoable == IF pc \in {"frozen", "undo", "undoing"} THEN found ELSE mine
Stopper == IF stopped /\ pc \notin {"release", "thawing"} THEN {id} ELSE {}
Left ==
  /\ asked \subseteq {lease.scope, Undoable} \cup leftovers
  /\ root # 0 /\ signal # "running" => root \in {lease.proc} \cup Stopper \cup strays

IInv == TypeOK /\ Placed /\ Standing /\ Closed /\ Held /\ Left

USE DEF Before, Freezing, Frozen, Ending

(* Every step keeps the types.  The PID's incarnation 0 stands for nobody,  *)
(* so the histories collect real processes only.                           *)
LEMMA TypeStep == IInv /\ [Next]_vars => TypeOK'
<1> SUFFICES ASSUME IInv, [Next]_vars PROVE TypeOK'
  OBVIOUS
<1>0. TypeOK /\ Placed /\ Standing /\ Closed /\ Held /\ Left
  BY DEF IInv
<1>a. (0..born) \ {0} \subseteq Procs
  BY <1>0, ScopeAssumption DEF TypeOK, Procs
<1>b. ({root, lease.proc, id} \ {0}) \subseteq Procs
  BY <1>0, <1>a DEF TypeOK
<1>1. ASSUME ReadIdentity PROVE TypeOK'
  BY <1>0, <1>a, <1>b, <1>1 DEF ReadIdentity, TypeOK, At
<1>2. ASSUME SendStop PROVE TypeOK'
  <2> USE DEF SendStop, TypeOK, CallEnds, At
  <2>1. ProcTyped'
    BY <1>0, <1>a, <1>b, <1>2 DEF ProcTyped
  <2>2. ScopeTyped'
    BY <1>0, <1>a, <1>b, <1>2 DEF ScopeTyped
  <2>3. LeaseTyped'
    BY <1>0, <1>a, <1>b, <1>2 DEF LeaseTyped
  <2>4. IdTyped'
    BY <1>0, <1>a, <1>b, <1>2 DEF IdTyped
  <2>5. CallTyped'
    BY <1>0, <1>a, <1>b, <1>2 DEF CallTyped
  <2>6. PastTyped'
    BY <1>0, <1>a, <1>b, <1>2 DEF PastTyped
  <2>. QED
    BY <2>1, <2>2, <2>3, <2>4, <2>5, <2>6
    DEF ProcTyped, ScopeTyped, LeaseTyped, IdTyped, CallTyped, PastTyped
<1>3. ASSUME Discover PROVE TypeOK'
  BY <1>0, <1>a, <1>b, <1>3 DEF Discover, TypeOK, Placed, Exists
<1>4. ASSUME AwaitStop PROVE TypeOK'
  BY <1>0, <1>a, <1>b, <1>4 DEF AwaitStop, TypeOK, At, SeesStopped
<1>5. ASSUME ConfirmIdentity PROVE TypeOK'
  BY <1>0, <1>a, <1>b, <1>5 DEF ConfirmIdentity, TypeOK, At
<1>6. ASSUME CheckChildren PROVE TypeOK'
  <2> USE DEF CheckChildren, TypeOK, Holds, CallEnds
  <2>1. ProcTyped'
    BY <1>0, <1>a, <1>b, <1>6 DEF ProcTyped
  <2>2. ScopeTyped'
    BY <1>0, <1>a, <1>b, <1>6 DEF ScopeTyped
  <2>3. LeaseTyped'
    BY <1>0, <1>a, <1>b, <1>6 DEF LeaseTyped
  <2>4. IdTyped'
    BY <1>0, <1>a, <1>b, <1>6 DEF IdTyped
  <2>5. CallTyped'
    BY <1>0, <1>a, <1>b, <1>6 DEF CallTyped
  <2>6. PastTyped'
    BY <1>0, <1>a, <1>b, <1>6 DEF PastTyped
  <2>. QED
    BY <2>1, <2>2, <2>3, <2>4, <2>5, <2>6
    DEF ProcTyped, ScopeTyped, LeaseTyped, IdTyped, CallTyped, PastTyped
<1>7. ASSUME IdentifyScope PROVE TypeOK'
  BY <1>0, <1>a, <1>b, <1>7 DEF IdentifyScope, TypeOK, At
<1>8. ASSUME CheckScope PROVE TypeOK'
  BY <1>0, <1>a, <1>b, <1>8 DEF CheckScope, TypeOK, At, Exists
<1>9. ASSUME SystemctlFreeze PROVE TypeOK'
  BY <1>0, <1>a, <1>b, <1>9 DEF SystemctlFreeze, TypeOK, Placed, Standing, Exists
<1>10. ASSUME Verify PROVE TypeOK'
  BY <1>0, <1>a, <1>b, <1>10 DEF Verify, TypeOK, VerifiedFrozen, Acquired, At, Exists
<1>11. ASSUME Recheck PROVE TypeOK'
  BY <1>0, <1>a, <1>b, <1>11 DEF Recheck, TypeOK, At
<1>12. ASSUME Rediscover PROVE TypeOK'
  BY <1>0, <1>a, <1>b, <1>12 DEF Rediscover, TypeOK, At, StillInside, Exists
<1>13. ASSUME ReleaseBootstrap PROVE TypeOK'
  BY <1>0, <1>a, <1>b, <1>13 DEF ReleaseBootstrap, TypeOK, Continue, At
<1>14. ASSUME VerifyHandoff PROVE TypeOK'
  <2> USE DEF VerifyHandoff, TypeOK, VerifiedFrozen, Holds, Exists, CallEnds
  <2>1. ProcTyped'
    BY <1>0, <1>a, <1>b, <1>14 DEF ProcTyped
  <2>2. ScopeTyped'
    BY <1>0, <1>a, <1>b, <1>14 DEF ScopeTyped
  <2>3. LeaseTyped'
    BY <1>0, <1>a, <1>b, <1>14 DEF LeaseTyped
  <2>4. IdTyped'
    BY <1>0, <1>a, <1>b, <1>14 DEF IdTyped
  <2>5. CallTyped'
    BY <1>0, <1>a, <1>b, <1>14 DEF CallTyped
  <2>6. PastTyped'
    BY <1>0, <1>a, <1>b, <1>14 DEF PastTyped
  <2>. QED
    BY <2>1, <2>2, <2>3, <2>4, <2>5, <2>6
    DEF ProcTyped, ScopeTyped, LeaseTyped, IdTyped, CallTyped, PastTyped
<1>15. ASSUME Unwind PROVE TypeOK'
  BY <1>0, <1>a, <1>b, <1>15 DEF Unwind, TypeOK, At, MayContinue
<1>16. ASSUME UnwindStop PROVE TypeOK'
  BY <1>0, <1>a, <1>b, <1>16 DEF UnwindStop, TypeOK, Continue, At
<1>17. ASSUME ThawCheck("undo", "undoing") PROVE TypeOK'
  BY <1>0, <1>a, <1>b, <1>17 DEF ThawCheck, TypeOK, Undone, Exists, AfterThaw, Fails,
    CallEnds
<1>18. ASSUME ThawCheck("release", "thawing") PROVE TypeOK'
  <2> USE DEF ThawCheck, TypeOK, Undone, Exists, AfterThaw, Fails, CallEnds
  <2>1. ProcTyped'
    BY <1>0, <1>a, <1>b, <1>18 DEF ProcTyped
  <2>2. ScopeTyped'
    BY <1>0, <1>a, <1>b, <1>18 DEF ScopeTyped
  <2>3. LeaseTyped'
    BY <1>0, <1>a, <1>b, <1>18 DEF LeaseTyped
  <2>4. IdTyped'
    BY <1>0, <1>a, <1>b, <1>18 DEF IdTyped
  <2>5. CallTyped'
    BY <1>0, <1>a, <1>b, <1>18 DEF CallTyped
  <2>6. PastTyped'
    BY <1>0, <1>a, <1>b, <1>18 DEF PastTyped
  <2>. QED
    BY <2>1, <2>2, <2>3, <2>4, <2>5, <2>6
    DEF ProcTyped, ScopeTyped, LeaseTyped, IdTyped, CallTyped, PastTyped
<1>19. ASSUME SystemctlThaw("undo", "undoing") PROVE TypeOK'
  BY <1>0, <1>a, <1>b, <1>19 DEF SystemctlThaw, TypeOK, Undone, AfterThaw, Fails, CallEnds
<1>20. ASSUME SystemctlThaw("release", "thawing") PROVE TypeOK'
  <2> USE DEF SystemctlThaw, TypeOK, Undone, AfterThaw, Fails, CallEnds
  <2>1. ProcTyped'
    BY <1>0, <1>a, <1>b, <1>20 DEF ProcTyped
  <2>2. ScopeTyped'
    BY <1>0, <1>a, <1>b, <1>20 DEF ScopeTyped
  <2>3. LeaseTyped'
    BY <1>0, <1>a, <1>b, <1>20 DEF LeaseTyped
  <2>4. IdTyped'
    BY <1>0, <1>a, <1>b, <1>20 DEF IdTyped
  <2>5. CallTyped'
    BY <1>0, <1>a, <1>b, <1>20 DEF CallTyped
  <2>6. PastTyped'
    BY <1>0, <1>a, <1>b, <1>20 DEF PastTyped
  <2>. QED
    BY <2>1, <2>2, <2>3, <2>4, <2>5, <2>6
    DEF ProcTyped, ScopeTyped, LeaseTyped, IdTyped, CallTyped, PastTyped
<1>21. ASSUME ReleaseLease PROVE TypeOK'
  BY <1>0, <1>a, <1>b, <1>21 DEF ReleaseLease, TypeOK, NoLease
<1>22. ASSUME KernelStops PROVE TypeOK'
  BY <1>0, <1>a, <1>b, <1>22 DEF KernelStops, TypeOK
<1>23. ASSUME KernelFreezes PROVE TypeOK'
  BY <1>0, <1>a, <1>b, <1>23 DEF KernelFreezes, TypeOK
<1>24. ASSUME Forks PROVE TypeOK'
  BY <1>0, <1>a, <1>b, <1>24 DEF Forks, TypeOK, Runs
<1>25. ASSUME Moves PROVE TypeOK'
  <2>1. CASE cgroup \in Scopes /\ cgroup' = Elsewhere
    BY <1>0, <1>a, <1>b, <1>25, <2>1 DEF Moves, TypeOK
  <2>2. ASSUME NEW s \in Scopes \ made, dir[Unit[s]] = NoScope, cgroup = Launcher, cgroup' = s,
               made' = made \cup {s}, dir' = [dir EXCEPT ![Unit[s]] = s], UNCHANGED letGo
        PROVE  TypeOK'
    <3>1. Unit[s] \in Units /\ dir' \in [Units -> Scopes \cup {NoScope}]
      BY <1>0, <2>2 DEF TypeOK
    <3>2. \A u \in Units : dir'[u] = IF u = Unit[s] THEN s ELSE dir[u]
      BY <1>0, <2>2, <3>1 DEF TypeOK
    <3>. QED
      BY <1>0, <1>a, <1>b, <1>25, <2>2, <3>1, <3>2 DEF Moves, TypeOK
  <2>. QED
    BY <1>25, <2>1, <2>2 DEF Moves
<1>26. ASSUME Exits PROVE TypeOK'
  BY <1>0, <1>a, <1>b, <1>26 DEF Exits, TypeOK
<1>27. ASSUME PidReused PROVE TypeOK'
  BY <1>0, <1>a, <1>b, <1>27 DEF PidReused, TypeOK
<1>28. ASSUME NEW s \in Scopes, ScopeRemoved(s) PROVE TypeOK'
  BY <1>0, <1>a, <1>b, <1>28 DEF ScopeRemoved, TypeOK, Exists
<1>29. ASSUME Meddle PROVE TypeOK'
  BY <1>0, <1>a, <1>b, <1>29 DEF Meddle, TypeOK
<1>30. ASSUME UNCHANGED vars PROVE TypeOK'
  BY <1>0, <1>a, <1>b, <1>30 DEF TypeOK
<1>. QED
  BY <1>1, <1>2, <1>3, <1>4, <1>5, <1>6, <1>7, <1>8, <1>9, <1>10, <1>11, <1>12, <1>13,
    <1>14, <1>15, <1>16, <1>17, <1>18, <1>19, <1>20, <1>21, <1>22, <1>23, <1>24, <1>25,
    <1>26, <1>27, <1>28, <1>29, <1>30 DEF Next, Acquire, CleanUp, World

(* What the call remembers fits the step it is at: a scope is found before  *)
(* it is frozen, and it is not the scope of the lease.                     *)
LEMMA PlacedStep == IInv /\ [Next]_vars => Placed'
<1> SUFFICES ASSUME IInv, [Next]_vars PROVE Placed'
  OBVIOUS
<1>0. TypeOK /\ Placed /\ Standing /\ Closed /\ Held /\ Left
  BY DEF IInv
<1>1. ASSUME ReadIdentity PROVE Placed'
  BY <1>0, <1>1 DEF ReadIdentity, Placed, At
<1>2. ASSUME SendStop PROVE Placed'
  BY <1>0, <1>2 DEF SendStop, Placed, CallEnds, At
<1>3. ASSUME Discover PROVE Placed'
  BY <1>0, <1>3 DEF Discover, Placed, Exists
<1>4. ASSUME AwaitStop PROVE Placed'
  BY <1>0, <1>4 DEF AwaitStop, Placed, At, SeesStopped
<1>5. ASSUME ConfirmIdentity PROVE Placed'
  BY <1>0, <1>5 DEF ConfirmIdentity, Placed, At
<1>6. ASSUME CheckChildren PROVE Placed'
  BY <1>0, <1>6 DEF CheckChildren, Placed, Holds, CallEnds
<1>7. ASSUME IdentifyScope PROVE Placed'
  BY <1>0, <1>7 DEF IdentifyScope, Placed, At
<1>8. ASSUME CheckScope PROVE Placed'
  BY <1>0, <1>8 DEF CheckScope, Placed, At, Exists
<1>9. ASSUME SystemctlFreeze PROVE Placed'
  BY <1>0, <1>9 DEF SystemctlFreeze, Placed
<1>10. ASSUME Verify PROVE Placed'
  BY <1>0, <1>10 DEF Verify, Placed, VerifiedFrozen, Acquired, At, Exists
<1>11. ASSUME Recheck PROVE Placed'
  BY <1>0, <1>11 DEF Recheck, Placed, At
<1>12. ASSUME Rediscover PROVE Placed'
  BY <1>0, <1>12 DEF Rediscover, Placed, At, StillInside, Exists
<1>13. ASSUME ReleaseBootstrap PROVE Placed'
  BY <1>0, <1>13 DEF ReleaseBootstrap, Placed, Continue, At
<1>14. ASSUME VerifyHandoff PROVE Placed'
  BY <1>0, <1>14 DEF VerifyHandoff, Placed, VerifiedFrozen, Holds, Exists, CallEnds
<1>15. ASSUME Unwind PROVE Placed'
  BY <1>0, <1>15 DEF Unwind, Placed, At, MayContinue
<1>16. ASSUME UnwindStop PROVE Placed'
  BY <1>0, <1>16 DEF UnwindStop, Placed, Continue, At
<1>17. ASSUME ThawCheck("undo", "undoing") PROVE Placed'
  BY <1>0, <1>17 DEF ThawCheck, Placed, Undone, Exists, AfterThaw, Fails, CallEnds
<1>18. ASSUME ThawCheck("release", "thawing") PROVE Placed'
  BY <1>0, <1>18 DEF ThawCheck, Placed, Undone, Exists, AfterThaw, Fails, CallEnds
<1>19. ASSUME SystemctlThaw("undo", "undoing") PROVE Placed'
  BY <1>0, <1>19 DEF SystemctlThaw, Placed, Undone, AfterThaw, Fails, CallEnds
<1>20. ASSUME SystemctlThaw("release", "thawing") PROVE Placed'
  BY <1>0, <1>20 DEF SystemctlThaw, Placed, Undone, AfterThaw, Fails, CallEnds
<1>21. ASSUME ReleaseLease PROVE Placed'
  BY <1>0, <1>21 DEF ReleaseLease, Placed, NoLease
<1>22. ASSUME KernelStops PROVE Placed'
  BY <1>0, <1>22 DEF KernelStops, Placed
<1>23. ASSUME KernelFreezes PROVE Placed'
  BY <1>0, <1>23 DEF KernelFreezes, Placed
<1>24. ASSUME Forks PROVE Placed'
  BY <1>0, <1>24 DEF Forks, Placed, Runs
<1>25. ASSUME Moves PROVE Placed'
  BY <1>0, <1>25 DEF Moves, Placed
<1>26. ASSUME Exits PROVE Placed'
  BY <1>0, <1>26 DEF Exits, Placed
<1>27. ASSUME PidReused PROVE Placed'
  BY <1>0, <1>27 DEF PidReused, Placed
<1>28. ASSUME NEW s \in Scopes, ScopeRemoved(s) PROVE Placed'
  BY <1>0, <1>28 DEF ScopeRemoved, Placed, Exists
<1>29. ASSUME Meddle PROVE Placed'
  BY <1>0, <1>29 DEF Meddle, Placed
<1>30. ASSUME UNCHANGED vars PROVE Placed'
  BY <1>0, <1>30 DEF Placed
<1>. QED
  BY <1>1, <1>2, <1>3, <1>4, <1>5, <1>6, <1>7, <1>8, <1>9, <1>10, <1>11, <1>12, <1>13,
    <1>14, <1>15, <1>16, <1>17, <1>18, <1>19, <1>20, <1>21, <1>22, <1>23, <1>24, <1>25,
    <1>26, <1>27, <1>28, <1>29, <1>30 DEF Next, Acquire, CleanUp, World

(* Whoever has the PID is its last incarnation, and a unit's directory is   *)
(* that of one scope made before.                                          *)
LEMMA StandingStep == IInv /\ [Next]_vars => Standing'
<1> SUFFICES ASSUME IInv, [Next]_vars PROVE Standing'
  OBVIOUS
<1>0. TypeOK /\ Placed /\ Standing /\ Closed /\ Held /\ Left
  BY DEF IInv
<1>1. ASSUME ReadIdentity PROVE Standing'
  BY <1>0, <1>1 DEF ReadIdentity, Standing, TypeOK, At, Exists
<1>2. ASSUME SendStop PROVE Standing'
  BY <1>0, <1>2 DEF SendStop, Standing, CallEnds, At, Exists
<1>3. ASSUME Discover PROVE Standing'
  BY <1>0, <1>3 DEF Discover, Standing, Exists
<1>4. ASSUME AwaitStop PROVE Standing'
  BY <1>0, <1>4 DEF AwaitStop, Standing, At, SeesStopped, Exists
<1>5. ASSUME ConfirmIdentity PROVE Standing'
  BY <1>0, <1>5 DEF ConfirmIdentity, Standing, At, Exists
<1>6. ASSUME CheckChildren PROVE Standing'
  BY <1>0, <1>6 DEF CheckChildren, Standing, Holds, Exists, CallEnds
<1>7. ASSUME IdentifyScope PROVE Standing'
  BY <1>0, <1>7 DEF IdentifyScope, Standing, At, Exists
<1>8. ASSUME CheckScope PROVE Standing'
  BY <1>0, <1>8 DEF CheckScope, Standing, At, Exists
<1>9. ASSUME SystemctlFreeze PROVE Standing'
  BY <1>0, <1>9 DEF SystemctlFreeze, Standing, TypeOK, Placed, Exists
<1>10. ASSUME Verify PROVE Standing'
  BY <1>0, <1>10 DEF Verify, Standing, VerifiedFrozen, Acquired, At, Exists
<1>11. ASSUME Recheck PROVE Standing'
  BY <1>0, <1>11 DEF Recheck, Standing, At, Exists
<1>12. ASSUME Rediscover PROVE Standing'
  BY <1>0, <1>12 DEF Rediscover, Standing, At, StillInside, Exists
<1>13. ASSUME ReleaseBootstrap PROVE Standing'
  BY <1>0, <1>13 DEF ReleaseBootstrap, Standing, Continue, At, Exists
<1>14. ASSUME VerifyHandoff PROVE Standing'
  BY <1>0, <1>14 DEF VerifyHandoff, Standing, VerifiedFrozen, Holds, Exists, CallEnds
<1>15. ASSUME Unwind PROVE Standing'
  BY <1>0, <1>15 DEF Unwind, Standing, At, MayContinue, Exists
<1>16. ASSUME UnwindStop PROVE Standing'
  BY <1>0, <1>16 DEF UnwindStop, Standing, Continue, At, Exists
<1>17. ASSUME ThawCheck("undo", "undoing") PROVE Standing'
  BY <1>0, <1>17 DEF ThawCheck, Standing, Undone, Exists, AfterThaw, Fails, CallEnds
<1>18. ASSUME ThawCheck("release", "thawing") PROVE Standing'
  BY <1>0, <1>18 DEF ThawCheck, Standing, Undone, Exists, AfterThaw, Fails, CallEnds
<1>19. ASSUME SystemctlThaw("undo", "undoing") PROVE Standing'
  BY <1>0, <1>19 DEF SystemctlThaw, Standing, Undone, AfterThaw, Exists, Fails, CallEnds
<1>20. ASSUME SystemctlThaw("release", "thawing") PROVE Standing'
  BY <1>0, <1>20 DEF SystemctlThaw, Standing, Undone, AfterThaw, Exists, Fails, CallEnds
<1>21. ASSUME ReleaseLease PROVE Standing'
  BY <1>0, <1>21 DEF ReleaseLease, Standing, NoLease, Exists
<1>22. ASSUME KernelStops PROVE Standing'
  BY <1>0, <1>22 DEF KernelStops, Standing, Exists
<1>23. ASSUME KernelFreezes PROVE Standing'
  BY <1>0, <1>23 DEF KernelFreezes, Standing, Exists
<1>24. ASSUME Forks PROVE Standing'
  BY <1>0, <1>24 DEF Forks, Standing, Runs, Exists
<1>25. ASSUME Moves PROVE Standing'
  <2>1. CASE cgroup \in Scopes /\ cgroup' = Elsewhere
    BY <1>0, <1>25, <2>1 DEF Moves, Standing, Exists
  <2>2. ASSUME NEW s \in Scopes \ made, dir[Unit[s]] = NoScope, cgroup = Launcher, cgroup' = s,
               made' = made \cup {s}, dir' = [dir EXCEPT ![Unit[s]] = s], UNCHANGED letGo
        PROVE  Standing'
    <3>1. Unit[s] \in Units /\ dir' \in [Units -> Scopes \cup {NoScope}]
      BY <1>0, <2>2 DEF TypeOK
    <3>2. \A u \in Units : dir'[u] = IF u = Unit[s] THEN s ELSE dir[u]
      BY <1>0, <2>2, <3>1 DEF TypeOK
    <3>. QED
      BY <1>0, <1>25, <2>2, <3>1, <3>2 DEF Moves, Standing, Exists
  <2>. QED
    BY <1>25, <2>1, <2>2 DEF Moves
<1>26. ASSUME Exits PROVE Standing'
  BY <1>0, <1>26 DEF Exits, Standing, Exists
<1>27. ASSUME PidReused PROVE Standing'
  BY <1>0, <1>27 DEF PidReused, Standing, Exists
<1>28. ASSUME NEW s \in Scopes, ScopeRemoved(s) PROVE Standing'
  BY <1>0, <1>28 DEF ScopeRemoved, Standing, Exists
<1>29. ASSUME Meddle PROVE Standing'
  BY <1>0, <1>29 DEF Meddle, Standing, Exists
<1>30. ASSUME UNCHANGED vars PROVE Standing'
  BY <1>0, <1>30 DEF Standing, Exists
<1>. QED
  BY <1>1, <1>2, <1>3, <1>4, <1>5, <1>6, <1>7, <1>8, <1>9, <1>10, <1>11, <1>12, <1>13,
    <1>14, <1>15, <1>16, <1>17, <1>18, <1>19, <1>20, <1>21, <1>22, <1>23, <1>24, <1>25,
    <1>26, <1>27, <1>28, <1>29, <1>30 DEF Next, Acquire, CleanUp, World

(* Once the scope has been seen frozen it stays so, as long as nobody lets  *)
(* it go, and a process that was seen inside it cannot leave.              *)
LEMMA ClosedStep == IInv /\ [Next]_vars => Closed'
<1> SUFFICES ASSUME IInv, [Next]_vars PROVE Closed'
  OBVIOUS
<1>0. TypeOK /\ Placed /\ Standing /\ Closed /\ Held /\ Left
  BY DEF IInv
<1>1. ASSUME ReadIdentity PROVE Closed'
  BY <1>0, <1>1 DEF ReadIdentity, Closed, At, Exists
<1>2. ASSUME SendStop PROVE Closed'
  BY <1>0, <1>2 DEF SendStop, Closed, CallEnds, At, Exists
<1>3. ASSUME Discover PROVE Closed'
  BY <1>0, <1>3 DEF Discover, Closed, Exists
<1>4. ASSUME AwaitStop PROVE Closed'
  BY <1>0, <1>4 DEF AwaitStop, Closed, At, SeesStopped, Exists
<1>5. ASSUME ConfirmIdentity PROVE Closed'
  BY <1>0, <1>5 DEF ConfirmIdentity, Closed, At, Exists
<1>6. ASSUME CheckChildren PROVE Closed'
  BY <1>0, <1>6 DEF CheckChildren, Closed, Holds, Exists, CallEnds
<1>7. ASSUME IdentifyScope PROVE Closed'
  BY <1>0, <1>7 DEF IdentifyScope, Closed, At, Exists
<1>8. ASSUME CheckScope PROVE Closed'
  BY <1>0, <1>8 DEF CheckScope, Closed, At, Exists
<1>9. ASSUME SystemctlFreeze PROVE Closed'
  BY <1>0, <1>9 DEF SystemctlFreeze, Closed, Exists
<1>10. ASSUME Verify PROVE Closed'
  BY <1>0, <1>10 DEF Verify, Closed, VerifiedFrozen, Acquired, At, Exists
<1>11. ASSUME Recheck PROVE Closed'
  BY <1>0, <1>11 DEF Recheck, Closed, At, Exists
<1>12. ASSUME Rediscover PROVE Closed'
  BY <1>0, <1>12 DEF Rediscover, Closed, At, StillInside, Exists
<1>13. ASSUME ReleaseBootstrap PROVE Closed'
  BY <1>0, <1>13 DEF ReleaseBootstrap, Closed, Continue, At, Exists
<1>14. ASSUME VerifyHandoff PROVE Closed'
  BY <1>0, <1>14 DEF VerifyHandoff, Closed, VerifiedFrozen, Holds, Exists, CallEnds
<1>15. ASSUME Unwind PROVE Closed'
  BY <1>0, <1>15 DEF Unwind, Closed, At, MayContinue, Exists
<1>16. ASSUME UnwindStop PROVE Closed'
  BY <1>0, <1>16 DEF UnwindStop, Closed, Continue, At, Exists
<1>17. ASSUME ThawCheck("undo", "undoing") PROVE Closed'
  BY <1>0, <1>17 DEF ThawCheck, Closed, Undone, Exists, AfterThaw, Fails, CallEnds
<1>18. ASSUME ThawCheck("release", "thawing") PROVE Closed'
  BY <1>0, <1>18 DEF ThawCheck, Closed, Undone, Exists, AfterThaw, Fails, CallEnds
<1>19. ASSUME SystemctlThaw("undo", "undoing") PROVE Closed'
  BY <1>0, <1>19 DEF SystemctlThaw, Closed, Undone, AfterThaw, Exists, Fails, CallEnds
<1>20. ASSUME SystemctlThaw("release", "thawing") PROVE Closed'
  BY <1>0, <1>20 DEF SystemctlThaw, Closed, Undone, AfterThaw, Exists, Fails, CallEnds
<1>21. ASSUME ReleaseLease PROVE Closed'
  BY <1>0, <1>21 DEF ReleaseLease, Closed, NoLease, Exists
<1>22. ASSUME KernelStops PROVE Closed'
  BY <1>0, <1>22 DEF KernelStops, Closed, Exists
<1>23. ASSUME KernelFreezes PROVE Closed'
  BY <1>0, <1>23 DEF KernelFreezes, Closed, Exists
<1>24. ASSUME Forks PROVE Closed'
  BY <1>0, <1>24 DEF Forks, Closed, Runs, Exists
<1>25. ASSUME Moves PROVE Closed'
  <2>1. CASE cgroup \in Scopes /\ cgroup' = Elsewhere
    BY <1>0, <1>25, <2>1 DEF Moves, Closed, Standing, Exists
  <2>2. ASSUME NEW s \in Scopes \ made, dir[Unit[s]] = NoScope, cgroup = Launcher, cgroup' = s,
               made' = made \cup {s}, dir' = [dir EXCEPT ![Unit[s]] = s], UNCHANGED letGo
        PROVE  Closed'
    <3>1. Unit[s] \in Units /\ dir' \in [Units -> Scopes \cup {NoScope}]
      BY <1>0, <2>2 DEF TypeOK
    <3>2. \A u \in Units : dir'[u] = IF u = Unit[s] THEN s ELSE dir[u]
      BY <1>0, <2>2, <3>1 DEF TypeOK
    <3>. QED
      BY <1>0, <1>25, <2>2, <3>1, <3>2 DEF Moves, Closed, Standing, Exists
  <2>. QED
    BY <1>25, <2>1, <2>2 DEF Moves
<1>26. ASSUME Exits PROVE Closed'
  BY <1>0, <1>26 DEF Exits, Closed, TypeOK, Exists
<1>27. ASSUME PidReused PROVE Closed'
  BY <1>0, <1>27 DEF PidReused, Closed, TypeOK, Exists
<1>28. ASSUME NEW s \in Scopes, ScopeRemoved(s) PROVE Closed'
  BY <1>0, <1>28 DEF ScopeRemoved, Closed, TypeOK, Exists
<1>29. ASSUME Meddle PROVE Closed'
  BY <1>0, <1>29 DEF Meddle, Closed, Exists
<1>30. ASSUME UNCHANGED vars PROVE Closed'
  BY <1>0, <1>30 DEF Closed, Exists
<1>. QED
  BY <1>1, <1>2, <1>3, <1>4, <1>5, <1>6, <1>7, <1>8, <1>9, <1>10, <1>11, <1>12, <1>13,
    <1>14, <1>15, <1>16, <1>17, <1>18, <1>19, <1>20, <1>21, <1>22, <1>23, <1>24, <1>25,
    <1>26, <1>27, <1>28, <1>29, <1>30 DEF Next, Acquire, CleanUp, World

(* What the lease holds, and what the call is about to put in it, is not    *)
(* given back by any step of another acquisition.                          *)
LEMMA HeldStep == IInv /\ [Next]_vars => Held'
<1> SUFFICES ASSUME IInv, [Next]_vars PROVE Held'
  OBVIOUS
<1>0. TypeOK /\ Placed /\ Standing /\ Closed /\ Held /\ Left
  BY DEF IInv
<1>1. ASSUME ReadIdentity PROVE Held'
  BY <1>0, <1>1 DEF ReadIdentity, Held, At, ScopeHeld, SeenStopped, ProcHeld, Exists,
    InFreezer
<1>2. ASSUME SendStop PROVE Held'
  BY <1>0, <1>2 DEF SendStop, Held, CallEnds, At, ScopeHeld, SeenStopped, ProcHeld,
    Exists, InFreezer
<1>3. ASSUME Discover PROVE Held'
  BY <1>0, <1>3 DEF Discover, Held, Exists, ScopeHeld, SeenStopped, ProcHeld, InFreezer
<1>4. ASSUME AwaitStop PROVE Held'
  BY <1>0, <1>4 DEF AwaitStop, Held, TypeOK, At, SeesStopped, ScopeHeld, SeenStopped,
    ProcHeld, Exists, InFreezer
<1>5. ASSUME ConfirmIdentity PROVE Held'
  BY <1>0, <1>5 DEF ConfirmIdentity, Held, At, ScopeHeld, SeenStopped, ProcHeld, Exists,
    InFreezer
<1>6. ASSUME CheckChildren PROVE Held'
  BY <1>0, <1>6 DEF CheckChildren, Held, Holds, ScopeHeld, SeenStopped, ProcHeld,
    CallEnds, Exists, InFreezer
<1>7. ASSUME IdentifyScope PROVE Held'
  BY <1>0, <1>7 DEF IdentifyScope, Held, At, ScopeHeld, SeenStopped, ProcHeld, Exists,
    InFreezer
<1>8. ASSUME CheckScope PROVE Held'
  BY <1>0, <1>8 DEF CheckScope, Held, At, Exists, ScopeHeld, SeenStopped, ProcHeld,
    InFreezer
<1>9. ASSUME SystemctlFreeze PROVE Held'
  BY <1>0, <1>9 DEF SystemctlFreeze, Held, ScopeHeld, SeenStopped, ProcHeld, Exists,
    InFreezer
<1>10. ASSUME Verify PROVE Held'
  BY <1>0, <1>10 DEF Verify, Held, TypeOK, VerifiedFrozen, Acquired, At, ScopeHeld,
    SeenStopped, ProcHeld, Exists, InFreezer
<1>11. ASSUME Recheck PROVE Held'
  BY <1>0, <1>11 DEF Recheck, Held, At, ScopeHeld, SeenStopped, ProcHeld, Exists, InFreezer
<1>12. ASSUME Rediscover PROVE Held'
  BY <1>0, <1>12 DEF Rediscover, Held, At, StillInside, ScopeHeld, SeenStopped, ProcHeld,
    Exists, InFreezer
<1>13. ASSUME ReleaseBootstrap PROVE Held'
  BY <1>0, <1>13 DEF ReleaseBootstrap, Held, TypeOK, Standing, Closed, Continue, At,
    ScopeHeld, SeenStopped, ProcHeld, Exists, InFreezer
<1>14. ASSUME VerifyHandoff PROVE Held'
  BY <1>0, <1>14 DEF VerifyHandoff, Held, VerifiedFrozen, Holds, ScopeHeld, SeenStopped,
    ProcHeld, Exists, CallEnds, InFreezer
<1>15. ASSUME Unwind PROVE Held'
  BY <1>0, <1>15 DEF Unwind, Held, At, MayContinue, ScopeHeld, SeenStopped, ProcHeld,
    Exists, InFreezer
<1>16. ASSUME UnwindStop PROVE Held'
  BY <1>0, <1>16 DEF UnwindStop, Held, Continue, At, ScopeHeld, SeenStopped, ProcHeld,
    Exists, InFreezer
<1>17. ASSUME ThawCheck("undo", "undoing") PROVE Held'
  BY <1>0, <1>17 DEF ThawCheck, Held, Undone, Exists, AfterThaw, ScopeHeld, SeenStopped,
    ProcHeld, Fails, InFreezer, CallEnds
<1>18. ASSUME ThawCheck("release", "thawing") PROVE Held'
  BY <1>0, <1>18 DEF ThawCheck, Held, Undone, Exists, AfterThaw, ScopeHeld, SeenStopped,
    ProcHeld, Fails, InFreezer, CallEnds
<1>19. ASSUME SystemctlThaw("undo", "undoing") PROVE Held'
  BY <1>0, <1>19 DEF SystemctlThaw, Held, Placed, Standing, Undone, AfterThaw, ScopeHeld,
    SeenStopped, ProcHeld, Exists, Fails, InFreezer, CallEnds
<1>20. ASSUME SystemctlThaw("release", "thawing") PROVE Held'
  BY <1>0, <1>20 DEF SystemctlThaw, Held, TypeOK, Placed, Standing, Undone, AfterThaw,
    ScopeHeld, SeenStopped, ProcHeld, Exists, Fails, InFreezer, CallEnds
<1>21. ASSUME ReleaseLease PROVE Held'
  BY <1>0, <1>21 DEF ReleaseLease, Held, NoLease, ScopeHeld, SeenStopped, ProcHeld,
    Exists, InFreezer
<1>22. ASSUME KernelStops PROVE Held'
  BY <1>0, <1>22 DEF KernelStops, Held, ScopeHeld, SeenStopped, ProcHeld, Exists, InFreezer
<1>23. ASSUME KernelFreezes PROVE Held'
  BY <1>0, <1>23 DEF KernelFreezes, Held, ScopeHeld, SeenStopped, ProcHeld, Exists,
    InFreezer
<1>24. ASSUME Forks PROVE Held'
  BY <1>0, <1>24 DEF Forks, Held, Runs, ScopeHeld, SeenStopped, ProcHeld, Exists, InFreezer
<1>25. ASSUME Moves PROVE Held'
  BY <1>0, <1>25 DEF Moves, Held, TypeOK, Standing, ScopeHeld, SeenStopped, ProcHeld,
    Exists, InFreezer
<1>26. ASSUME Exits PROVE Held'
  BY <1>0, <1>26 DEF Exits, Held, TypeOK, ScopeHeld, SeenStopped, ProcHeld, Exists,
    InFreezer
<1>27. ASSUME PidReused PROVE Held'
  BY <1>0, <1>27 DEF PidReused, Held, TypeOK, ScopeHeld, SeenStopped, ProcHeld, Exists,
    InFreezer
<1>28. ASSUME NEW s \in Scopes, ScopeRemoved(s) PROVE Held'
  BY <1>0, <1>28 DEF ScopeRemoved, Held, TypeOK, Exists, ScopeHeld, SeenStopped, ProcHeld,
    InFreezer
<1>29. ASSUME Meddle PROVE Held'
  BY <1>0, <1>29 DEF Meddle, Held, ScopeHeld, SeenStopped, ProcHeld, Exists, InFreezer
<1>30. ASSUME UNCHANGED vars PROVE Held'
  BY <1>0, <1>30 DEF Held, ScopeHeld, SeenStopped, ProcHeld, Exists, InFreezer
<1>. QED
  BY <1>1, <1>2, <1>3, <1>4, <1>5, <1>6, <1>7, <1>8, <1>9, <1>10, <1>11, <1>12, <1>13,
    <1>14, <1>15, <1>16, <1>17, <1>18, <1>19, <1>20, <1>21, <1>22, <1>23, <1>24, <1>25,
    <1>26, <1>27, <1>28, <1>29, <1>30 DEF Next, Acquire, CleanUp, World

(* Whatever is stopped or frozen belongs to the lease, or the call still    *)
(* remembers that it has to undo it.                                       *)
LEMMA LeftStep == IInv /\ [Next]_vars => Left'
<1> SUFFICES ASSUME IInv, [Next]_vars PROVE Left'
  OBVIOUS
<1>0. TypeOK /\ Placed /\ Standing /\ Closed /\ Held /\ Left
  BY DEF IInv
<1>1. ASSUME ReadIdentity PROVE Left'
  BY <1>0, <1>1 DEF ReadIdentity, Left, At, Undoable, Stopper
<1>2. ASSUME SendStop PROVE Left'
  BY <1>0, <1>2 DEF SendStop, Left, TypeOK, Placed, CallEnds, At, Undoable, Stopper
<1>3. ASSUME Discover PROVE Left'
  BY <1>0, <1>3 DEF Discover, Left, Exists, Undoable, Stopper
<1>4. ASSUME AwaitStop PROVE Left'
  BY <1>0, <1>4 DEF AwaitStop, Left, At, SeesStopped, Undoable, Stopper
<1>5. ASSUME ConfirmIdentity PROVE Left'
  BY <1>0, <1>5 DEF ConfirmIdentity, Left, At, Undoable, Stopper
<1>6. ASSUME CheckChildren PROVE Left'
  BY <1>0, <1>6 DEF CheckChildren, Left, TypeOK, Placed, Standing, Holds, Undoable,
    Stopper, Exists, CallEnds
<1>7. ASSUME IdentifyScope PROVE Left'
  BY <1>0, <1>7 DEF IdentifyScope, Left, At, Undoable, Stopper
<1>8. ASSUME CheckScope PROVE Left'
  BY <1>0, <1>8 DEF CheckScope, Left, At, Exists, Undoable, Stopper
<1>9. ASSUME SystemctlFreeze PROVE Left'
  BY <1>0, <1>9 DEF SystemctlFreeze, Left, TypeOK, Undoable, Stopper
<1>10. ASSUME Verify PROVE Left'
  BY <1>0, <1>10 DEF Verify, Left, TypeOK, VerifiedFrozen, Acquired, At, Undoable,
    Stopper, Exists
<1>11. ASSUME Recheck PROVE Left'
  BY <1>0, <1>11 DEF Recheck, Left, At, Undoable, Stopper
<1>12. ASSUME Rediscover PROVE Left'
  BY <1>0, <1>12 DEF Rediscover, Left, At, StillInside, Undoable, Stopper, Exists
<1>13. ASSUME ReleaseBootstrap PROVE Left'
  BY <1>0, <1>13 DEF ReleaseBootstrap, Left, Continue, At, Undoable, Stopper
<1>14. ASSUME VerifyHandoff PROVE Left'
  BY <1>0, <1>14 DEF VerifyHandoff, Left, TypeOK, Placed, VerifiedFrozen, Holds, Undoable,
    Stopper, Exists, CallEnds
<1>15. ASSUME Unwind PROVE Left'
  BY <1>0, <1>15 DEF Unwind, Left, At, MayContinue, Undoable, Stopper
<1>16. ASSUME UnwindStop PROVE Left'
  BY <1>0, <1>16 DEF UnwindStop, Left, Continue, At, Undoable, Stopper
<1>17. ASSUME ThawCheck("undo", "undoing") PROVE Left'
  BY <1>0, <1>17 DEF ThawCheck, Left, Standing, Undone, Exists, AfterThaw, Undoable,
    Stopper, Fails, CallEnds
<1>18. ASSUME ThawCheck("release", "thawing") PROVE Left'
  BY <1>0, <1>18 DEF ThawCheck, Left, Standing, Undone, Exists, AfterThaw, Undoable,
    Stopper, Fails, CallEnds
<1>19. ASSUME SystemctlThaw("undo", "undoing") PROVE Left'
  BY <1>0, <1>19 DEF SystemctlThaw, Left, Standing, Undone, AfterThaw, Undoable, Stopper,
    Exists, Fails, CallEnds
<1>20. ASSUME SystemctlThaw("release", "thawing") PROVE Left'
  BY <1>0, <1>20 DEF SystemctlThaw, Left, Standing, Undone, AfterThaw, Undoable, Stopper,
    Exists, Fails, CallEnds
<1>21. ASSUME ReleaseLease PROVE Left'
  BY <1>0, <1>21 DEF ReleaseLease, Left, NoLease, Undoable, Stopper
<1>22. ASSUME KernelStops PROVE Left'
  BY <1>0, <1>22 DEF KernelStops, Left, Undoable, Stopper
<1>23. ASSUME KernelFreezes PROVE Left'
  BY <1>0, <1>23 DEF KernelFreezes, Left, Undoable, Stopper
<1>24. ASSUME Forks PROVE Left'
  BY <1>0, <1>24 DEF Forks, Left, Runs, Undoable, Stopper
<1>25. ASSUME Moves PROVE Left'
  BY <1>0, <1>25 DEF Moves, Left, Undoable, Stopper
<1>26. ASSUME Exits PROVE Left'
  BY <1>0, <1>26 DEF Exits, Left, Undoable, Stopper
<1>27. ASSUME PidReused PROVE Left'
  BY <1>0, <1>27 DEF PidReused, Left, Standing, Undoable, Stopper, Exists
<1>28. ASSUME NEW s \in Scopes, ScopeRemoved(s) PROVE Left'
  BY <1>0, <1>28 DEF ScopeRemoved, Left, Exists, Undoable, Stopper
<1>29. ASSUME Meddle PROVE Left'
  BY <1>0, <1>29 DEF Meddle, Left, Undoable, Stopper
<1>30. ASSUME UNCHANGED vars PROVE Left'
  BY <1>0, <1>30 DEF Left, Undoable, Stopper
<1>. QED
  BY <1>1, <1>2, <1>3, <1>4, <1>5, <1>6, <1>7, <1>8, <1>9, <1>10, <1>11, <1>12, <1>13,
    <1>14, <1>15, <1>16, <1>17, <1>18, <1>19, <1>20, <1>21, <1>22, <1>23, <1>24, <1>25,
    <1>26, <1>27, <1>28, <1>29, <1>30 DEF Next, Acquire, CleanUp, World

(* No lease, no call and one running process that is in no scope: the       *)
(* invariant holds at the start.                                           *)
LEMMA InitHolds == Init => IInv
<1> SUFFICES ASSUME Init PROVE IInv
  OBVIOUS
<1>1. TypeOK
  <2>1. root \in 0..born /\ born \in 1..MaxProcs /\ id \in 0..born
    BY DEF Init
  <2>2. dir \in [Units -> Scopes \cup {NoScope}]
    BY DEF Init
  <2>3. lease \in [proc : 0..born, scope : Scopes \cup {NoScope}] /\ lease.proc = 0
    BY DEF Init, NoLease
  <2>. QED
    BY <2>1, <2>2, <2>3 DEF Init, TypeOK
<1>2. Placed /\ Standing
  BY DEF Init, Placed, Standing, NoLease, Exists
<1>3. Closed /\ Held
  BY DEF Init, Closed, Held, ScopeHeld, SeenStopped, ProcHeld, NoLease, Exists
<1>4. Left
  BY DEF Init, Left, Undoable, Stopper, NoLease
<1>. QED
  BY <1>1, <1>2, <1>3, <1>4 DEF IInv

(* The inductive invariant holds throughout: acquire, clean-up, kernel and  *)
(* world keep every part of it.                                            *)
THEOREM ScopeInvariant == Spec => []IInv
<1>1. IInv /\ [Next]_vars => IInv'
  BY TypeStep, PlacedStep, StandingStep, ClosedStep, HeldStep, LeftStep DEF IInv
<1>. QED
  BY InitHolds, <1>1, PTL DEF Spec

(* The state of an acquisition stays well formed, and its guard never owns  *)
(* the scope that the lease holds.                                         *)
THEOREM TypeCorrect == Spec => []TypeOK
<1>1. IInv => TypeOK
  BY DEF IInv
<1>. QED
  BY ScopeInvariant, <1>1, PTL

(* Between the last look and the return of acquire, the process whose stop  *)
(* is released does not run, whoever else thaws, moves or kills what.      *)
THEOREM HandoffsClosed == Spec => []HandoffClosed
<1>1. IInv => HandoffClosed
  <2>1. SUFFICES ASSUME IInv, pc \in {"continue", "handoff"}, root = id, found \notin letGo
                 PROVE  ~Runs
    BY DEF HandoffClosed
  <2>2. cgroup = found /\ Exists(found)
    BY <2>1 DEF IInv, Closed
  <2>3. found \in frozen
    BY <2>1, <2>2 DEF IInv, Closed
  <2>. QED
    BY <2>2, <2>3 DEF Runs
<1>. QED
  BY ScopeInvariant, <1>1, PTL

(* A lease holds its scope frozen or its process stopped, through any       *)
(* number of further acquisitions, until the watchdog ends it or somebody   *)
(* else lets go what it holds.                                             *)
THEOREM LeasesHold == Spec => []LeaseHolds
<1>1. IInv => LeaseHolds
  <2>1. SUFFICES ASSUME IInv PROVE LeaseHolds
    OBVIOUS
  <2>2. Exists(lease.scope) /\ lease.scope \notin letGo => lease.scope \in asked \cap frozen
    BY <2>1 DEF IInv, Held, ScopeHeld
  <2>3. ASSUME lease.proc # 0, root = lease.proc, {lease.proc, found} \cap letGo = {}
        PROVE  ~Runs /\ kids # "child"
    <3>1. (signal = "stopped" /\ kids # "child") \/ InFreezer
      BY <2>1, <2>3 DEF IInv, Held, ProcHeld
    <3>2. found \notin letGo
      BY <2>3
    <3>. QED
      BY <3>1, <3>2 DEF InFreezer, Runs
  <2>. QED
    BY <2>2, <2>3 DEF LeaseHolds
<1>. QED
  BY ScopeInvariant, <1>1, PTL

(* A failed acquisition leaves nothing stopped and nothing frozen behind,   *)
(* apart from strangers that took a name over and failed thaws.            *)
THEOREM NothingIsLeft == Spec => []NothingLeft
<1>1. IInv => NothingLeft
  <2>1. SUFFICES ASSUME IInv, pc = "idle"
                 PROVE  /\ asked \subseteq {lease.scope} \cup leftovers
                        /\ root # 0 /\ signal # "running" => root \in {lease.proc} \cup strays
    BY DEF NothingLeft
  <2>2. ~stopped /\ mine = NoScope
    BY <2>1 DEF IInv, TypeOK, Placed
  <2>3. NoScope \notin asked
    BY <2>1 DEF IInv, TypeOK
  <2>. QED
    BY <2>1, <2>2, <2>3 DEF IInv, Left, Undoable, Stopper
<1>. QED
  BY ScopeInvariant, <1>1, PTL
=============================================================================
