---------------------------- MODULE ScopeAcquire ----------------------------
(***************************************************************************)
(* LaunchScopeAcquirer::acquire step by step, for one root PID: read the   *)
(* process identity, stop the PID, and then either keep the process stopped *)
(* (it is in no Steam scope yet) or freeze its scope and let the process go *)
(* on inside it.  Each step is one look at /proc or the cgroup tree, one   *)
(* signal or one systemctl command; the kernel, the service manager and    *)
(* the game go on between any two of them.  Module Watchdog takes the whole *)
(* of it for one action, under the PID's transition lock.                  *)
(*                                                                         *)
(* Processes are the incarnations of the PID (what start_ticks tells       *)
(* apart), scopes the incarnations of a unit (what the inode tells apart): *)
(* signals go to the PID and systemctl commands to the unit, whoever has   *)
(* that name by then.                                                      *)
(***************************************************************************)
EXTENDS Naturals

CONSTANTS
  MaxProcs,     \* bound on the incarnations of the PID
  Scopes,       \* incarnations of Steam app scopes
  Unit,         \* the unit name of a scope
  NoScope,      \* none of them
  Launcher,     \* app.slice or Steam's own unit: the exact scope is not ready
  Elsewhere     \* any other cgroup

Procs == 1..MaxProcs
Units == {Unit[s] : s \in Scopes}

(* Processes and scopes are told apart also where `letGo' has both.        *)
ASSUME ScopeAssumption ==
  /\ MaxProcs \in Nat \ {0}
  /\ Scopes \cap (Nat \cup {NoScope, Launcher, Elsewhere}) = {}
  /\ Launcher # Elsewhere
  /\ DOMAIN Unit = Scopes

VARIABLES
  root, born,   \* who has the PID now (0: nobody), and how many have had it
  signal,       \* what the stop signals have done to that process
  cgroup,       \* the cgroup it is in
  kids,         \* what it has forked outside a scope
  made,         \* scopes created so far
  dir,          \* the scope whose directory a unit has
  asked,        \* scopes with cgroup.freeze = 1
  frozen,       \* scopes with frozen 1 in cgroup.events
  lease,        \* what the last successful acquisitions hold for the watchdog
  pc,           \* where acquire is
  id,           \* identity
  found,        \* the scope discover returned
  mine,         \* BootstrapStopGuard.acquired_scope
  stopped,      \* BootstrapStopGuard.stopped
  letGo,        \* processes and scopes let go by others, or by a failed acquire (history)
  strays,       \* processes stopped although they are not `id' (history)
  leftovers     \* scopes a failed acquire could not thaw (history)

procVars == <<root, born, signal, cgroup, kids>>
scopeVars == <<made, dir, asked, frozen>>
callVars == <<lease, pc, id, found, mine, stopped>>
pastVars == <<letGo, strays, leftovers>>
vars == <<procVars, scopeVars, callVars, pastVars>>

NoLease == [proc |-> 0, scope |-> NoScope]
Exists(s) == s \in Scopes /\ dir[Unit[s]] = s        \* ScopeState::Live
Runs == root # 0 /\ signal # "stopped" /\ cgroup \notin frozen
VerifiedFrozen(s) == Exists(s) /\ s \in asked /\ s \in frozen

Init ==
  /\ root = 1 /\ born = 1
  /\ signal = "running"
  /\ cgroup = Launcher
  /\ kids = "none"
  /\ made = {} /\ dir = [u \in Units |-> NoScope]
  /\ asked = {} /\ frozen = {}
  /\ lease = NoLease
  /\ pc = "idle" /\ id = 0 /\ found = NoScope /\ mine = NoScope /\ stopped = FALSE
  /\ letGo = {} /\ strays = {} /\ leftovers = {}
-----------------------------------------------------------------------------
(* Steps of acquire                                                        *)

At(here, there) == pc = here /\ pc' = there
Locals == <<lease, id, found, mine, stopped>>

ReadIdentity ==
  /\ At("idle", "signal") /\ root # 0
  /\ id' = root
  /\ UNCHANGED <<procVars, scopeVars, lease, found, mine, stopped, pastVars>>

(* Everything the call remembers is dropped.  A failed call may have        *)
(* continued the process that a stop-only lease holds.                     *)
CallEnds == pc' = "idle" /\ id' = 0 /\ found' = NoScope /\ mine' = NoScope /\ stopped' = FALSE
Fails ==
  /\ CallEnds
  /\ letGo' = letGo \cup ({lease.proc} \ {0})
  /\ UNCHANGED lease

(* kill(SIGSTOP): the signal is queued for whoever has the PID.            *)
SendStop ==
  \/ /\ pc = "signal" /\ root # id
     /\ CallEnds
     /\ UNCHANGED <<procVars, scopeVars, lease, pastVars>>
  \/ /\ At("signal", "discover") /\ root # 0
     /\ signal' = IF signal = "stopped" THEN signal ELSE "stopping"
     /\ stopped' = TRUE
     /\ strays' = strays \cup ({root} \ {id})
     /\ UNCHANGED <<root, born, cgroup, kids, scopeVars, lease, id, found, mine, letGo, leftovers>>

(* discover looks at the cgroup of whoever has the PID, and anything may be *)
(* wrong with it; the call may also panic after the stop.                   *)
Discover ==
  /\ pc = "discover"
  /\ \/ /\ root # 0 /\ cgroup = Launcher
        /\ pc' = "await" /\ UNCHANGED found
     \/ /\ root # 0 /\ Exists(cgroup)
        /\ pc' = "identify" /\ found' = cgroup
     \/ pc' = "unwind" /\ UNCHANGED found
  /\ UNCHANGED <<procVars, scopeVars, lease, id, mine, stopped, pastVars>>

(* wait_until_stopped, the identity check and has_children, in this order. *)
(* Mutant: the children are looked for before the process has stopped. *)
SeesStoppedEarly == root # 0
SeesStopped == root # 0 /\ signal = "stopped"

AwaitStop ==
  /\ \/ At("await", "confirm") /\ SeesStopped
        /\ letGo' = letGo \ ({root} \ {lease.proc})
     \/ At("await", "unwind") /\ UNCHANGED letGo
  /\ UNCHANGED <<procVars, scopeVars, Locals, strays, leftovers>>

ConfirmIdentity ==
  /\ \/ At("confirm", "children") /\ root = id
     \/ At("confirm", "unwind") /\ root # id
  /\ UNCHANGED <<procVars, scopeVars, Locals, pastVars>>

(* pause installs the new lease and thaws the scope of the previous one.   *)
Holds(proc, scope) ==
  /\ CallEnds
  /\ lease' = [proc |-> proc, scope |-> scope]
  /\ asked' = asked \ ({lease.scope} \ {scope})
  /\ leftovers' = leftovers \ {scope}
  /\ strays' = strays \ {proc}

CheckChildren ==
  /\ pc = "children"
  /\ \/ /\ root # 0 /\ kids # "child"
        /\ Holds(id, NoScope)
        /\ UNCHANGED <<procVars, made, dir, frozen, letGo>>
     \/ /\ root # 0 => kids = "child"
        /\ pc' = "unwind"
        /\ UNCHANGED <<procVars, scopeVars, Locals, pastVars>>

(* The scope the lease already holds is only verified.                     *)
IdentifyScope ==
  /\ \/ At("identify", "verify") /\ root = id /\ found = lease.scope
     \/ At("identify", "freeze") /\ root = id /\ found # lease.scope
     \/ At("identify", "unwind") /\ root # id
  /\ UNCHANGED <<procVars, scopeVars, Locals, pastVars>>
-----------------------------------------------------------------------------
(* freeze                                                                  *)

CheckScope ==
  /\ \/ At("freeze", "command") /\ Exists(found)
     \/ At("freeze", "unwind") /\ ~Exists(found)
  /\ UNCHANGED <<procVars, scopeVars, Locals, pastVars>>

(* systemctl freeze <unit>; a command that fails may have been carried out. *)
SystemctlFreeze ==
  /\ pc = "command"
  /\ \/ /\ dir[Unit[found]] # NoScope
        /\ asked' = asked \cup {dir[Unit[found]]}
        /\ leftovers' = leftovers \cup ({dir[Unit[found]]} \ {found})
        /\ pc' \in {"frozen", "undo"}
     \/ /\ pc' = "undo"
        /\ UNCHANGED <<asked, leftovers>>
  /\ UNCHANGED <<procVars, made, dir, frozen, Locals, letGo, strays>>

(* wait_for_frozen(true), after a freeze and for the lease's own scope.    *)
(* Mutants: the guard thaws the scope that the lease holds, or none. *)
AcquiredAny == found
AcquiredNever == NoScope
Acquired == IF found = lease.scope THEN NoScope ELSE found

Verify ==
  /\ \/ /\ pc \in {"frozen", "verify"} /\ VerifiedFrozen(found)
        /\ pc' = "recheck" /\ mine' = Acquired /\ letGo' = letGo \ {found}
     \/ At("frozen", "undo") /\ UNCHANGED <<mine, letGo>>
     \/ At("verify", "unwind") /\ UNCHANGED <<mine, letGo>>
  /\ UNCHANGED <<procVars, scopeVars, lease, id, found, stopped, strays, leftovers>>

(* The same process in the same scope?                                     *)
Recheck ==
  /\ \/ At("recheck", "rediscover") /\ root = id
     \/ At("recheck", "unwind") /\ root # id
  /\ UNCHANGED <<procVars, scopeVars, Locals, pastVars>>

(* Mutant: the membership is not looked at again. *)
StillInsideAssumed == root # 0
StillInside == root # 0 /\ cgroup = found /\ Exists(found)

Rediscover ==
  /\ \/ At("rediscover", "continue") /\ StillInside
     \/ At("rediscover", "unwind") /\ ~StillInside
  /\ UNCHANGED <<procVars, scopeVars, Locals, pastVars>>

(* kill(SIGCONT): the process goes on, inside the frozen scope.            *)
Continue(there) ==
  /\ pc' = there
  /\ signal' = "running"
  /\ UNCHANGED <<root, born, cgroup, kids, scopeVars, lease, id, found, mine, strays, leftovers>>

ReleaseBootstrap ==
  \/ pc = "continue" /\ root # 0 /\ Continue("handoff") /\ stopped' = FALSE /\ UNCHANGED letGo
  \/ At("continue", "unwind") /\ root = 0
     /\ UNCHANGED <<procVars, scopeVars, Locals, pastVars>>

VerifyHandoff ==
  /\ pc = "handoff"
  /\ \/ /\ VerifiedFrozen(found)
        /\ Holds(0, found)
        /\ letGo' = letGo \ {found}
        /\ UNCHANGED <<procVars, made, dir, frozen>>
     \/ /\ pc' = "unwind"
        /\ UNCHANGED <<procVars, scopeVars, Locals, pastVars>>
-----------------------------------------------------------------------------
(* Clean-up: best_effort_thaw and the drop of BootstrapStopGuard           *)

MayContinue == stopped /\ root = id

Unwind ==
  /\ \/ At("unwind", "uncont") /\ MayContinue
     \/ At("unwind", "release") /\ ~MayContinue
  /\ UNCHANGED <<procVars, scopeVars, Locals, pastVars>>

UnwindStop ==
  \/ pc = "uncont" /\ root # 0 /\ Continue("release") /\ UNCHANGED stopped
     /\ letGo' = letGo \cup ({lease.proc} \ {0})
  \/ At("uncont", "release") /\ root = 0
     /\ UNCHANGED <<procVars, scopeVars, Locals, pastVars>>

(* The scope state is looked at, then the unit is thawed, if that works.   *)
AfterThaw(here) == IF here = "undo" THEN pc' = "unwind" /\ UNCHANGED Locals /\ UNCHANGED letGo
                   ELSE Fails
Undone(here) == IF here = "undo" THEN found ELSE mine

ThawCheck(here, command) ==
  /\ pc = here
  /\ LET s == Undone(here) IN
     \/ /\ Exists(s) /\ pc' = command
        /\ UNCHANGED <<Locals, pastVars>>
     \/ /\ ~Exists(s) /\ AfterThaw(here)
        /\ UNCHANGED <<strays, leftovers>>
  /\ UNCHANGED <<procVars, scopeVars>>

SystemctlThaw(here, command) ==
  /\ pc = command
  /\ LET s == Undone(here) IN
     \/ /\ dir[Unit[s]] # NoScope
        /\ asked' = asked \ {dir[Unit[s]]}
        /\ UNCHANGED leftovers
     \/ /\ UNCHANGED asked
        /\ leftovers' = leftovers \cup ({s} \cap asked)
  /\ AfterThaw(here)
  /\ UNCHANGED <<procVars, made, dir, frozen, strays>>

CleanUp ==
  \/ Unwind \/ UnwindStop
  \/ ThawCheck("undo", "undoing") \/ SystemctlThaw("undo", "undoing")
  \/ ThawCheck("release", "thawing") \/ SystemctlThaw("release", "thawing")

Acquire ==
  \/ ReadIdentity \/ SendStop \/ Discover
  \/ AwaitStop \/ ConfirmIdentity \/ CheckChildren
  \/ IdentifyScope \/ CheckScope \/ SystemctlFreeze \/ Verify
  \/ Recheck \/ Rediscover \/ ReleaseBootstrap \/ VerifyHandoff
  \/ CleanUp

(* The watchdog ends the lease, when no call holds the transition lock.    *)
ReleaseLease ==
  /\ pc = "idle" /\ lease # NoLease
  /\ signal' = IF lease.proc # 0 /\ root = lease.proc
               THEN "running" ELSE signal
  /\ asked' = asked \ {lease.scope}
  /\ lease' = NoLease
  /\ UNCHANGED <<root, born, cgroup, kids, made, dir, frozen, pc, id, found, mine, stopped, pastVars>>
-----------------------------------------------------------------------------
(* The kernel                                                              *)
KernelStops ==
  /\ signal = "stopping" /\ cgroup \notin frozen
  /\ signal' = "stopped"
  /\ UNCHANGED <<root, born, cgroup, kids, scopeVars, callVars, pastVars>>

KernelFreezes ==
  /\ frozen # asked
  /\ \E s \in (asked \ frozen) \cup (frozen \ asked) :
       frozen' = IF s \in asked THEN frozen \cup {s} ELSE frozen \ {s}
  /\ UNCHANGED <<procVars, made, dir, asked, callVars, pastVars>>

(* The game and the service manager                                        *)
Forks ==
  /\ Runs /\ cgroup \notin Scopes
  /\ kids' = IF kids = "none" THEN "child" ELSE "hidden"
  /\ UNCHANGED <<root, born, signal, cgroup, scopeVars, callVars, pastVars>>

(* A scope is created for the process, or it is moved to another cgroup;   *)
(* who moves it out of a frozen scope lets it go.                          *)
Moves ==
  /\ root # 0
  /\ \/ \E s \in Scopes \ made :
          /\ cgroup = Launcher /\ dir[Unit[s]] = NoScope
          /\ cgroup' = s
          /\ made' = made \cup {s} /\ dir' = [dir EXCEPT ![Unit[s]] = s]
          /\ UNCHANGED letGo
     \/ /\ cgroup \in Scopes
        /\ cgroup' = Elsewhere
        /\ letGo' = letGo \cup ({cgroup} \cap frozen)
        /\ UNCHANGED <<made, dir>>
  /\ UNCHANGED <<root, born, signal, kids, asked, frozen, callVars, strays, leftovers>>

(* The process is killed, stopped and frozen as it may be; the scope it    *)
(* leaves behind is removed when nobody else is in it.                     *)
Exits ==
  /\ root # 0
  /\ root' = 0 /\ signal' = "running" /\ cgroup' = Launcher /\ kids' = "none"
  /\ letGo' = letGo \ {root} /\ strays' = strays \ {root}
  /\ UNCHANGED <<born, scopeVars, callVars, leftovers>>

ScopeRemoved(s) ==
  /\ Exists(s) /\ cgroup # s
  /\ dir' = [dir EXCEPT ![Unit[s]] = NoScope]
  /\ asked' = asked \ {s} /\ frozen' = frozen \ {s}
  /\ leftovers' = leftovers \ {s}
  /\ UNCHANGED <<procVars, made, callVars, letGo, strays>>

PidReused ==
  /\ root = 0 /\ born < MaxProcs
  /\ born' = born + 1 /\ root' = born + 1
  /\ UNCHANGED <<signal, cgroup, kids, scopeVars, callVars, pastVars>>

(* Somebody else thaws a scope or continues the process.                   *)
Meddle ==
  \/ /\ \E s \in asked : asked' = asked \ {s} /\ letGo' = letGo \cup {s}
     /\ UNCHANGED <<procVars, made, dir, frozen, callVars, strays, leftovers>>
  \/ /\ root # 0 /\ signal # "running"
     /\ signal' = "running"
     /\ letGo' = letGo \cup {root}
     /\ UNCHANGED <<root, born, cgroup, kids, scopeVars, callVars, strays, leftovers>>

World ==
  \/ KernelStops \/ KernelFreezes
  \/ Forks \/ Moves \/ Exits \/ PidReused
  \/ \E s \in Scopes : ScopeRemoved(s)
  \/ Meddle

Next == Acquire \/ ReleaseLease \/ World

Spec == Init /\ [][Next]_vars
-----------------------------------------------------------------------------
(* Properties                                                              *)

(* The state stays well formed, and the guard never owns the lease's scope. *)
TypeOK ==
  /\ root \in 0..born /\ born \in 1..MaxProcs
  /\ signal \in {"running", "stopping", "stopped"}
  /\ cgroup \in Scopes \cup {Launcher, Elsewhere}
  /\ kids \in {"none", "child", "hidden"}
  /\ dir \in [Units -> Scopes \cup {NoScope}]
  /\ asked \cup frozen \subseteq made /\ made \subseteq Scopes
  /\ lease \in [proc : 0..born, scope : Scopes \cup {NoScope}]
  /\ lease.proc = 0 \/ lease.scope = NoScope
  /\ id \in 0..born /\ (pc = "idle" <=> id = 0)
  /\ found \in Scopes \cup {NoScope} /\ mine \in {found, NoScope}
  /\ mine # NoScope => mine # lease.scope
  /\ stopped \in BOOLEAN
  /\ letGo \subseteq Procs \cup Scopes /\ strays \subseteq Procs /\ leftovers \subseteq Scopes

(* The bootstrap stop is released only inside the frozen scope: from the    *)
(* moment acquire has made up its mind until it returns, the process does   *)
(* not run, unless somebody else lets the scope go.                         *)
HandoffClosed ==
  pc \in {"continue", "handoff"} /\ root = id /\ found \notin letGo => ~Runs

(* What a successful acquisition holds stays held, through any number of    *)
(* further acquisitions, until the watchdog or somebody else lets it go.    *)
(* Only a stop-only hold is given up by a failed attempt to renew it.  A    *)
(* process held by its stop has no child that could go on in its place.     *)
LeaseHolds ==
  /\ Exists(lease.scope) /\ lease.scope \notin letGo => lease.scope \in asked \cap frozen
  /\ lease.proc # 0 /\ root = lease.proc /\ {lease.proc, found} \cap letGo = {} =>
       ~Runs /\ kids # "child"

(* A failed acquisition leaves nothing stopped or frozen behind, except a   *)
(* process that took over the PID before the stop signal, a scope that took *)
(* over the unit before the freeze command, and what could not be thawed.   *)
NothingLeft ==
  pc = "idle" =>
    /\ asked \subseteq {lease.scope} \cup leftovers
    /\ root # 0 /\ signal # "running" => root \in {lease.proc} \cup strays
=============================================================================
