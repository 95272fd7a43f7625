------------------------------ MODULE Watchdog ------------------------------
(***************************************************************************)
(* The backend's ProcessWatchdog: renewable leases that hold a launching   *)
(* game, guarded save mutations pinned to a lease, the release protocol    *)
(* (request, wait for the mutation, thaw), the watchdog thread that        *)
(* releases expired leases and the shutdown sweep.                         *)
(*                                                                         *)
(* A section of code run under a PID's transition lock is one action: all  *)
(* other accesses to that lease but reset_release's take the same lock.    *)
(* pause keeps the lock for as long as the freezer takes, so it is two      *)
(* actions, and the lock is held between them.  What happens between two   *)
(* sections (the wait for a mutation, the mutation itself, a call that     *)
(* passed the stopping check) is explicit.                                 *)
(*                                                                         *)
(* What a lease holds is a target: a stopped process incarnation (Procs,   *)
(* the stop-only leases) or a frozen cgroup scope (Scopes).  Both are held,*)
(* lifted and vanish alike, and releasing a vanished one succeeds.         *)
(* A lease's generation stands for its random lease_id too: both are fresh *)
(* for every lease.  The fields guarded_active, guarded_generation and     *)
(* cancellation always change together and name one operation: they are    *)
(* the field `by', the caller that runs it.                                *)
(***************************************************************************)
EXTENDS Naturals, FiniteSets

CONSTANTS
  Pids,           \* root PIDs that Steam reports
  Callers,        \* threads that serve RPC calls
  Procs, Scopes,  \* what may be held: processes and cgroup scopes
  Owner,          \* the root PID whose launch a target belongs to
  TTL,            \* LEASE_TTL in ticks
  Ceiling,        \* ABSOLUTE_RESUME in ticks
  MaxGen,         \* bound on the number of leases created
  MaxStops,       \* bound on the number of shutdowns, 0 or 1
  Watch, Stopper, \* the watchdog thread and the thread that runs stop_until
  Nobody, NoTarget, NoLease

Threads == Callers \cup {Watch, Stopper}
Targets == Procs \cup Scopes
ProcsOf(p) == {x \in Procs : Owner[x] = p}

ASSUME PidsAssumption == Pids # {}
ASSUME TargetAssumption ==
  /\ Procs \cap Scopes = {}
  /\ Owner \in [Targets -> Pids]
  /\ NoTarget \notin Targets
ASSUME ThreadAssumption ==
  /\ Watch \notin Callers /\ Stopper \notin Callers /\ Watch # Stopper
  /\ Nobody \notin Threads
ASSUME TimeAssumption == TTL \in Nat /\ Ceiling \in Nat
ASSUME BoundAssumption == MaxGen \in Nat /\ MaxStops \in 0..1

(* age: ticks since `started'; idle: ticks since the deadline was last set. *)
(* Both stop counting one tick past the limit they are compared with.       *)
Lease ==
  [target : Targets, recovery : SUBSET Scopes,
   age : 0..(Ceiling + 1), idle : 0..(TTL + 1), gen : Nat,
   by : Callers \cup {Nobody}, requested : BOOLEAN, releasing : BOOLEAN]

ASSUME LeaseAssumption == NoLease \notin Lease

VARIABLES
  leases,     \* State.leases
  nextGen,    \* Inner.next_generation
  stopping,   \* Inner.stopping
  pc, req,    \* each thread's place, and the lease its call is about
  todo,       \* leases the watchdog thread or the shutdown sweep has yet to visit
  attempt,    \* rounds of the shutdown sweep
  cancelled,  \* callers whose cancellation token is set
  writing,    \* callers whose Ludusavi process group exists
  wrote,      \* callers whose Ludusavi command ran to its end uncancelled
  current,    \* what scope acquisition finds for a PID now
  life,       \* which targets exist
  held,       \* targets that are stopped or frozen
  heldFor,    \* how long a lease has been holding a target (history)
  meddled,    \* targets lifted by somebody else (history)
  orphans     \* targets whose release failed where no lease records it (history)

gateVars == <<leases, nextGen, stopping>>
threadVars == <<pc, req, todo, attempt>>
opVars == <<cancelled, writing, wrote>>
worldVars == <<current, life, held, heldFor, meddled, orphans>>
vars == <<leases, nextGen, stopping, pc, req, todo, attempt,
          cancelled, writing, wrote, current, life, held, heldFor, meddled, orphans>>

CallerPC ==
  {"idle", "pausing", "acquiring", "mutating", "spawning", "running", "draining", "waiting"}
WatchPC == {"absent", "parked", "sweeping", "waiting", "exited"}
StopPC == {"off", "joining", "sweeping", "waiting", "stopped", "failed"}

HasLease(p) == leases[p] # NoLease
Matches(p, gen) == HasLease(p) /\ leases[p].gen = gen
(* Mutant: no absolute ceiling, a frontend that renews holds for ever. *)
ExpiredIdle(l) == l.idle > TTL
Expired(l) == l.age > Ceiling \/ l.idle > TTL
Up(n, limit) == IF n > limit THEN n ELSE n + 1

(* The stored hold is still in force: verify_frozen, stop_only_failure.    *)
Verified(l) == l.target \in held
(* renew checks the recovery scopes too. *)
AllVerified(l) == ({l.target} \cup l.recovery) \subseteq held

NoCall == [pid |-> CHOOSE p \in Pids : TRUE, gen |-> 0]
(* A call of pause holds the PID's transition lock. *)
Locked(p) == \E t \in Callers : pc[t] = "acquiring" /\ req[t].pid = p
Operating(t) == pc[t] \in {"mutating", "spawning", "running", "draining"}
-----------------------------------------------------------------------------
Init ==
  /\ leases = [p \in Pids |-> NoLease]
  /\ nextGen = 1
  /\ stopping = FALSE
  /\ pc = [t \in Threads |-> IF t = Watch THEN "absent"
                             ELSE IF t = Stopper THEN "off" ELSE "idle"]
  /\ req = [t \in Threads |-> NoCall]
  /\ todo = [t \in {Watch, Stopper} |-> {}]
  /\ attempt = 0
  /\ cancelled = {} /\ writing = {} /\ wrote = {}
  /\ current = [p \in Pids |-> NoTarget]
  /\ life = [x \in Targets |-> "unborn"]
  /\ held = {} /\ meddled = {} /\ orphans = {}
  /\ heldFor = [x \in Targets |-> 0]

Goto(t, place) == pc' = [pc EXCEPT ![t] = place]
Calls(t, p, gen) == req' = [req EXCEPT ![t] = [pid |-> p, gen |-> gen]]
Returns(t) == req' = [req EXCEPT ![t] = NoCall]
(* Where a thread goes on when a call of resume_until returns. *)
Home(t) == IF t \in Callers THEN "idle" ELSE "sweeping"

(* When the backend changes what is held, a target keeps its clock only    *)
(* while a lease goes on holding it.                                       *)
KeepClocks ==
  /\ heldFor' = [x \in Targets |-> IF x \in (held \cap held') \ orphans THEN heldFor[x] ELSE 0]
  /\ meddled' = meddled \ (held' \ held)
-----------------------------------------------------------------------------
(* pause                                                                   *)

(* The stopping flag is read before the transition lock is taken.          *)
PauseCall(t, p) ==
  /\ pc[t] = "idle" /\ ~stopping
  /\ Goto(t, "pausing")
  /\ Calls(t, p, 0)
  /\ UNCHANGED <<gateVars, todo, attempt, opVars, worldVars>>

(* No guarded operation, release or pending recovery stands in the way.    *)
(* Mutant: a pause may replace a lease while a mutation is pinned to it. *)
MayPauseGuarded(p) ==
  HasLease(p) => ~leases[p].requested /\ ~leases[p].releasing /\ leases[p].recovery = {}
MayPause(p) ==
  HasLease(p) => /\ leases[p].by = Nobody
                 /\ ~leases[p].requested /\ ~leases[p].releasing
                 /\ leases[p].recovery = {}

(* ensure_watchdog: it starts the thread unless the plugin is stopping.    *)
CanWatch == pc[Watch] \in {"absent", "exited"} => ~stopping
AwakeWatch == IF pc[Watch] \in {"absent", "exited"} THEN "parked" ELSE pc[Watch]

PauseRefused(t) ==
  /\ pc[t] = "pausing" /\ ~Locked(req[t].pid)
  /\ ~MayPause(req[t].pid) \/ ~CanWatch
  /\ Goto(t, "idle") /\ Returns(t)
  /\ UNCHANGED <<gateVars, todo, attempt, opVars, worldVars>>

PauseStarts(t) ==
  /\ pc[t] = "pausing" /\ ~Locked(req[t].pid)
  /\ MayPause(req[t].pid) /\ CanWatch
  /\ pc' = [pc EXCEPT ![t] = "acquiring", ![Watch] = AwakeWatch]
  /\ UNCHANGED <<gateVars, req, todo, attempt, opVars, worldVars>>

Acquiring(t, p) == pc[t] = "acquiring" /\ req[t].pid = p
PauseReturns(t) == Goto(t, "idle") /\ Returns(t)

(* The scope a lease already holds is verified, never frozen again and     *)
(* never thawed by a failed acquisition.                                   *)
Existing(p, x) == HasLease(p) /\ leases[p].target = x

(* acquire fails: nothing was touched, or BootstrapStopGuard continued the *)
(* process and thawed the scope, which may itself have failed; a process   *)
(* that took over the PID before the stop signal came is not continued.    *)
Reused(p, x) == \E y \in ProcsOf(p) \ {x} : life[y] = "gone"
Strayed(p) == {x \in ProcsOf(p) : x = current[p] /\ Reused(p, x)}
NewlyHeld(p) ==
  {x \in Scopes \cup Strayed(p) : x = current[p] /\ life[x] = "alive" /\ ~Existing(p, x)}

AcquireFails(t) ==
  \E p \in Pids :
    /\ Acquiring(t, p)
    /\ \/ UNCHANGED worldVars
       \/ \E left \in SUBSET NewlyHeld(p) :
            /\ held' = (held \ (ProcsOf(p) \cup NewlyHeld(p))) \cup left
            /\ orphans' = (orphans \ NewlyHeld(p)) \cup left
            /\ KeepClocks
            /\ UNCHANGED <<current, life>>
    /\ PauseReturns(t)
    /\ UNCHANGED <<gateVars, todo, attempt, opVars>>

(* acquire succeeds: the process is stopped before it has a scope, or its  *)
(* scope is frozen and the process continued inside it.                    *)
Acquirable(p, x) ==
  /\ x = current[p] /\ x \in Targets /\ life[x] = "alive"
  /\ Existing(p, x) /\ x \in Scopes => x \in held
HeldAfterAcquire(p, x) == (held \ ProcsOf(p)) \cup {x}

(* lease.scope == scope: two stop-only leases compare equal.               *)
SameScope(l, x) == l.target = x \/ (l.target \in Procs /\ x \in Procs)
MustThaw(p, x) == HasLease(p) /\ leases[p].target \in Scopes /\ leases[p].target # x

(* Mutant: every pause starts the ceiling anew. *)
StartedNow(p, x) == 0
StartedAge(p, x) ==
  IF HasLease(p) /\ SameScope(leases[p], x) THEN leases[p].age ELSE 0

NewLease(p, x) ==
  [target |-> x, recovery |-> {}, age |-> StartedAge(p, x), idle |-> 0, gen |-> nextGen,
   by |-> Nobody, requested |-> FALSE, releasing |-> FALSE]

Thawed(p, x) == IF MustThaw(p, x) THEN {leases[p].target} ELSE {}

PauseAcquires(t) ==
  \E p \in Pids : \E x \in Targets :
    /\ Acquiring(t, p) /\ Acquirable(p, x)
    /\ MustThaw(p, x) => life[leases[p].target] # "stale"
    /\ nextGen <= MaxGen
    /\ leases' = [leases EXCEPT ![p] = NewLease(p, x)]
    /\ nextGen' = nextGen + 1
    /\ held' = HeldAfterAcquire(p, x) \ Thawed(p, x)
    /\ KeepClocks
    /\ orphans' = orphans \ {x}
    /\ PauseReturns(t)
    /\ UNCHANGED <<stopping, todo, attempt, opVars, current, life>>

(* The previous scope cannot be thawed: the new hold is given up again,    *)
(* and a new scope that resists is left to the lease to recover.           *)
(* Mutant: the new scope that resists is forgotten. *)
RecoverNothing(p, x) == leases
(* Mutant: any target is recovered by thawing, a stopped process too. *)
RecoverAny(p, x) == [leases EXCEPT ![p].recovery = @ \cup {x}]
Recover(p, x) == [leases EXCEPT ![p].recovery = @ \cup ({x} \cap Scopes)]

PauseSwapFails(t) ==
  \E p \in Pids : \E x \in Targets :
    /\ Acquiring(t, p) /\ Acquirable(p, x) /\ MustThaw(p, x)
    /\ life[leases[p].target] # "gone"
    /\ \E lifted \in SUBSET {leases[p].target, x}, cleaned \in BOOLEAN :
         /\ cleaned => x \in lifted
         /\ held' = HeldAfterAcquire(p, x) \ lifted
         /\ leases' = IF cleaned THEN leases ELSE Recover(p, x)
         /\ orphans' = IF cleaned \/ x \in Scopes THEN orphans \ {x}
                       ELSE orphans \cup {x}
    /\ KeepClocks
    /\ PauseReturns(t)
    /\ UNCHANGED <<nextGen, stopping, todo, attempt, opVars, current, life>>
-----------------------------------------------------------------------------
(* renew does not look at the expiry: until the watchdog thread comes, an  *)
(* expired lease can still be renewed.                                     *)
Renew(p) ==
  /\ HasLease(p) /\ ~Locked(p)
  /\ ~leases[p].requested /\ ~leases[p].releasing
  /\ AllVerified(leases[p])
  /\ leases' = [leases EXCEPT ![p].idle = 0]
  /\ UNCHANGED <<nextGen, stopping, threadVars, opVars, worldVars>>
-----------------------------------------------------------------------------
(* run_guarded                                                             *)

(* Mutant: the lease may be pinned by two operations. *)
PinnableTwice(l) == ~l.requested /\ ~l.releasing /\ ~Expired(l) /\ Verified(l)
Pinnable(l) ==
  /\ l.by = Nobody
  /\ ~l.requested /\ ~l.releasing
  /\ ~Expired(l)
  /\ Verified(l)

(* The caller presents a lease_id it was given at some time.               *)
Pin(t, p, gen) ==
  /\ pc[t] = "idle"
  /\ Matches(p, gen) /\ ~Locked(p)
  /\ Pinnable(leases[p])
  /\ leases' = [leases EXCEPT ![p].by = t]
  /\ cancelled' = cancelled \ {t}
  /\ wrote' = wrote \ {t}
  /\ Goto(t, "mutating")
  /\ Calls(t, p, gen)
  /\ UNCHANGED <<nextGen, stopping, todo, attempt, writing, worldVars>>

(* The command is refused once cancelled, but a cancellation may come      *)
(* between that check and the spawn.                                       *)
SpawnCheck(t) ==
  /\ pc[t] = "mutating" /\ t \notin cancelled
  /\ Goto(t, "spawning")
  /\ UNCHANGED <<gateVars, req, todo, attempt, opVars, worldVars>>

Spawn(t) ==
  /\ pc[t] = "spawning"
  /\ Goto(t, "running")
  /\ writing' = writing \cup {t}
  /\ UNCHANGED <<gateVars, req, todo, attempt, cancelled, wrote, worldVars>>

(* The process group ends by itself, its work done or not, or is killed    *)
(* after a cancellation.                                                   *)
WriterExits(t) ==
  /\ t \in writing
  /\ writing' = writing \ {t}
  /\ wrote' \in {wrote, wrote \cup {t}}
  /\ t \in cancelled => wrote' = wrote
  /\ UNCHANGED <<gateVars, threadVars, cancelled, worldVars>>

(* The callback returns, with the group gone or its exit unconfirmed, or   *)
(* unwinds, and then the guard's drop cancels the operation.               *)
CallbackReturns(t) ==
  /\ pc[t] \in {"mutating", "spawning", "running"}
  /\ Goto(t, "draining")
  /\ cancelled' \in {cancelled, cancelled \cup {t}}
  /\ UNCHANGED <<gateVars, req, todo, attempt, writing, wrote, worldVars>>

(* GuardedOperationGuard::finish and drop: wait for the group, finalize.   *)
Unpin(t) ==
  LET p == req[t].pid IN
  IF Matches(p, req[t].gen) /\ leases[p].by = t
  THEN [leases EXCEPT ![p].by = Nobody] ELSE leases

Finalize(t) ==
  /\ pc[t] = "draining" /\ t \notin writing /\ ~Locked(req[t].pid)
  /\ leases' = Unpin(t)
  /\ cancelled' = cancelled \ {t}
  /\ wrote' = wrote \ {t}
  /\ Goto(t, "idle") /\ Returns(t)
  /\ UNCHANGED <<nextGen, stopping, todo, attempt, writing, worldVars>>

(* What the caller of run_guarded learns: None when a release was asked    *)
(* for, else what the callback returned.                                   *)
ReportsLost(t) == Matches(req[t].pid, req[t].gen) => leases[req[t].pid].requested
-----------------------------------------------------------------------------
(* resume_until, run by a caller, the watchdog thread or the shutdown      *)

(* Mutant: a second release may join one that is under way. *)
CanRequestTwice(p, gen) == HasLease(p) /\ gen \in {0, leases[p].gen}
CanRequest(p, gen) ==
  /\ HasLease(p) /\ gen \in {0, leases[p].gen}     \* 0: no lease_id given
  /\ ~leases[p].releasing

GuardedBy(p) == {leases[p].by} \ {Nobody}

ResumeRequest(t, p, gen) ==
  /\ CanRequest(p, gen) /\ ~Locked(p)
  /\ leases' = [leases EXCEPT ![p].requested = TRUE, ![p].releasing = TRUE]
  /\ cancelled' = cancelled \cup GuardedBy(p)
  /\ Goto(t, "waiting")
  /\ Calls(t, p, leases[p].gen)
  /\ UNCHANGED <<nextGen, stopping, attempt, writing, wrote, worldVars>>

Resume(t, p, gen) ==
  /\ pc[t] = "idle"
  /\ ResumeRequest(t, p, gen)
  /\ UNCHANGED todo

(* Mutant: a release does not wait for the guarded operation. *)
GuardedNever(p, gen) == FALSE
Guarded(p, gen) == Matches(p, gen) /\ leases[p].by # Nobody

(* reset_release *)
(* Mutant: giving up takes the request back. *)
ResetAll(p, gen) ==
  IF Matches(p, gen)
  THEN [leases EXCEPT ![p].releasing = FALSE, ![p].requested = FALSE] ELSE leases
Reset(p, gen) ==
  IF Matches(p, gen) THEN [leases EXCEPT ![p].releasing = FALSE] ELSE leases

(* The guarded operation outlives the wait, or the shutdown deadline       *)
(* passes: the lease stays, with its end requested.                        *)
GiveUp(t) ==
  LET p == req[t].pid IN
  /\ pc[t] = "waiting"
  /\ Guarded(p, req[t].gen) \/ stopping
  /\ leases' = Reset(p, req[t].gen)
  /\ Goto(t, Home(t)) /\ Returns(t)
  /\ UNCHANGED <<nextGen, stopping, todo, attempt, opVars, worldVars>>

(* release_lease.  resume_until looks again whether the lease is still the *)
(* one it marked; OneReleasePerGate shows that it always is.               *)
CanRelease(t) ==
  /\ pc[t] = "waiting" /\ ~Locked(req[t].pid)
  /\ Matches(req[t].pid, req[t].gen)
  /\ ~Guarded(req[t].pid, req[t].gen)

Owned(l) == {l.target} \cup l.recovery
(* A scope whose unit name now belongs to another scope is never thawed,   *)
(* while one that is simply missing counts as thawed.                      *)
Stale(l) == {x \in Owned(l) : life[x] = "stale"}

Released(t) ==
  /\ CanRelease(t)
  /\ Stale(leases[req[t].pid]) = {}
  /\ leases' = [leases EXCEPT ![req[t].pid] = NoLease]
  /\ held' = held \ Owned(leases[req[t].pid])
  /\ KeepClocks
  /\ Goto(t, Home(t)) /\ Returns(t)
  /\ UNCHANGED <<nextGen, stopping, todo, attempt, opVars, current, life, orphans>>

(* Some thaws fail, though they may have taken effect: the lease keeps     *)
(* exactly the targets whose thaw was not confirmed.                       *)
Retain(p, first, failed) ==
  [leases EXCEPT ![p].target = first, ![p].recovery = failed \ {first},
                 ![p].releasing = FALSE]

ReleaseFails(t) ==
  LET p == req[t].pid
      l == leases[p]
  IN /\ CanRelease(t)
     /\ \E failed \in (SUBSET Owned(l)) \ {{}} :
          /\ Stale(l) \subseteq failed
          /\ \A x \in failed : life[x] # "gone" \/ stopping
          /\ \E first \in failed, lifted \in SUBSET failed :
               /\ l.target \in failed => first = l.target
               /\ leases' = Retain(p, first, failed)
               /\ held' = (held \ (Owned(l) \ failed)) \ lifted
     /\ KeepClocks
     /\ Goto(t, Home(t)) /\ Returns(t)
     /\ UNCHANGED <<nextGen, stopping, todo, attempt, opVars, current, life, orphans>>
-----------------------------------------------------------------------------
(* The watchdog thread                                                     *)

ExpiredLeases == {<<p, leases[p].gen>> : p \in {q \in Pids : HasLease(q) /\ Expired(leases[q])}}

(* The expired leases are collected under the state lock and released      *)
(* after it is dropped; the expiry is not looked at again.                 *)
WatchScan ==
  /\ pc[Watch] = "parked" /\ ~stopping
  /\ ExpiredLeases # {}
  /\ todo' = [todo EXCEPT ![Watch] = ExpiredLeases]
  /\ Goto(Watch, "sweeping")
  /\ UNCHANGED <<gateVars, req, attempt, opVars, worldVars>>

WatchParks ==
  /\ pc[Watch] = "sweeping" /\ todo[Watch] = {}
  /\ Goto(Watch, "parked")
  /\ UNCHANGED <<gateVars, req, todo, attempt, opVars, worldVars>>

WatchExits ==
  /\ pc[Watch] = "parked" /\ stopping
  /\ Goto(Watch, "exited")
  /\ UNCHANGED <<gateVars, req, todo, attempt, opVars, worldVars>>

(* The watchdog thread and the shutdown sweep visit their lists; once the  *)
(* shutdown deadline has passed, resume_until returns at once.             *)
SweepNext(t) ==
  /\ pc[t] = "sweeping"
  /\ \E item \in todo[t] :
       /\ todo' = [todo EXCEPT ![t] = @ \ {item}]
       /\ \/ ResumeRequest(t, item[1], item[2])
          \/ /\ (~CanRequest(item[1], item[2]) /\ ~Locked(item[1])) \/ stopping
             /\ UNCHANGED <<gateVars, pc, req, attempt, opVars, worldVars>>
-----------------------------------------------------------------------------
(* stop_until.  Its deadline may pass at any time.                         *)

MaxAttempts == 3   \* SHUTDOWN_THAW_ATTEMPTS
LeasedPids == {p \in Pids : HasLease(p)}

StopCall ==
  /\ pc[Stopper] = "off" /\ MaxStops > 0
  /\ stopping' = TRUE
  /\ Goto(Stopper, "joining")
  /\ UNCHANGED <<leases, nextGen, req, todo, attempt, opVars, worldVars>>

StopRound ==
  /\ \/ pc[Stopper] = "joining" /\ pc[Watch] \in {"absent", "exited"}
     \/ /\ pc[Stopper] = "sweeping" /\ todo[Stopper] = {}
        /\ attempt < MaxAttempts /\ LeasedPids # {}
  /\ todo' = [todo EXCEPT ![Stopper] = {<<p, 0>> : p \in LeasedPids}]
  /\ attempt' = attempt + 1
  /\ Goto(Stopper, "sweeping")
  /\ UNCHANGED <<gateVars, req, opVars, worldVars>>

StopConfirmed ==
  /\ pc[Stopper] = "sweeping" /\ todo[Stopper] = {}
  /\ LeasedPids = {}
  /\ Goto(Stopper, "stopped")
  /\ UNCHANGED <<gateVars, req, todo, attempt, opVars, worldVars>>

StopFails ==
  /\ pc[Stopper] \in {"joining", "sweeping"}
  /\ Goto(Stopper, "failed")
  /\ todo' = [todo EXCEPT ![Stopper] = {}]
  /\ UNCHANGED <<gateVars, req, attempt, opVars, worldVars>>
-----------------------------------------------------------------------------
(* The world outside the backend                                           *)

(* Targets are let go by somebody else, or are no more. *)
Lost(X) ==
  /\ held' = held \ X
  /\ heldFor' = [x \in Targets |-> IF x \in X THEN 0 ELSE heldFor[x]]
  /\ orphans' = orphans \ X

(* A launch goes on: the service manager moves the process, stopped or     *)
(* not, into a scope, or the PID is reused by another process.             *)
LaunchMoves(p) ==
  \E x \in Targets :
    /\ Owner[x] = p /\ life[x] = "unborn"
    /\ current' = [current EXCEPT ![p] = x]
    /\ LET dead == IF x \in Procs THEN {y \in ProcsOf(p) : life[y] = "alive"} ELSE {}
       IN /\ life' = [y \in Targets |-> IF y = x THEN "alive"
                                        ELSE IF y \in dead THEN "gone" ELSE life[y]]
          /\ Lost(dead) /\ meddled' = meddled \ dead
    /\ UNCHANGED <<gateVars, threadVars, opVars>>

(* The process exits, or its scope is removed; later another scope may get *)
(* the removed one's name.                                                 *)
TargetVanishes(x) ==
  /\ life[x] = "alive"
  /\ life' = [life EXCEPT ![x] = "gone"]
  /\ Lost({x}) /\ meddled' = meddled \ {x}
  /\ UNCHANGED <<gateVars, threadVars, opVars, current>>

ScopeReplaced(x) ==
  /\ x \in Scopes /\ life[x] = "gone"
  /\ life' = [life EXCEPT ![x] = "stale"]
  /\ UNCHANGED <<gateVars, threadVars, opVars, current, held, heldFor, meddled, orphans>>

(* Somebody else thaws the scope or continues the process.                 *)
Meddle(x) ==
  /\ x \in held
  /\ Lost({x}) /\ meddled' = meddled \cup {x}
  /\ UNCHANGED <<gateVars, threadVars, opVars, current, life>>

Tick ==
  /\ \E p \in Pids : HasLease(p)
  /\ leases' = [p \in Pids |->
       IF HasLease(p) THEN [leases[p] EXCEPT !.age = Up(@, Ceiling), !.idle = Up(@, TTL)]
       ELSE NoLease]
  /\ heldFor' = [x \in Targets |->
       IF x \in held \ orphans THEN Up(heldFor[x], Ceiling) ELSE heldFor[x]]
  /\ UNCHANGED <<nextGen, stopping, threadVars, opVars, current, life, held, meddled, orphans>>
-----------------------------------------------------------------------------
CallerNext(t) ==
  \/ \E p \in Pids : PauseCall(t, p)
  \/ \E p \in Pids, gen \in 0..MaxGen : Pin(t, p, gen) \/ Resume(t, p, gen)
  \/ PauseRefused(t) \/ PauseStarts(t) \/ AcquireFails(t) \/ PauseAcquires(t) \/ PauseSwapFails(t)
  \/ SpawnCheck(t) \/ Spawn(t) \/ WriterExits(t) \/ CallbackReturns(t) \/ Finalize(t)

ReleaseNext(t) == GiveUp(t) \/ Released(t) \/ ReleaseFails(t)
WatchNext == WatchScan \/ WatchParks \/ WatchExits \/ SweepNext(Watch)
StopNext == StopCall \/ StopRound \/ StopConfirmed \/ StopFails \/ SweepNext(Stopper)
WorldNext ==
  \/ \E p \in Pids : LaunchMoves(p)
  \/ \E x \in Targets : TargetVanishes(x) \/ ScopeReplaced(x) \/ Meddle(x)
  \/ Tick

Next ==
  \/ \E t \in Callers : CallerNext(t)
  \/ \E p \in Pids : Renew(p)
  \/ \E t \in Threads : ReleaseNext(t)
  \/ WatchNext
  \/ StopNext
  \/ WorldNext

Spec == Init /\ [][Next]_vars

(* Time passes, the watchdog thread runs and is not kept from a transition *)
(* lock for ever, calls end, and a thaw does not fail for ever.  A Ludusavi *)
(* command may hang: only a cancelled one is sure to be killed.            *)
Fairness ==
  /\ WF_vars(Tick)
  /\ WF_vars(WatchScan) /\ WF_vars(WatchParks) /\ SF_vars(SweepNext(Watch))
  /\ \A t \in Threads : WF_vars(ReleaseNext(t))
  /\ SF_vars(\E t \in Threads : Released(t))
  /\ \A t \in Callers :
       /\ WF_vars(AcquireFails(t) \/ PauseAcquires(t) \/ PauseSwapFails(t))
       /\ WF_vars(t \in cancelled /\ WriterExits(t))
       /\ WF_vars((t \in writing => t \in cancelled) /\ CallbackReturns(t))
       /\ WF_vars(Finalize(t))

FairSpec == Spec /\ Fairness
-----------------------------------------------------------------------------
(* Properties                                                              *)

(* The state stays well formed.                                            *)
GateTypeOK ==
  /\ leases \in [Pids -> Lease \cup {NoLease}]
  /\ nextGen \in Nat
  /\ stopping \in BOOLEAN
ThreadTypeOK ==
  /\ pc \in [Threads -> CallerPC \cup WatchPC \cup StopPC]
  /\ req \in [Threads -> [pid : Pids, gen : Nat]]
  /\ todo \in [{Watch, Stopper} -> SUBSET (Pids \X Nat)]
  /\ attempt \in Nat
  /\ cancelled \subseteq Callers /\ writing \subseteq Callers /\ wrote \subseteq Callers
WorldTypeOK ==
  /\ current \in [Pids -> Targets \cup {NoTarget}]
  /\ life \in [Targets -> {"unborn", "alive", "gone", "stale"}]
  /\ held \subseteq Targets /\ meddled \subseteq Targets /\ orphans \subseteq Targets
  /\ heldFor \in [Targets -> 0..(Ceiling + 1)]
TypeOK == GateTypeOK /\ ThreadTypeOK /\ WorldTypeOK

(* run_guarded's promise: from the moment a save mutation is admitted until *)
(* its process group is gone, the lease it was admitted under exists, names *)
(* this operation, and the game it holds has not been let go by the plugin, *)
(* whatever pauses, releases, expiries and shutdowns do meanwhile.          *)
Names(l, t) == l # NoLease /\ l.gen = req[t].gen /\ l.by = t
StillHeld(l) == l.target \in held \cup meddled \/ life[l.target] # "alive"
Protects(l, t) == Names(l, t) /\ StillHeld(l)
MutationHeld ==
  \A t \in Callers : Operating(t) \/ t \in writing => Protects(leases[req[t].pid], t)

(* The gate of a PID is never shared: no two save mutations for one launch  *)
(* overlap, not even while one of them is being killed.                     *)
OneMutationPerGate ==
  \A t, u \in Callers :
    /\ Operating(t) \/ t \in writing
    /\ Operating(u) \/ u \in writing
    /\ req[t].pid = req[u].pid
    => t = u

(* Only one thread at a time releases a gate, and until it is done the      *)
(* lease it marked stays in place, marked: no other release, no pause and   *)
(* no expiry takes it away under the thread that waits for the mutation.    *)
OneReleasePerGate ==
  \A t \in Threads : pc[t] = "waiting" =>
    /\ Matches(req[t].pid, req[t].gen)
    /\ leases[req[t].pid].requested /\ leases[req[t].pid].releasing
    /\ \A u \in Threads : pc[u] = "waiting" /\ req[u].pid = req[t].pid => u = t

(* Nothing stays stopped or frozen unrecorded: every held target is owned   *)
(* by the lease of its PID, which release_lease or a later attempt lifts,   *)
(* except those whose clean-up failed before a lease could record them.     *)
HoldsAccounted ==
  \A x \in held \ orphans :
    HasLease(Owner[x]) /\ x \in Owned(leases[Owner[x]])

(* No sequence of pauses, renewals and failed releases makes a lease forget *)
(* how long it has been holding its target: the absolute ceiling counts     *)
(* from the first pause.                                                    *)
AgeCoversHold ==
  \A p \in Pids : HasLease(p) =>
    \A x \in Owned(leases[p]) \cap (held \ orphans) : heldFor[x] <= leases[p].age

(* Once its release has been asked for, a lease is never renewed, pinned by *)
(* another operation, superseded by a new pause or taken back: it only ends.*)
ReleaseIsFinal ==
  [][\A p \in Pids : HasLease(p) /\ leases[p].requested =>
       \/ leases'[p] = NoLease
       \/ /\ leases'[p].gen = leases[p].gen /\ leases'[p].requested
          /\ leases'[p].by \in {leases[p].by, Nobody}
          /\ leases'[p].idle >= leases[p].idle]_vars

(* Watchdog implements LaunchGate: the gate of a PID is its lease.          *)
identities == nextGen - 1
gates == [p \in Pids |-> IF HasLease(p) THEN leases[p].gen ELSE 0]
endings == [p \in Pids |-> HasLease(p) /\ leases[p].requested]
mutations == [p \in Pids |-> \E t \in Callers : Operating(t) /\ req[t].pid = p]
Gate == INSTANCE LaunchGate WITH
  issued <- identities, gate <- gates, ending <- endings, mutating <- mutations
ImplementsLaunchGate == Gate!Spec

(* The watchdog's purpose: no lease holds a game for ever, even if the      *)
(* frontend never resumes it, keeps renewing it, or a Ludusavi command      *)
(* hangs.  It ends in a release, or in a new pause of the game, whose lease *)
(* takes over the age (AgeCoversHold) and ends in turn: a game that is      *)
(* paused again finitely often is let go.  Nothing in the code stops a      *)
(* frontend that pauses again each time between the scan for expired leases *)
(* and their release.  A scope whose name was taken over, and shutdown, are *)
(* the exceptions.                                                          *)
LeaseEventuallyEnds ==
  \A p \in Pids, gen \in 1..MaxGen :
    Matches(p, gen) ~> (~Matches(p, gen) \/ stopping \/ Stale(leases[p]) # {})

(* What the documentation says of gate_lost: a call that reports a lost     *)
(* gate has made no mutation.                                               *)
NoMutationOnGateLost ==
  [][\A t \in Callers :
       pc[t] = "draining" /\ pc'[t] = "idle" /\ ReportsLost(t) => t \notin wrote]_vars
-----------------------------------------------------------------------------
(* The inductive invariant: why MutationHeld and the refinement hold       *)

(* Identities are fresh: no lease or call knows one not yet handed out.    *)
GenInv ==
  /\ nextGen >= 1
  /\ \A p \in Pids : HasLease(p) => leases[p].gen \in 1..(nextGen - 1)
  /\ \A t \in Threads : req[t].gen < nextGen

(* Leases hold, and acquisition finds, only targets of their own launch.   *)
OwnerInv ==
  /\ \A p \in Pids : HasLease(p) =>
       \A x \in Owned(leases[p]) : Owner[x] = p /\ life[x] # "unborn"
  /\ \A p \in Pids : current[p] # NoTarget => Owner[current[p]] = p

(* While a pause holds the transition lock, nobody else does, and the      *)
(* lease it is about to replace stays replaceable.                         *)
LockInv ==
  \A t \in Callers : pc[t] = "acquiring" =>
    /\ MayPause(req[t].pid)
    /\ \A u \in Callers : pc[u] = "acquiring" /\ req[u].pid = req[t].pid => u = t

(* A running mutation is the one its lease names.                          *)
GuardInv ==
  \A t \in Callers :
    /\ t \in writing => pc[t] \in {"running", "draining"}
    /\ Operating(t) => Names(leases[req[t].pid], t)

(* What a pinned lease holds was not let go by the plugin.                 *)
HoldInv ==
  \A p \in Pids : HasLease(p) /\ leases[p].by # Nobody => StillHeld(leases[p])

(* The first part tells who may touch a lease, the second what is held.    *)
IdInv == GenInv /\ LockInv /\ OneReleasePerGate /\ GuardInv
HeldInv == OwnerInv /\ HoldInv /\ HoldsAccounted
IndInv == TypeOK /\ IdInv /\ HeldInv
=============================================================================
