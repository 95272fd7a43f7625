--------------------------- MODULE WatchdogProofs ---------------------------
(* Who may touch a lease: IdInv is an inductive invariant of Watchdog, and *)
(* with it a gate is never shared, a request to end it is final, and       *)
(* Watchdog implements LaunchGate.  The first part has the types, and what *)
(* each action does to the lease of one PID.                               *)
EXTENDS Watchdog, TLAPS

USE DEF gateVars, threadVars, opVars, worldVars, Goto, Calls, Returns, PauseReturns
USE PidsAssumption, TargetAssumption, ThreadAssumption, TimeAssumption
USE BoundAssumption, LeaseAssumption
-----------------------------------------------------------------------------
(* Leases and what is done to their fields                                 *)

LEMMA LeaseUpdates ==
  ASSUME NEW l \in Lease
  PROVE  /\ \A t \in Callers \cup {Nobody} : [l EXCEPT !.by = t] \in Lease
         /\ [l EXCEPT !.idle = 0] \in Lease
         /\ [l EXCEPT !.releasing = FALSE] \in Lease
         /\ [l EXCEPT !.requested = TRUE, !.releasing = TRUE] \in Lease
         /\ \A s \in SUBSET Scopes : [l EXCEPT !.recovery = s] \in Lease
         /\ \A x \in Targets, s \in SUBSET Scopes :
              [l EXCEPT !.target = x, !.recovery = s, !.releasing = FALSE] \in Lease
<1> USE DEF Lease
<1>1. \A t \in Callers \cup {Nobody} : [l EXCEPT !.by = t] \in Lease
  OBVIOUS
<1>2. [l EXCEPT !.idle = 0] \in Lease
  OBVIOUS
<1>3. [l EXCEPT !.releasing = FALSE] \in Lease
  OBVIOUS
<1>4. [l EXCEPT !.requested = TRUE, !.releasing = TRUE] \in Lease
  OBVIOUS
<1>5. \A s \in SUBSET Scopes : [l EXCEPT !.recovery = s] \in Lease
  OBVIOUS
<1>6. \A x \in Targets, s \in SUBSET Scopes :
        [l EXCEPT !.target = x, !.recovery = s, !.releasing = FALSE] \in Lease
  OBVIOUS
<1>. QED
  BY <1>1, <1>2, <1>3, <1>4, <1>5, <1>6

LEMMA LeaseTyping ==
  ASSUME GateTypeOK, NEW p \in Pids, HasLease(p)
  PROVE  leases[p] \in Lease
BY DEF GateTypeOK, HasLease

(* Replacing one lease keeps the table well formed.                        *)
LEMMA PutLease ==
  ASSUME GateTypeOK, nextGen' \in Nat, stopping' \in BOOLEAN,
         NEW p \in Pids, NEW l \in Lease \cup {NoLease},
         leases' = [leases EXCEPT ![p] = l]
  PROVE  GateTypeOK'
BY DEF GateTypeOK

(* Ageing keeps a clock within its range.                                  *)
LEMMA UpTyping ==
  ASSUME NEW limit \in Nat, NEW n \in 0..(limit + 1)
  PROVE  Up(n, limit) \in 0..(limit + 1)
BY DEF Up

(* Both ways in which the held targets change keep their typing.           *)
LEMMA ClockTyping ==
  ASSUME WorldTypeOK, KeepClocks
  PROVE  meddled' \subseteq Targets /\ heldFor' \in [Targets -> 0..(Ceiling + 1)]
BY DEF WorldTypeOK, KeepClocks

LEMMA LostTyping ==
  ASSUME WorldTypeOK, NEW X \in SUBSET Targets, Lost(X)
  PROVE  /\ held' \subseteq Targets /\ orphans' \subseteq Targets
         /\ heldFor' \in [Targets -> 0..(Ceiling + 1)]
BY DEF WorldTypeOK, Lost
-----------------------------------------------------------------------------
(* Type correctness                                                        *)

LEMMA GateStep ==
  ASSUME TypeOK, NEW t \in Threads,
         \/ t \in Callers /\ PauseAcquires(t)
         \/ t \in Callers /\ PauseSwapFails(t)
         \/ t \in Callers /\ Finalize(t)
         \/ GiveUp(t) \/ Released(t) \/ ReleaseFails(t)
  PROVE  GateTypeOK'
<1> USE DEF TypeOK, ThreadTypeOK
<1>1. req[t].pid \in Pids
  OBVIOUS
<1>2. ASSUME PauseAcquires(t) PROVE GateTypeOK'
  <2>1. PICK p \in Pids, x \in Targets : leases' = [leases EXCEPT ![p] = NewLease(p, x)]
    BY <1>2 DEF PauseAcquires
  <2>2. StartedAge(p, x) \in 0..(Ceiling + 1)
    BY LeaseTyping DEF StartedAge, Lease
  <2>3. NewLease(p, x) \in Lease
    BY <2>2 DEF NewLease, Lease, GateTypeOK
  <2>. QED
    BY <1>2, <2>1, <2>3, PutLease DEF PauseAcquires, GateTypeOK
<1>3. ASSUME PauseSwapFails(t) PROVE GateTypeOK'
  <2>1. PICK p \in Pids, x \in Targets :
          MustThaw(p, x) /\ leases' \in {leases, Recover(p, x)}
    BY <1>3 DEF PauseSwapFails
  <2>2. leases[p] \in Lease
    BY <2>1, LeaseTyping DEF MustThaw
  <2> DEFINE s == leases[p].recovery \cup ({x} \cap Scopes)
  <2>3. s \in SUBSET Scopes
    BY <2>2 DEF Lease
  <2>4. [leases[p] EXCEPT !.recovery = s] \in Lease
    BY <2>2, <2>3, LeaseUpdates
  <2>5. Recover(p, x) = [leases EXCEPT ![p] = [leases[p] EXCEPT !.recovery = s]]
    BY DEF Recover, GateTypeOK
  <2> HIDE DEF s
  <2>6. nextGen' \in Nat /\ stopping' \in BOOLEAN
    BY <1>3 DEF PauseSwapFails, GateTypeOK
  <2>7. CASE leases' = leases
    BY <2>6, <2>7 DEF GateTypeOK
  <2>8. CASE leases' = Recover(p, x)
    BY <2>4, <2>5, <2>6, <2>8, PutLease
  <2>. QED
    BY <2>1, <2>7, <2>8
<1>4. ASSUME Finalize(t) PROVE GateTypeOK'
  <2>1. CASE Matches(req[t].pid, req[t].gen)
    BY <1>1, <1>4, <2>1, LeaseTyping, LeaseUpdates, PutLease
       DEF Finalize, GateTypeOK, Unpin, Matches
  <2>. QED
    BY <1>4, <2>1 DEF Finalize, GateTypeOK, Unpin
<1>5. ASSUME GiveUp(t) PROVE GateTypeOK'
  <2>1. CASE Matches(req[t].pid, req[t].gen)
    BY <1>1, <1>5, <2>1, LeaseTyping, LeaseUpdates, PutLease
       DEF GiveUp, GateTypeOK, Reset, Matches
  <2>. QED
    BY <1>5, <2>1 DEF GiveUp, GateTypeOK, Reset
<1>6. ASSUME Released(t) PROVE GateTypeOK'
  BY <1>1, <1>6, PutLease DEF Released, GateTypeOK
<1>7. ASSUME ReleaseFails(t) PROVE GateTypeOK'
  <2> DEFINE p == req[t].pid
  <2>1. leases[p] \in Lease
    BY <1>1, <1>7, LeaseTyping DEF ReleaseFails, CanRelease, Matches
  <2>2. PICK failed \in SUBSET Owned(leases[p]), first \in Owned(leases[p]) :
          /\ first \in failed
          /\ leases[p].target \in failed => first = leases[p].target
          /\ leases' = Retain(p, first, failed)
    BY <1>7 DEF ReleaseFails
  <2>3. first \in Targets /\ failed \ {first} \in SUBSET Scopes
    BY <2>1, <2>2 DEF Owned, Lease, Targets
  <2> DEFINE left == [leases[p] EXCEPT !.target = first, !.recovery = failed \ {first},
                                       !.releasing = FALSE]
  <2>4. left \in Lease
    BY <2>1, <2>3, LeaseUpdates
  <2>5. leases' = [leases EXCEPT ![p] = left]
    BY <2>2 DEF Retain, GateTypeOK
  <2> HIDE DEF left
  <2>. QED
    BY <1>1, <1>7, <2>4, <2>5, PutLease DEF ReleaseFails, GateTypeOK
<1>. QED
  BY <1>2, <1>3, <1>4, <1>5, <1>6, <1>7

LEMMA PinTyping ==
  ASSUME TypeOK, NEW t \in Callers, NEW p \in Pids, NEW gen \in Nat, Pin(t, p, gen)
  PROVE  GateTypeOK'
BY LeaseTyping, LeaseUpdates, PutLease DEF Pin, Matches, TypeOK, GateTypeOK

LEMMA RenewTyping ==
  ASSUME TypeOK, NEW p \in Pids, Renew(p)
  PROVE  GateTypeOK'
BY LeaseTyping, LeaseUpdates, PutLease DEF Renew, TypeOK, GateTypeOK

LEMMA RequestTyping ==
  ASSUME TypeOK, NEW t \in Threads, NEW p \in Pids, NEW gen \in Nat,
         ResumeRequest(t, p, gen)
  PROVE  /\ GateTypeOK'
         /\ cancelled' \subseteq Callers /\ req' \in [Threads -> [pid : Pids, gen : Nat]]
<1>1. leases[p] \in Lease
  BY LeaseTyping DEF ResumeRequest, CanRequest, TypeOK
<1>2. [leases[p] EXCEPT !.requested = TRUE, !.releasing = TRUE] \in Lease
  BY <1>1, LeaseUpdates
<1>3. GateTypeOK'
  BY <1>2, PutLease DEF ResumeRequest, TypeOK, GateTypeOK
<1>4. leases[p].by \in Callers \cup {Nobody} /\ leases[p].gen \in Nat
  BY <1>1 DEF Lease
<1>. QED
  BY <1>3, <1>4 DEF ResumeRequest, GuardedBy, TypeOK, ThreadTypeOK

LEMMA AgedLease ==
  ASSUME NEW l \in Lease
  PROVE  [l EXCEPT !.age = Up(@, Ceiling), !.idle = Up(@, TTL)] \in Lease
<1>1. Up(l.age, Ceiling) \in 0..(Ceiling + 1) /\ Up(l.idle, TTL) \in 0..(TTL + 1)
  BY UpTyping DEF Lease
<1>. QED
  BY <1>1 DEF Lease

LEMMA TickTyping ==
  ASSUME TypeOK, Tick
  PROVE  GateTypeOK' /\ heldFor' \in [Targets -> 0..(Ceiling + 1)]
<1>1. ASSUME NEW p \in Pids, HasLease(p)
      PROVE  [leases[p] EXCEPT !.age = Up(@, Ceiling), !.idle = Up(@, TTL)] \in Lease
  BY <1>1, AgedLease, LeaseTyping DEF TypeOK
<1>2. GateTypeOK'
  BY <1>1 DEF Tick, TypeOK, GateTypeOK
<1>. QED
  BY <1>2, UpTyping DEF Tick, TypeOK, WorldTypeOK

(* Every step keeps the state well formed.                                 *)
LEMMA TypeInductive == TypeOK /\ [Next]_vars => TypeOK'
<1> SUFFICES ASSUME TypeOK, [Next]_vars PROVE TypeOK'
  OBVIOUS
<1> USE DEF TypeOK, Threads, CallerPC, WatchPC, StopPC
<1>1. ASSUME NEW t \in Callers, NEW p \in Pids, PauseCall(t, p) PROVE TypeOK'
  BY <1>1 DEF PauseCall, GateTypeOK, ThreadTypeOK, WorldTypeOK, NoCall
<1>2. ASSUME NEW t \in Callers, PauseRefused(t) PROVE TypeOK'
  BY <1>2 DEF PauseRefused, GateTypeOK, ThreadTypeOK, WorldTypeOK, NoCall
<1>3. ASSUME NEW t \in Callers, PauseStarts(t) PROVE TypeOK'
  BY <1>3 DEF PauseStarts, AwakeWatch, GateTypeOK, ThreadTypeOK, WorldTypeOK, NoCall
<1>4. ASSUME NEW t \in Callers, SpawnCheck(t) PROVE TypeOK'
  BY <1>4 DEF SpawnCheck, GateTypeOK, ThreadTypeOK, WorldTypeOK, NoCall
<1>5. ASSUME NEW t \in Callers, Spawn(t) PROVE TypeOK'
  BY <1>5 DEF Spawn, GateTypeOK, ThreadTypeOK, WorldTypeOK, NoCall
<1>6. ASSUME NEW t \in Callers, WriterExits(t) PROVE TypeOK'
  BY <1>6 DEF WriterExits, GateTypeOK, ThreadTypeOK, WorldTypeOK, NoCall
<1>7. ASSUME NEW t \in Callers, CallbackReturns(t) PROVE TypeOK'
  BY <1>7 DEF CallbackReturns, GateTypeOK, ThreadTypeOK, WorldTypeOK, NoCall
<1>8. ASSUME NEW t \in Callers, AcquireFails(t) PROVE TypeOK'
  <2>1. GateTypeOK' /\ ThreadTypeOK'
    <3>1. GateTypeOK'
      BY <1>8 DEF AcquireFails, GateTypeOK
    <3>2. ThreadTypeOK'
      BY <1>8 DEF AcquireFails, ThreadTypeOK, NoCall, Home
    <3>. QED
      BY <3>1, <3>2
  <2>2. held' \subseteq Targets /\ orphans' \subseteq Targets
    BY <1>8 DEF AcquireFails, WorldTypeOK, NewlyHeld, Strayed, ProcsOf, Targets
  <2>3. WorldTypeOK'
    BY <1>8, <2>2, ClockTyping DEF AcquireFails, WorldTypeOK
  <2>. QED
    BY <2>1, <2>3
<1>9. ASSUME NEW t \in Callers, PauseAcquires(t) PROVE TypeOK'
  <2>1. GateTypeOK' /\ ThreadTypeOK'
    <3>1. GateTypeOK'
      BY <1>9, GateStep
    <3>2. ThreadTypeOK'
      BY <1>9 DEF PauseAcquires, ThreadTypeOK, NoCall, Home
    <3>. QED
      BY <3>1, <3>2
  <2>2. held' \subseteq Targets /\ orphans' \subseteq Targets
    BY <1>9 DEF PauseAcquires, WorldTypeOK, HeldAfterAcquire
  <2>3. WorldTypeOK'
    BY <1>9, <2>2, ClockTyping DEF PauseAcquires, WorldTypeOK
  <2>. QED
    BY <2>1, <2>3
<1>10. ASSUME NEW t \in Callers, PauseSwapFails(t) PROVE TypeOK'
  <2>1. GateTypeOK' /\ ThreadTypeOK'
    <3>1. GateTypeOK'
      BY <1>10, GateStep
    <3>2. ThreadTypeOK'
      BY <1>10 DEF PauseSwapFails, ThreadTypeOK, NoCall, Home
    <3>. QED
      BY <3>1, <3>2
  <2>2. held' \subseteq Targets /\ orphans' \subseteq Targets
    BY <1>10 DEF PauseSwapFails, WorldTypeOK, HeldAfterAcquire
  <2>3. WorldTypeOK'
    BY <1>10, <2>2, ClockTyping DEF PauseSwapFails, WorldTypeOK
  <2>. QED
    BY <2>1, <2>3
<1>11. ASSUME NEW t \in Callers, NEW p \in Pids, NEW gen \in 0..MaxGen, Pin(t, p, gen) PROVE TypeOK'
  <2>1. GateTypeOK'
    BY <1>11, PinTyping
  <2>. QED
    BY <1>11, <2>1 DEF Pin, ThreadTypeOK, WorldTypeOK
<1>12. ASSUME NEW t \in Callers, Finalize(t) PROVE TypeOK'
  BY <1>12, GateStep DEF Finalize, ThreadTypeOK, WorldTypeOK, NoCall
<1>13. ASSUME NEW t \in Callers, NEW p \in Pids, NEW gen \in 0..MaxGen, Resume(t, p, gen)
       PROVE  TypeOK'
  <2>1. GateTypeOK' /\ cancelled' \subseteq Callers
        /\ req' \in [Threads -> [pid : Pids, gen : Nat]]
    BY <1>13, RequestTyping DEF Resume
  <2>. QED
    BY <1>13, <2>1 DEF Resume, ResumeRequest, ThreadTypeOK, WorldTypeOK
<1>14. ASSUME NEW p \in Pids, Renew(p) PROVE TypeOK'
  BY <1>14, RenewTyping DEF Renew, ThreadTypeOK, WorldTypeOK
<1>15. ASSUME NEW t \in Threads, GiveUp(t) PROVE TypeOK'
  BY <1>15, GateStep DEF GiveUp, ThreadTypeOK, WorldTypeOK, NoCall, Home
<1>17. ASSUME NEW t \in Threads, Released(t) PROVE TypeOK'
  <2>1. GateTypeOK' /\ ThreadTypeOK'
    <3>1. GateTypeOK'
      BY <1>17, GateStep
    <3>2. ThreadTypeOK'
      BY <1>17 DEF Released, ThreadTypeOK, NoCall, Home
    <3>. QED
      BY <3>1, <3>2
  <2>2. held' \subseteq Targets /\ orphans' \subseteq Targets
    BY <1>17 DEF Released, WorldTypeOK
  <2>3. WorldTypeOK'
    BY <1>17, <2>2, ClockTyping DEF Released, WorldTypeOK
  <2>. QED
    BY <2>1, <2>3
<1>18. ASSUME NEW t \in Threads, ReleaseFails(t) PROVE TypeOK'
  <2>1. GateTypeOK' /\ ThreadTypeOK'
    <3>1. GateTypeOK'
      BY <1>18, GateStep
    <3>2. ThreadTypeOK'
      BY <1>18 DEF ReleaseFails, ThreadTypeOK, NoCall, Home
    <3>. QED
      BY <3>1, <3>2
  <2>2. held' \subseteq Targets /\ orphans' \subseteq Targets
    BY <1>18 DEF ReleaseFails, WorldTypeOK
  <2>3. WorldTypeOK'
    BY <1>18, <2>2, ClockTyping DEF ReleaseFails, WorldTypeOK
  <2>. QED
    BY <2>1, <2>3
<1>19. ASSUME WatchScan PROVE TypeOK'
  <2>1. ExpiredLeases \in SUBSET (Pids \X Nat)
    BY LeaseTyping DEF ExpiredLeases, Lease
  <2>. QED
    BY <1>19, <2>1 DEF WatchScan, GateTypeOK, ThreadTypeOK, WorldTypeOK
<1>20. ASSUME WatchParks PROVE TypeOK'
  BY <1>20 DEF WatchParks, GateTypeOK, ThreadTypeOK, WorldTypeOK, NoCall
<1>21. ASSUME WatchExits PROVE TypeOK'
  BY <1>21 DEF WatchExits, GateTypeOK, ThreadTypeOK, WorldTypeOK, NoCall
<1>22. ASSUME NEW t \in {Watch, Stopper}, SweepNext(t) PROVE TypeOK'
  <2>1. PICK item \in todo[t] :
          /\ todo' = [todo EXCEPT ![t] = todo[t] \ {item}]
          /\ \/ ResumeRequest(t, item[1], item[2])
             \/ UNCHANGED <<gateVars, pc, req, attempt, opVars, worldVars>>
    BY <1>22 DEF SweepNext
  <2>2. item[1] \in Pids /\ item[2] \in Nat
    BY DEF ThreadTypeOK
  <2>3. todo' \in [{Watch, Stopper} -> SUBSET (Pids \X Nat)]
    BY <2>1 DEF ThreadTypeOK
  <2>4. CASE ResumeRequest(t, item[1], item[2])
    BY <2>2, <2>3, <2>4, RequestTyping DEF ResumeRequest, ThreadTypeOK, WorldTypeOK
  <2>5. CASE UNCHANGED <<gateVars, pc, req, attempt, opVars, worldVars>>
    BY <2>3, <2>5 DEF GateTypeOK, ThreadTypeOK, WorldTypeOK
  <2>. QED
    BY <2>1, <2>4, <2>5
<1>23. ASSUME StopCall PROVE TypeOK'
  BY <1>23 DEF StopCall, GateTypeOK, ThreadTypeOK, WorldTypeOK, NoCall
<1>24. ASSUME StopRound PROVE TypeOK'
  BY <1>24 DEF StopRound, LeasedPids, GateTypeOK, ThreadTypeOK, WorldTypeOK, NoCall
<1>25. ASSUME StopConfirmed PROVE TypeOK'
  BY <1>25 DEF StopConfirmed, GateTypeOK, ThreadTypeOK, WorldTypeOK, NoCall
<1>26. ASSUME StopFails PROVE TypeOK'
  BY <1>26 DEF StopFails, GateTypeOK, ThreadTypeOK, WorldTypeOK, NoCall
<1>27. ASSUME NEW p \in Pids, LaunchMoves(p) PROVE TypeOK'
  <2>1. GateTypeOK' /\ ThreadTypeOK'
    BY <1>27 DEF LaunchMoves, GateTypeOK, ThreadTypeOK
  <2>2. PICK dead \in SUBSET Targets : Lost(dead) /\ meddled' = meddled \ dead
    BY <1>27 DEF LaunchMoves, ProcsOf, Targets
  <2>3. WorldTypeOK'
    BY <1>27, <2>2, LostTyping DEF LaunchMoves, WorldTypeOK
  <2>. QED
    BY <2>1, <2>3
<1>28. ASSUME NEW x \in Targets, TargetVanishes(x) PROVE TypeOK'
  BY <1>28, LostTyping DEF TargetVanishes, GateTypeOK, ThreadTypeOK, WorldTypeOK
<1>29. ASSUME NEW x \in Targets, Meddle(x) PROVE TypeOK'
  BY <1>29, LostTyping DEF Meddle, GateTypeOK, ThreadTypeOK, WorldTypeOK
<1>30. ASSUME NEW x \in Targets, ScopeReplaced(x) PROVE TypeOK'
  BY <1>30 DEF ScopeReplaced, GateTypeOK, ThreadTypeOK, WorldTypeOK, NoCall
<1>31. ASSUME Tick PROVE TypeOK'
  BY <1>31, TickTyping DEF Tick, ThreadTypeOK, WorldTypeOK
<1>32. CASE UNCHANGED vars
  BY <1>32 DEF vars, GateTypeOK, ThreadTypeOK, WorldTypeOK
<1>. QED
  BY <1>1, <1>2, <1>3, <1>4, <1>5, <1>6, <1>7, <1>8, <1>9, <1>10, <1>11, <1>12, <1>13,
     <1>14, <1>15, <1>17, <1>18, <1>19, <1>20, <1>21, <1>22, <1>23, <1>24, <1>25,
     <1>26, <1>27, <1>28, <1>29, <1>30, <1>31, <1>32
     DEF Next, CallerNext, ReleaseNext, WatchNext, StopNext, WorldNext
-----------------------------------------------------------------------------
(* What the actions do to the lease of one PID                             *)

(* The lease of p afterwards, field by field; the others are untouched.    *)
Becomes(p, target, recovery, gen, by, requested) ==
  /\ leases'[p] # NoLease
  /\ leases'[p].target = target /\ leases'[p].recovery = recovery
  /\ leases'[p].gen = gen /\ leases'[p].by = by
  /\ leases'[p].requested = requested
  /\ \A q \in Pids \ {p} : leases'[q] = leases[q]

LEMMA Replaced ==
  ASSUME GateTypeOK, NEW p \in Pids, NEW l \in Lease, leases' = [leases EXCEPT ![p] = l]
  PROVE  Becomes(p, l.target, l.recovery, l.gen, l.by, l.requested) /\ leases'[p] = l
<1>1. leases'[p] = l /\ \A q \in Pids \ {p} : leases'[q] = leases[q]
  BY DEF GateTypeOK
<1>2. l # NoLease
  OBVIOUS
<1>. QED
  BY <1>1, <1>2 DEF Becomes

LEMMA PauseAcquiresEffect ==
  ASSUME TypeOK, NEW t \in Callers, PauseAcquires(t)
  PROVE  LET p == req[t].pid
             x == current[p]
         IN /\ x \in Targets /\ Acquiring(t, p) /\ p \in Pids
            /\ Becomes(p, x, {}, nextGen, Nobody, FALSE) /\ ~leases'[p].releasing
            /\ leases'[p].age = StartedAge(p, x)
            /\ held' = HeldAfterAcquire(p, x) \ Thawed(p, x)
            /\ orphans' = orphans \ {x}
<1>1. PICK p \in Pids, x \in Targets :
        /\ Acquiring(t, p) /\ Acquirable(p, x)
        /\ leases' = [leases EXCEPT ![p] = NewLease(p, x)]
        /\ held' = HeldAfterAcquire(p, x) \ Thawed(p, x)
        /\ orphans' = orphans \ {x}
  BY DEF PauseAcquires
<1>2. StartedAge(p, x) \in 0..(Ceiling + 1)
  BY LeaseTyping DEF StartedAge, Lease, TypeOK
<1>3. NewLease(p, x) \in Lease
  BY <1>2 DEF NewLease, Lease, TypeOK, GateTypeOK
<1>4. /\ Becomes(p, x, {}, nextGen, Nobody, FALSE) /\ ~leases'[p].releasing
      /\ leases'[p].age = StartedAge(p, x)
  <2>1. leases'[p] = NewLease(p, x) /\ \A q \in Pids \ {p} : leases'[q] = leases[q]
    BY <1>1 DEF TypeOK, GateTypeOK
  <2>2. leases'[p] # NoLease
    BY <1>3, <2>1
  <2>. QED
    BY <2>1, <2>2 DEF NewLease, Becomes
<1>5. p = req[t].pid /\ x = current[p]
  BY <1>1 DEF Acquiring, Acquirable
<1>. QED
  BY <1>1, <1>4, <1>5

LEMMA PauseSwapFailsEffect ==
  ASSUME TypeOK, NEW t \in Callers, PauseSwapFails(t)
  PROVE  LET p == req[t].pid
             x == current[p]
         IN /\ x \in Targets /\ Acquiring(t, p) /\ MustThaw(p, x) /\ p \in Pids
            /\ held' \subseteq HeldAfterAcquire(p, x)
            /\ \/ leases' = leases /\ x \notin held' /\ orphans' = orphans \ {x}
               \/ /\ Becomes(p, leases[p].target, leases[p].recovery \cup ({x} \cap Scopes),
                             leases[p].gen, leases[p].by, leases[p].requested)
                  /\ leases'[p].releasing = leases[p].releasing
                  /\ leases'[p].age = leases[p].age
                  /\ orphans' = IF x \in Scopes THEN orphans \ {x} ELSE orphans \cup {x}
<1>1. PICK p \in Pids, x \in Targets :
        /\ Acquiring(t, p) /\ Acquirable(p, x) /\ MustThaw(p, x)
        /\ \E lifted \in SUBSET {leases[p].target, x}, cleaned \in BOOLEAN :
             /\ cleaned => x \in lifted
             /\ held' = HeldAfterAcquire(p, x) \ lifted
             /\ leases' = IF cleaned THEN leases ELSE Recover(p, x)
             /\ orphans' = IF cleaned \/ x \in Scopes THEN orphans \ {x}
                           ELSE orphans \cup {x}
  BY DEF PauseSwapFails
<1>2. p = req[t].pid /\ x = current[p]
  BY <1>1 DEF Acquiring, Acquirable
<1>3. leases[p] \in Lease
  BY <1>1, LeaseTyping DEF MustThaw, TypeOK
<1>4. \/ leases' = leases /\ x \notin held' /\ orphans' = orphans \ {x}
      \/ /\ leases' = Recover(p, x)
         /\ orphans' = IF x \in Scopes THEN orphans \ {x} ELSE orphans \cup {x}
  BY <1>1
<1>5. ASSUME leases' = Recover(p, x)
      PROVE  /\ Becomes(p, leases[p].target, leases[p].recovery \cup ({x} \cap Scopes),
                        leases[p].gen, leases[p].by, leases[p].requested)
             /\ leases'[p].releasing = leases[p].releasing /\ leases'[p].age = leases[p].age
  <2> DEFINE s == leases[p].recovery \cup ({x} \cap Scopes)
             l == [leases[p] EXCEPT !.recovery = s]
  <2>1. s \in SUBSET Scopes
    BY <1>3 DEF Lease
  <2>2. l \in Lease
    BY <1>3, <2>1, LeaseUpdates
  <2>3. leases' = [leases EXCEPT ![p] = l]
    BY <1>5 DEF Recover, TypeOK, GateTypeOK
  <2>4. /\ l.target = leases[p].target /\ l.recovery = s /\ l.gen = leases[p].gen
        /\ l.by = leases[p].by /\ l.requested = leases[p].requested
        /\ l.releasing = leases[p].releasing /\ l.age = leases[p].age
    BY <1>3 DEF Lease
  <2> HIDE DEF l
  <2>5. Becomes(p, l.target, l.recovery, l.gen, l.by, l.requested) /\ leases'[p] = l
    BY <2>2, <2>3, Replaced DEF TypeOK
  <2>. QED
    BY <2>4, <2>5 DEF Becomes
<1>6. held' \subseteq HeldAfterAcquire(p, x)
  BY <1>1
<1>. QED
  BY <1>1, <1>2, <1>4, <1>5, <1>6

LEMMA PinEffect ==
  ASSUME TypeOK, NEW t \in Callers, NEW p \in Pids, NEW gen \in Nat, Pin(t, p, gen)
  PROVE  /\ HasLease(p) /\ leases[p] \in Lease /\ gen = leases[p].gen
         /\ Becomes(p, leases[p].target, leases[p].recovery, gen, t, FALSE)
         /\ leases'[p].releasing = leases[p].releasing /\ leases'[p].age = leases[p].age
<1> DEFINE l == [leases[p] EXCEPT !.by = t]
<1>1. leases[p] \in Lease /\ HasLease(p)
  BY LeaseTyping DEF Pin, Matches, TypeOK
<1>2. l \in Lease
  BY <1>1, LeaseUpdates
<1>3. leases' = [leases EXCEPT ![p] = l]
  BY DEF Pin, TypeOK, GateTypeOK
<1>4. /\ l.target = leases[p].target /\ l.recovery = leases[p].recovery /\ l.gen = leases[p].gen
      /\ l.by = t /\ l.requested = leases[p].requested /\ l.releasing = leases[p].releasing
      /\ l.age = leases[p].age
  BY <1>1 DEF Lease
<1>5. gen = leases[p].gen /\ leases[p].requested = FALSE
  BY <1>1 DEF Pin, Matches, Pinnable, Lease
<1> HIDE DEF l
<1>6. Becomes(p, l.target, l.recovery, l.gen, l.by, l.requested) /\ leases'[p] = l
  BY <1>2, <1>3, Replaced DEF TypeOK
<1>. QED
  BY <1>1, <1>4, <1>5, <1>6 DEF Becomes

LEMMA RenewEffect ==
  ASSUME TypeOK, NEW p \in Pids, Renew(p)
  PROVE  /\ HasLease(p) /\ leases[p] \in Lease
         /\ Becomes(p, leases[p].target, leases[p].recovery, leases[p].gen, leases[p].by,
                    leases[p].requested)
         /\ leases'[p].releasing = leases[p].releasing /\ leases'[p].age = leases[p].age
<1> DEFINE l == [leases[p] EXCEPT !.idle = 0]
<1>1. leases[p] \in Lease /\ HasLease(p)
  BY LeaseTyping DEF Renew, TypeOK
<1>2. l \in Lease
  BY <1>1, LeaseUpdates
<1>3. leases' = [leases EXCEPT ![p] = l]
  BY DEF Renew, TypeOK, GateTypeOK
<1>4. /\ l.target = leases[p].target /\ l.recovery = leases[p].recovery /\ l.gen = leases[p].gen
      /\ l.by = leases[p].by /\ l.requested = leases[p].requested
      /\ l.releasing = leases[p].releasing /\ l.age = leases[p].age
  BY <1>1 DEF Lease
<1> HIDE DEF l
<1>5. Becomes(p, l.target, l.recovery, l.gen, l.by, l.requested) /\ leases'[p] = l
  BY <1>2, <1>3, Replaced DEF TypeOK
<1>. QED
  BY <1>1, <1>4, <1>5 DEF Becomes

LEMMA RequestEffect ==
  ASSUME TypeOK, NEW t \in Threads, NEW p \in Pids, NEW gen \in Nat,
         ResumeRequest(t, p, gen)
  PROVE  /\ HasLease(p) /\ leases[p] \in Lease /\ ~Locked(p)
         /\ Becomes(p, leases[p].target, leases[p].recovery, leases[p].gen, leases[p].by, TRUE)
         /\ ~leases[p].releasing /\ leases'[p].releasing
         /\ leases'[p].idle = leases[p].idle /\ leases'[p].age = leases[p].age
<1> DEFINE l == [leases[p] EXCEPT !.requested = TRUE, !.releasing = TRUE]
<1>1. leases[p] \in Lease /\ HasLease(p) /\ ~Locked(p) /\ ~leases[p].releasing
  BY LeaseTyping DEF ResumeRequest, CanRequest, TypeOK
<1>2. l \in Lease
  BY <1>1, LeaseUpdates
<1>3. leases' = [leases EXCEPT ![p] = l]
  BY DEF ResumeRequest, TypeOK, GateTypeOK
<1>4. /\ l.target = leases[p].target /\ l.recovery = leases[p].recovery /\ l.gen = leases[p].gen
      /\ l.by = leases[p].by /\ l.requested = TRUE /\ l.releasing = TRUE
      /\ l.idle = leases[p].idle /\ l.age = leases[p].age
  BY <1>1 DEF Lease
<1> HIDE DEF l
<1>5. Becomes(p, l.target, l.recovery, l.gen, l.by, l.requested) /\ leases'[p] = l
  BY <1>2, <1>3, Replaced DEF TypeOK
<1>. QED
  BY <1>1, <1>4, <1>5 DEF Becomes

(* Finalize unpins the lease the operation was admitted under, or nothing. *)
LEMMA FinalizeEffect ==
  ASSUME TypeOK, NEW t \in Callers, Finalize(t)
  PROVE  LET p == req[t].pid IN
         \/ /\ leases' = leases
            /\ ~(Matches(p, req[t].gen) /\ leases[p].by = t)
         \/ /\ HasLease(p) /\ leases[p] \in Lease
            /\ leases[p].gen = req[t].gen /\ leases[p].by = t
            /\ Becomes(p, leases[p].target, leases[p].recovery, leases[p].gen, Nobody,
                       leases[p].requested)
            /\ leases'[p].releasing = leases[p].releasing /\ leases'[p].idle = leases[p].idle
            /\ leases'[p].age = leases[p].age
<1> DEFINE p == req[t].pid
           l == [leases[p] EXCEPT !.by = Nobody]
<1>1. CASE ~(Matches(p, req[t].gen) /\ leases[p].by = t)
  BY <1>1 DEF Finalize, Unpin
<1>2. CASE Matches(p, req[t].gen) /\ leases[p].by = t
  <2>1. p \in Pids
    BY DEF TypeOK, ThreadTypeOK, Threads
  <2>2. leases[p] \in Lease /\ HasLease(p) /\ leases[p].gen = req[t].gen
    BY <1>2, <2>1, LeaseTyping DEF Matches, TypeOK
  <2>3. l \in Lease
    BY <2>2, LeaseUpdates
  <2>4. leases' = [leases EXCEPT ![p] = l]
    BY <1>2 DEF Finalize, Unpin, TypeOK, GateTypeOK
  <2>5. /\ l.target = leases[p].target /\ l.recovery = leases[p].recovery
        /\ l.gen = leases[p].gen /\ l.by = Nobody /\ l.requested = leases[p].requested
        /\ l.releasing = leases[p].releasing /\ l.idle = leases[p].idle /\ l.age = leases[p].age
    BY <2>2 DEF Lease
  <2> HIDE DEF l
  <2>6. Becomes(p, l.target, l.recovery, l.gen, l.by, l.requested) /\ leases'[p] = l
    BY <2>1, <2>3, <2>4, Replaced DEF TypeOK
  <2>. QED
    BY <1>2, <2>2, <2>5, <2>6 DEF Becomes
<1>. QED
  BY <1>1, <1>2

LEMMA GiveUpEffect ==
  ASSUME TypeOK, NEW t \in Threads, GiveUp(t)
  PROVE  LET p == req[t].pid IN
         \/ leases' = leases
         \/ /\ HasLease(p) /\ leases[p] \in Lease /\ p \in Pids
            /\ Becomes(p, leases[p].target, leases[p].recovery, leases[p].gen, leases[p].by,
                       leases[p].requested)
            /\ ~leases'[p].releasing /\ leases'[p].idle = leases[p].idle
            /\ leases'[p].age = leases[p].age
<1> DEFINE p == req[t].pid
           l == [leases[p] EXCEPT !.releasing = FALSE]
<1>1. CASE ~Matches(p, req[t].gen)
  BY <1>1 DEF GiveUp, Reset
<1>2. CASE Matches(p, req[t].gen)
  <2>1. p \in Pids
    BY DEF TypeOK, ThreadTypeOK
  <2>2. leases[p] \in Lease /\ HasLease(p)
    BY <1>2, <2>1, LeaseTyping DEF Matches, TypeOK
  <2>3. l \in Lease
    BY <2>2, LeaseUpdates
  <2>4. leases' = [leases EXCEPT ![p] = l]
    BY <1>2 DEF GiveUp, Reset, TypeOK, GateTypeOK
  <2>5. /\ l.target = leases[p].target /\ l.recovery = leases[p].recovery
        /\ l.gen = leases[p].gen /\ l.by = leases[p].by /\ l.requested = leases[p].requested
        /\ l.releasing = FALSE /\ l.idle = leases[p].idle /\ l.age = leases[p].age
    BY <2>2 DEF Lease
  <2> HIDE DEF l
  <2>6. Becomes(p, l.target, l.recovery, l.gen, l.by, l.requested) /\ leases'[p] = l
    BY <2>1, <2>3, <2>4, Replaced DEF TypeOK
  <2>. QED
    BY <2>1, <2>2, <2>5, <2>6 DEF Becomes
<1>. QED
  BY <1>1, <1>2

LEMMA ReleasedEffect ==
  ASSUME TypeOK, NEW t \in Threads, Released(t)
  PROVE  LET p == req[t].pid IN
         /\ p \in Pids /\ HasLease(p) /\ leases[p] \in Lease /\ leases[p].by = Nobody
         /\ leases'[p] = NoLease /\ \A q \in Pids \ {p} : leases'[q] = leases[q]
         /\ held' = held \ Owned(leases[p])
<1>1. req[t].pid \in Pids
  BY DEF TypeOK, ThreadTypeOK
<1>. QED
  BY <1>1, LeaseTyping DEF Released, CanRelease, Guarded, Matches, TypeOK, GateTypeOK

LEMMA ReleaseFailsEffect ==
  ASSUME TypeOK, NEW t \in Threads, ReleaseFails(t)
  PROVE  LET p == req[t].pid IN
         /\ p \in Pids /\ HasLease(p) /\ leases[p] \in Lease /\ leases[p].by = Nobody
         /\ leases[p].gen = req[t].gen /\ ~Locked(p)
         /\ \E x \in Targets, s \in SUBSET Scopes :
              /\ Becomes(p, x, s, leases[p].gen, Nobody, leases[p].requested)
              /\ {x} \cup s \subseteq Owned(leases[p])
              /\ held' \subseteq held /\ held \ held' \subseteq Owned(leases[p])
              /\ held' \cap Owned(leases[p]) \subseteq {x} \cup s
         /\ ~leases'[p].releasing /\ leases'[p].idle = leases[p].idle
         /\ leases'[p].age = leases[p].age
<1> DEFINE p == req[t].pid
<1>1. /\ p \in Pids /\ HasLease(p) /\ leases[p] \in Lease /\ leases[p].by = Nobody
      /\ leases[p].gen = req[t].gen /\ ~Locked(p)
  <2>1. p \in Pids
    BY DEF TypeOK, ThreadTypeOK
  <2>. QED
    BY <2>1, LeaseTyping DEF ReleaseFails, CanRelease, Guarded, Matches, TypeOK
<1>2. PICK failed \in SUBSET Owned(leases[p]), x \in Owned(leases[p]) :
        /\ x \in failed
        /\ leases[p].target \in failed => x = leases[p].target
        /\ leases' = Retain(p, x, failed)
        /\ \E lifted \in SUBSET failed : held' = (held \ (Owned(leases[p]) \ failed)) \ lifted
  BY DEF ReleaseFails
<1> DEFINE s == failed \ {x}
           l == [leases[p] EXCEPT !.target = x, !.recovery = s, !.releasing = FALSE]
<1>3. x \in Targets /\ s \in SUBSET Scopes
  BY <1>1, <1>2 DEF Owned, Lease, Targets
<1>4. l \in Lease
  BY <1>1, <1>3, LeaseUpdates
<1>5. leases' = [leases EXCEPT ![p] = l]
  BY <1>2 DEF Retain, TypeOK, GateTypeOK
<1>6. /\ l.target = x /\ l.recovery = s /\ l.gen = leases[p].gen /\ l.by = leases[p].by
      /\ l.requested = leases[p].requested /\ l.releasing = FALSE /\ l.idle = leases[p].idle
      /\ l.age = leases[p].age
  BY <1>1 DEF Lease
<1> HIDE DEF l
<1>7. Becomes(p, l.target, l.recovery, l.gen, l.by, l.requested) /\ leases'[p] = l
  BY <1>1, <1>4, <1>5, Replaced DEF TypeOK
<1>8. Becomes(p, x, s, leases[p].gen, Nobody, leases[p].requested)
      /\ ~leases'[p].releasing /\ leases'[p].idle = leases[p].idle
      /\ leases'[p].age = leases[p].age
  BY <1>1, <1>6, <1>7
<1>9. /\ held' \subseteq held /\ held \ held' \subseteq Owned(leases[p])
      /\ held' \cap Owned(leases[p]) \subseteq {x} \cup s
      /\ {x} \cup s \subseteq Owned(leases[p])
  BY <1>2
<1>. QED
  BY <1>1, <1>3, <1>8, <1>9

LEMMA TickEffect ==
  ASSUME TypeOK, Tick, NEW p \in Pids, HasLease(p)
  PROVE  /\ leases'[p] # NoLease
         /\ leases'[p].target = leases[p].target /\ leases'[p].recovery = leases[p].recovery
         /\ leases'[p].gen = leases[p].gen /\ leases'[p].by = leases[p].by
         /\ leases'[p].requested = leases[p].requested
         /\ leases'[p].releasing = leases[p].releasing
         /\ leases'[p].idle >= leases[p].idle
         /\ leases'[p].age = Up(leases[p].age, Ceiling)
<1>1. leases[p] \in Lease
  BY LeaseTyping DEF TypeOK
<1>2. leases'[p] = [leases[p] EXCEPT !.age = Up(@, Ceiling), !.idle = Up(@, TTL)]
  BY DEF Tick, TypeOK, GateTypeOK
<1>3. [leases[p] EXCEPT !.age = Up(@, Ceiling), !.idle = Up(@, TTL)] \in Lease
  BY <1>1, AgedLease
<1>4. leases'[p] # NoLease
  BY <1>2, <1>3
<1>5. leases[p].idle \in Nat /\ Up(leases[p].idle, TTL) >= leases[p].idle
  BY <1>1 DEF Lease, Up
<1>6. leases'[p].idle = Up(leases[p].idle, TTL) /\ leases'[p].age = Up(leases[p].age, Ceiling)
  BY <1>1, <1>2 DEF Lease
<1>. QED
  BY <1>1, <1>2, <1>4, <1>5, <1>6 DEF Lease

HIDE DEF Goto, Calls, Returns, PauseReturns
-----------------------------------------------------------------------------
(* A thread that moves, calls or returns                                   *)

LEMMA IdTyping ==
  ASSUME TypeOK
  PROVE  /\ Callers \subseteq Threads /\ nextGen \in Nat
         /\ \A u \in Threads : req[u].pid \in Pids /\ req[u].gen \in Nat
         /\ \A q \in Pids : HasLease(q) => leases[q].gen \in Nat
BY LeaseTyping DEF TypeOK, GateTypeOK, ThreadTypeOK, Threads, Lease

LEMMA Moved ==
  ASSUME TypeOK, NEW t \in Threads, NEW place, Goto(t, place)
  PROVE  pc'[t] = place /\ \A u \in Threads \ {t} : pc'[u] = pc[u]
BY DEF TypeOK, ThreadTypeOK, Goto

LEMMA Called ==
  ASSUME TypeOK, NEW t \in Threads, NEW p, NEW gen, Calls(t, p, gen)
  PROVE  /\ req'[t].pid = p /\ req'[t].gen = gen
         /\ \A u \in Threads \ {t} : req'[u] = req[u]
BY DEF TypeOK, ThreadTypeOK, Calls

LEMMA Returned ==
  ASSUME TypeOK, NEW t \in Threads, Returns(t)
  PROVE  req'[t].gen = 0 /\ \A u \in Threads \ {t} : req'[u] = req[u]
<1>1. NoCall.gen = 0
  BY DEF NoCall
<1>. QED
  BY <1>1 DEF TypeOK, ThreadTypeOK, Returns
-----------------------------------------------------------------------------
(* Steps that give nobody a lease, a lock or a request                     *)

Busy == {"acquiring", "mutating", "spawning", "running", "draining", "waiting"}
Working == {"mutating", "spawning", "running", "draining"}

(* The thread stays where it is, comes to rest, or goes on with its work.  *)
Calm(u) ==
  /\ u \in writing' => pc'[u] \in {"running", "draining"}
  /\ \/ pc'[u] = pc[u] /\ req'[u] = req[u]
     \/ /\ pc'[u] \notin Busy /\ req'[u].gen < nextGen
        /\ u \in Callers => pc[u] \notin Working
     \/ pc[u] \in Working /\ pc'[u] \in Working /\ req'[u] = req[u]

(* The lease keeps its identity, or nobody works under it and it ends.     *)
Unwaited(q) == \A u \in Threads : ~(pc'[u] = "waiting" /\ req'[u].pid = q)
Unlocked(q) == \A u \in Callers : ~(pc'[u] = "acquiring" /\ req'[u].pid = q)
Untouched(q) ==
  \/ /\ leases'[q] = NoLease
     /\ leases[q] # NoLease => leases[q].by = Nobody /\ Unwaited(q)
  \/ /\ leases[q] # NoLease /\ leases'[q] # NoLease
     /\ leases'[q].gen = leases[q].gen /\ leases'[q].by = leases[q].by
     /\ leases'[q].requested = leases[q].requested
     /\ leases'[q].releasing = leases[q].releasing \/ (~leases'[q].releasing /\ Unwaited(q))
     /\ leases'[q].recovery = leases[q].recovery \/ Unlocked(q)

CalmStep ==
  /\ nextGen' = nextGen
  /\ \A u \in Threads : Calm(u)
  /\ \A q \in Pids : Untouched(q)

LEMMA CalmKeeps ==
  ASSUME TypeOK, IdInv, CalmStep
  PROVE  IdInv'
<1> USE DEF CalmStep, Calm, Busy, Working
<1>0. /\ \A u \in Threads : req[u].pid \in Pids /\ req[u].gen \in Nat
      /\ Callers \subseteq Threads /\ nextGen \in Nat
  BY DEF TypeOK, GateTypeOK, ThreadTypeOK, Threads
<1>1. GenInv'
  BY <1>0 DEF IdInv, GenInv, HasLease, Untouched
<1>2. LockInv'
  <2>1. ASSUME NEW t \in Callers, pc'[t] = "acquiring"
        PROVE  pc[t] = "acquiring" /\ req'[t] = req[t]
    BY <1>0, <2>1
  <2>2. ASSUME NEW t \in Callers, pc'[t] = "acquiring" PROVE MayPause(req[t].pid)'
    BY <1>0, <2>1, <2>2 DEF IdInv, LockInv, MayPause, HasLease, Untouched, Unlocked
  <2>. QED
    BY <2>1, <2>2 DEF IdInv, LockInv
<1>3. OneReleasePerGate'
  <2>1. ASSUME NEW t \in Threads, pc'[t] = "waiting"
        PROVE  pc[t] = "waiting" /\ req'[t] = req[t]
    BY <1>0, <2>1
  <2>2. ASSUME NEW t \in Threads, pc'[t] = "waiting"
        PROVE  /\ leases'[req'[t].pid] # NoLease /\ leases'[req'[t].pid].gen = req'[t].gen
               /\ leases'[req'[t].pid].requested /\ leases'[req'[t].pid].releasing
    <3>1. /\ pc[t] = "waiting" /\ req'[t] = req[t] /\ req[t].pid \in Pids
          /\ ~Unwaited(req[t].pid)
      BY <1>0, <2>1, <2>2 DEF Unwaited
    <3>2. /\ leases[req[t].pid] # NoLease /\ leases[req[t].pid].gen = req[t].gen
          /\ leases[req[t].pid].requested /\ leases[req[t].pid].releasing
      BY <3>1 DEF IdInv, OneReleasePerGate, Matches, HasLease
    <3>. QED
      BY <3>1, <3>2 DEF Untouched
  <2>3. ASSUME NEW t \in Threads, NEW u \in Threads, pc'[t] = "waiting", pc'[u] = "waiting",
               req'[u].pid = req'[t].pid
        PROVE  u = t
    BY <2>1, <2>3 DEF IdInv, OneReleasePerGate
  <2>. QED
    BY <2>2, <2>3 DEF OneReleasePerGate, Matches, HasLease
<1>4. GuardInv'
  BY <1>0 DEF IdInv, GuardInv, Operating, Names, Untouched
<1>. QED
  BY <1>1, <1>2, <1>3, <1>4 DEF IdInv

(* A step that changes no lease and at most rests the thread that makes it *)
(* is calm.                                                                *)
LEMMA IdleStepIsCalm ==
  ASSUME TypeOK, IdInv, UNCHANGED <<leases, nextGen>>, \A u \in Threads : Calm(u)
  PROVE  CalmStep
BY LeaseTyping DEF CalmStep, Untouched, Lease, HasLease, TypeOK, GateTypeOK

LEMMA CallerStepIsCalm ==
  ASSUME TypeOK, IdInv, NEW t \in Callers,
         \/ PauseRefused(t) \/ AcquireFails(t) \/ SpawnCheck(t) \/ Spawn(t)
         \/ WriterExits(t) \/ CallbackReturns(t) \/ \E p \in Pids : PauseCall(t, p)
  PROVE  CalmStep
<1> USE DEF Calm, Busy, Working
<1>0. /\ pc \in [Threads -> CallerPC \cup WatchPC \cup StopPC]
      /\ t \in Threads
      /\ nextGen \in Nat /\ nextGen >= 1 /\ writing \subseteq Callers
      /\ \A u \in writing : pc[u] \in {"running", "draining"}
  BY DEF TypeOK, GateTypeOK, ThreadTypeOK, IdInv, GenInv, GuardInv, Threads
<1>1. ASSUME PauseRefused(t) PROVE CalmStep
  <2>1. \A u \in Threads : Calm(u)
    BY <1>0, <1>1, Moved, Returned DEF PauseRefused
  <2>. QED
    BY <1>1, <2>1, IdleStepIsCalm DEF PauseRefused
<1>2. ASSUME AcquireFails(t) PROVE CalmStep
  <2>0. pc[t] = "acquiring" /\ Goto(t, "idle") /\ Returns(t) /\ writing' = writing
    BY <1>2 DEF AcquireFails, Acquiring, PauseReturns
  <2>1. \A u \in Threads : Calm(u)
    BY <1>0, <2>0, Moved, Returned
  <2>. QED
    BY <1>2, <2>1, IdleStepIsCalm DEF AcquireFails
<1>3. ASSUME SpawnCheck(t) PROVE CalmStep
  <2>1. \A u \in Threads : Calm(u)
    BY <1>0, <1>3, Moved DEF SpawnCheck
  <2>. QED
    BY <1>3, <2>1, IdleStepIsCalm DEF SpawnCheck
<1>4. ASSUME Spawn(t) PROVE CalmStep
  <2>1. \A u \in Threads : Calm(u)
    BY <1>0, <1>4, Moved DEF Spawn
  <2>. QED
    BY <1>4, <2>1, IdleStepIsCalm DEF Spawn
<1>5. ASSUME WriterExits(t) PROVE CalmStep
  <2>1. \A u \in Threads : Calm(u)
    BY <1>0, <1>5 DEF WriterExits
  <2>. QED
    BY <1>5, <2>1, IdleStepIsCalm DEF WriterExits
<1>6. ASSUME CallbackReturns(t) PROVE CalmStep
  <2>1. \A u \in Threads : Calm(u)
    BY <1>0, <1>6, Moved DEF CallbackReturns
  <2>. QED
    BY <1>6, <2>1, IdleStepIsCalm DEF CallbackReturns
<1>7. ASSUME NEW p \in Pids, PauseCall(t, p) PROVE CalmStep
  <2>1. \A u \in Threads : Calm(u)
    BY <1>0, <1>7, Moved, Called DEF PauseCall
  <2>. QED
    BY <1>7, <2>1, IdleStepIsCalm DEF PauseCall
<1>. QED
  BY <1>1, <1>2, <1>3, <1>4, <1>5, <1>6, <1>7


(* The threads that serve no caller, and the world, are calm but for the   *)
(* requests of SweepNext.                                                  *)
Rest(t) ==
  /\ \/ pc' = pc \/ \E place \in {"parked", "exited", "sweeping", "joining", "stopped", "failed"} :
                      Goto(t, place)
  /\ UNCHANGED <<leases, nextGen, req, writing>>

LEMMA BackgroundStepIsCalm ==
  ASSUME TypeOK, IdInv, NEW t \in {Watch, Stopper}, Rest(t)
  PROVE  CalmStep
<1>0. /\ t \in Threads /\ t \notin Callers /\ nextGen \in Nat
      /\ \A u \in writing : u \in Callers /\ pc[u] \in {"running", "draining"}
      /\ \A u \in Threads : req[u].gen < nextGen
  BY DEF TypeOK, GateTypeOK, ThreadTypeOK, IdInv, GenInv, GuardInv, Threads
<1>1. \A u \in Threads : Calm(u)
  BY <1>0, Moved DEF Rest, Calm, Busy, Working
<1>. QED
  BY <1>1, IdleStepIsCalm DEF Rest

LEMMA BackgroundRests ==
  /\ WatchScan \/ WatchParks \/ WatchExits => Rest(Watch)
  /\ StopCall \/ StopRound \/ StopConfirmed \/ StopFails => Rest(Stopper)
  /\ (\E p \in Pids : LaunchMoves(p)) => Rest(Watch)
  /\ (\E x \in Targets : TargetVanishes(x) \/ ScopeReplaced(x) \/ Meddle(x)) => Rest(Watch)
  /\ UNCHANGED vars => Rest(Watch)
<1>1. WatchScan \/ WatchParks \/ WatchExits => Rest(Watch)
  BY DEF Rest, WatchScan, WatchParks, WatchExits
<1>2. StopCall \/ StopRound \/ StopConfirmed \/ StopFails => Rest(Stopper)
  BY DEF Rest, StopCall, StopRound, StopConfirmed, StopFails
<1>3. (\E p \in Pids : LaunchMoves(p)) => Rest(Watch)
  BY DEF Rest, LaunchMoves
<1>4. (\E x \in Targets : TargetVanishes(x) \/ ScopeReplaced(x) \/ Meddle(x)) => Rest(Watch)
  BY DEF Rest, TargetVanishes, ScopeReplaced, Meddle
<1>5. UNCHANGED vars => Rest(Watch)
  BY DEF Rest, vars
<1>. QED
  BY <1>1, <1>2, <1>3, <1>4, <1>5

(* A step that changes leases, but not who may touch them.                 *)
LEMMA LeaseStepIsCalm ==
  ASSUME TypeOK, IdInv, nextGen' = nextGen, writing' = writing,
         NEW t \in Threads,
         \/ UNCHANGED <<pc, req>>
         \/ /\ pc[t] \notin Working
            /\ \E place \in {"idle", "sweeping"} : Goto(t, place) /\ Returns(t),
         \A q \in Pids : Untouched(q)
  PROVE  CalmStep
<1>0. /\ nextGen \in Nat /\ nextGen >= 1
      /\ \A u \in writing : u \in Callers /\ pc[u] \in {"running", "draining"}
      /\ \A u \in Threads : req[u].gen < nextGen
  BY DEF TypeOK, GateTypeOK, ThreadTypeOK, IdInv, GenInv, GuardInv, Threads
<1>1. \A u \in Threads : Calm(u)
  BY <1>0, Moved, Returned DEF Calm, Busy, Working
<1>. QED
  BY <1>1 DEF CalmStep

LEMMA SameLeaseUntouched ==
  ASSUME TypeOK, IdInv, NEW q \in Pids, leases'[q] = leases[q]
  PROVE  Untouched(q)
BY LeaseTyping DEF Untouched, Lease, HasLease, TypeOK, GateTypeOK

LEMMA RenewIsCalm ==
  ASSUME TypeOK, IdInv, NEW p \in Pids, Renew(p)
  PROVE  CalmStep
<1>1. \A q \in Pids : Untouched(q)
  BY RenewEffect, LeaseTyping DEF Becomes, Untouched, HasLease, TypeOK, Lease
<1>. QED
  BY <1>1, LeaseStepIsCalm DEF Renew, Threads

LEMMA TickIsCalm ==
  ASSUME TypeOK, IdInv, Tick
  PROVE  CalmStep
<1>1. ASSUME NEW q \in Pids PROVE Untouched(q)
  <2>1. CASE HasLease(q)
    BY <2>1, TickEffect DEF Untouched, HasLease
  <2>2. CASE ~HasLease(q)
    BY <2>2 DEF Untouched, HasLease, Tick
  <2>. QED
    BY <2>1, <2>2
<1>. QED
  BY <1>1, LeaseStepIsCalm DEF Tick, Threads

(* The thread that releases a gate is the only one that waits for it.      *)
LEMMA WaiterLeaves ==
  ASSUME TypeOK, IdInv, NEW t \in Threads, pc[t] = "waiting", Goto(t, Home(t)), Returns(t)
  PROVE  Unwaited(req[t].pid)
<1>1. pc'[t] # "waiting" /\ \A u \in Threads \ {t} : pc'[u] = pc[u] /\ req'[u] = req[u]
  BY Moved, Returned DEF Home
<1>. QED
  BY <1>1 DEF Unwaited, IdInv, OneReleasePerGate

LEMMA GiveUpIsCalm ==
  ASSUME TypeOK, IdInv, NEW t \in Threads, GiveUp(t)
  PROVE  CalmStep
<1> PICK p \in Pids : p = req[t].pid
  BY IdTyping
<1>1. /\ pc[t] = "waiting" /\ Goto(t, Home(t)) /\ Returns(t)
      /\ writing' = writing /\ nextGen' = nextGen
  BY DEF GiveUp
<1>2. Unwaited(p)
  BY <1>1, WaiterLeaves
<1>3. \/ leases' = leases
      \/ /\ HasLease(p)
         /\ Becomes(p, leases[p].target, leases[p].recovery, leases[p].gen, leases[p].by,
                    leases[p].requested)
         /\ ~leases'[p].releasing
  BY GiveUpEffect
<1>4. \A q \in Pids : Untouched(q)
  BY <1>2, <1>3, SameLeaseUntouched DEF Becomes, Untouched, HasLease
<1>. QED
  BY <1>1, <1>4, LeaseStepIsCalm DEF Home, Working

LEMMA ReleasedIsCalm ==
  ASSUME TypeOK, IdInv, NEW t \in Threads, Released(t)
  PROVE  CalmStep
<1> PICK p \in Pids : p = req[t].pid
  BY IdTyping
<1>1. /\ pc[t] = "waiting" /\ Goto(t, Home(t)) /\ Returns(t)
      /\ writing' = writing /\ nextGen' = nextGen
  BY DEF Released, CanRelease
<1>2. Unwaited(p)
  BY <1>1, WaiterLeaves
<1>3. /\ leases[p].by = Nobody /\ leases'[p] = NoLease
      /\ \A q \in Pids \ {p} : leases'[q] = leases[q]
  BY ReleasedEffect
<1>4. \A q \in Pids : Untouched(q)
  BY <1>2, <1>3, SameLeaseUntouched DEF Untouched
<1>. QED
  BY <1>1, <1>4, LeaseStepIsCalm DEF Home, Working

LEMMA ReleaseFailsIsCalm ==
  ASSUME TypeOK, IdInv, NEW t \in Threads, ReleaseFails(t)
  PROVE  CalmStep
<1> PICK p \in Pids : p = req[t].pid
  BY IdTyping
<1>1. /\ pc[t] = "waiting" /\ Goto(t, Home(t)) /\ Returns(t)
      /\ writing' = writing /\ nextGen' = nextGen
  BY DEF ReleaseFails, CanRelease
<1>2. Unlocked(p) /\ Unwaited(p)
  <2>1. ~Locked(p)
    BY ReleaseFailsEffect
  <2>2. Unlocked(p)
    BY <1>1, <2>1, Moved, Returned DEF Locked, Home, Threads, Unlocked
  <2>. QED
    BY <1>1, <2>2, WaiterLeaves
<1>3. /\ leases[p] # NoLease /\ leases'[p] # NoLease
      /\ leases'[p].gen = leases[p].gen /\ leases'[p].by = leases[p].by
      /\ leases'[p].requested = leases[p].requested /\ ~leases'[p].releasing
      /\ \A q \in Pids \ {p} : leases'[q] = leases[q]
  BY ReleaseFailsEffect DEF Becomes, HasLease
<1>4. \A q \in Pids : Untouched(q)
  BY <1>2, <1>3, SameLeaseUntouched DEF Untouched
<1>. QED
  BY <1>1, <1>4, LeaseStepIsCalm DEF Home, Working

LEMMA PauseSwapFailsIsCalm ==
  ASSUME TypeOK, IdInv, NEW t \in Callers, PauseSwapFails(t)
  PROVE  CalmStep
<1> PICK p \in Pids : p = req[t].pid
  BY IdTyping DEF Threads
<1>1. /\ pc[t] = "acquiring" /\ Goto(t, "idle") /\ Returns(t)
      /\ writing' = writing /\ nextGen' = nextGen
  BY DEF PauseSwapFails, Acquiring, PauseReturns
<1>2. Unlocked(p)
  BY <1>1, Moved, Returned DEF IdInv, LockInv, Threads, Unlocked
<1>3. \/ leases' = leases
      \/ /\ leases[p] # NoLease /\ leases'[p] # NoLease
         /\ leases'[p].gen = leases[p].gen /\ leases'[p].by = leases[p].by
         /\ leases'[p].requested = leases[p].requested
         /\ leases'[p].releasing = leases[p].releasing
         /\ \A q \in Pids \ {p} : leases'[q] = leases[q]
  BY PauseSwapFailsEffect DEF Becomes, MustThaw, HasLease
<1>4. \A q \in Pids : Untouched(q)
  BY <1>2, <1>3, SameLeaseUntouched DEF Untouched
<1>. QED
  BY <1>1, <1>4, LeaseStepIsCalm DEF Threads, Working
-----------------------------------------------------------------------------
(* The other steps: a lock is taken, a lease is created, pinned, unpinned  *)
(* or marked                                                               *)

LEMMA PauseStartsKeeps ==
  ASSUME TypeOK, IdInv, NEW t \in Callers, PauseStarts(t)
  PROVE  IdInv'
<1>1. /\ pc[t] = "pausing" /\ ~Locked(req[t].pid) /\ MayPause(req[t].pid)
      /\ UNCHANGED <<leases, nextGen, req, writing>>
  BY DEF PauseStarts
<1>2. /\ pc'[t] = "acquiring" /\ \A u \in Callers \ {t} : pc'[u] = pc[u]
      /\ \A u \in Threads \ {t} : pc'[u] = pc[u] \/ pc'[u] = "parked"
  BY DEF PauseStarts, AwakeWatch, TypeOK, ThreadTypeOK, Threads
<1>3. GenInv'
  BY <1>1 DEF IdInv, GenInv, HasLease
<1>4. LockInv'
  BY <1>1, <1>2 DEF IdInv, LockInv, Locked, MayPause, HasLease
<1>5. OneReleasePerGate'
  BY <1>1, <1>2 DEF IdInv, OneReleasePerGate, Matches, HasLease, Threads
<1>6. GuardInv'
  BY <1>1, <1>2 DEF IdInv, GuardInv, Operating, Names
<1>. QED
  BY <1>3, <1>4, <1>5, <1>6 DEF IdInv

LEMMA PauseAcquiresKeeps ==
  ASSUME TypeOK, IdInv, NEW t \in Callers, PauseAcquires(t)
  PROVE  IdInv'
<1> DEFINE p == req[t].pid
<1>1. /\ pc[t] = "acquiring" /\ nextGen' = nextGen + 1 /\ writing' = writing
      /\ Goto(t, "idle") /\ Returns(t)
  BY DEF PauseAcquires, Acquiring, PauseReturns
<1>2. /\ pc'[t] = "idle" /\ req'[t].gen = 0
      /\ \A u \in Threads \ {t} : pc'[u] = pc[u] /\ req'[u] = req[u]
  BY <1>1, Moved, Returned DEF Threads
<1>3. /\ p \in Pids /\ leases'[p] # NoLease
      /\ leases'[p].gen = nextGen /\ leases'[p].by = Nobody
      /\ \A q \in Pids \ {p} : leases'[q] = leases[q]
  BY PauseAcquiresEffect DEF Becomes
<1>4. GenInv'
  BY <1>1, <1>2, <1>3, IdTyping DEF IdInv, GenInv, HasLease
<1>5. LockInv'
  BY <1>1, <1>2, <1>3, IdTyping DEF IdInv, LockInv, MayPause, HasLease
<1>6. OneReleasePerGate'
  <2>1. \A u \in Threads : pc[u] = "waiting" => req[u].pid # p
    BY <1>1 DEF IdInv, OneReleasePerGate, LockInv, MayPause, Matches
  <2>. QED
    BY <1>2, <1>3, <2>1, IdTyping DEF IdInv, OneReleasePerGate, Matches, HasLease
<1>7. GuardInv'
  <2>1. \A u \in Callers : Operating(u) => req[u].pid # p
    BY <1>1 DEF IdInv, GuardInv, LockInv, Names, MayPause, HasLease, Threads
  <2>. QED
    BY <1>1, <1>2, <1>3, <2>1, IdTyping DEF IdInv, GuardInv, Operating, Names
<1>. QED
  BY <1>4, <1>5, <1>6, <1>7 DEF IdInv

LEMMA PinKeeps ==
  ASSUME TypeOK, IdInv, NEW t \in Callers, NEW p \in Pids, NEW gen \in Nat, Pin(t, p, gen)
  PROVE  IdInv'
<1>1. /\ pc[t] = "idle" /\ nextGen' = nextGen /\ writing' = writing
      /\ Goto(t, "mutating") /\ Calls(t, p, gen) /\ ~Locked(p)
      /\ leases[p].by = Nobody /\ ~leases[p].requested
  BY DEF Pin, Pinnable
<1>2. /\ pc'[t] = "mutating" /\ req'[t].pid = p /\ req'[t].gen = gen
      /\ \A u \in Threads \ {t} : pc'[u] = pc[u] /\ req'[u] = req[u]
  BY <1>1, Moved, Called DEF Threads
<1>3. /\ HasLease(p) /\ gen = leases[p].gen
      /\ leases'[p] # NoLease /\ leases'[p].gen = gen /\ leases'[p].by = t
      /\ \A q \in Pids \ {p} : leases'[q] = leases[q]
  <2>1. /\ HasLease(p) /\ gen = leases[p].gen
        /\ Becomes(p, leases[p].target, leases[p].recovery, gen, t, FALSE)
    BY PinEffect
  <2>. QED
    BY <2>1 DEF Becomes
<1>4. GenInv'
  <2>1. gen \in 1..(nextGen - 1) /\ gen < nextGen
    BY <1>3, IdTyping DEF IdInv, GenInv
  <2>2. \A q \in Pids : HasLease(q)' => leases'[q].gen \in 1..(nextGen' - 1)
    BY <1>1, <1>3, <2>1 DEF IdInv, GenInv, HasLease
  <2>3. \A u \in Threads : req'[u].gen < nextGen'
    BY <1>1, <1>2, <2>1 DEF IdInv, GenInv
  <2>. QED
    BY <1>1, <2>2, <2>3 DEF IdInv, GenInv
<1>5. LockInv'
  BY <1>1, <1>2, <1>3, IdTyping DEF IdInv, LockInv, Locked, MayPause, HasLease
<1>6. OneReleasePerGate'
  BY <1>1, <1>2, <1>3, IdTyping DEF IdInv, OneReleasePerGate, Matches, HasLease
<1>7. GuardInv'
  <2>1. \A u \in Callers : Operating(u) => req[u].pid # p
    BY <1>1 DEF IdInv, GuardInv, Names, Threads
  <2>2. t \notin writing
    BY <1>1 DEF IdInv, GuardInv
  <2>. QED
    BY <1>1, <1>2, <1>3, <2>1, <2>2, IdTyping DEF IdInv, GuardInv, Operating, Names
<1>. QED
  BY <1>4, <1>5, <1>6, <1>7 DEF IdInv

LEMMA FinalizeKeeps ==
  ASSUME TypeOK, IdInv, NEW t \in Callers, Finalize(t)
  PROVE  IdInv'
<1> DEFINE p == req[t].pid
<1>1. /\ pc[t] = "draining" /\ t \notin writing /\ ~Locked(p)
      /\ nextGen' = nextGen /\ writing' = writing
      /\ Goto(t, "idle") /\ Returns(t)
  BY DEF Finalize
<1>2. /\ pc'[t] = "idle" /\ req'[t].gen = 0
      /\ \A u \in Threads \ {t} : pc'[u] = pc[u] /\ req'[u] = req[u]
  BY <1>1, Moved, Returned DEF Threads
<1>3. /\ HasLease(p) /\ leases[p].by = t /\ leases'[p] # NoLease
      /\ leases'[p].gen = leases[p].gen /\ leases'[p].requested = leases[p].requested
      /\ leases'[p].releasing = leases[p].releasing
      /\ \A q \in Pids \ {p} : leases'[q] = leases[q]
  <2>1. Matches(p, req[t].gen) /\ leases[p].by = t
    BY <1>1 DEF IdInv, GuardInv, Operating, Names, Matches, HasLease
  <2>. QED
    BY <2>1, FinalizeEffect DEF Becomes, Matches
<1>4. GenInv'
  BY <1>1, <1>2, <1>3, IdTyping DEF IdInv, GenInv, HasLease
<1>5. LockInv'
  BY <1>1, <1>2, <1>3, IdTyping DEF IdInv, LockInv, Locked, MayPause, HasLease
<1>6. OneReleasePerGate'
  BY <1>1, <1>2, <1>3, IdTyping DEF IdInv, OneReleasePerGate, Matches, HasLease
<1>7. GuardInv'
  <2>1. \A u \in Callers \ {t} : Operating(u) => req[u].pid # p
    BY <1>3 DEF IdInv, GuardInv, Names
  <2>. QED
    BY <1>1, <1>2, <1>3, <2>1, IdTyping DEF IdInv, GuardInv, Operating, Names
<1>. QED
  BY <1>4, <1>5, <1>6, <1>7 DEF IdInv

LEMMA RequestKeeps ==
  ASSUME TypeOK, IdInv, NEW t \in Threads, NEW p \in Pids, NEW gen \in Nat,
         ResumeRequest(t, p, gen), pc[t] \in {"idle", "sweeping"}
  PROVE  IdInv'
<1>1. /\ nextGen' = nextGen /\ writing' = writing
      /\ Goto(t, "waiting") /\ Calls(t, p, leases[p].gen)
  BY DEF ResumeRequest
<1>2. /\ pc'[t] = "waiting" /\ req'[t].pid = p /\ req'[t].gen = leases[p].gen
      /\ \A u \in Threads \ {t} : pc'[u] = pc[u] /\ req'[u] = req[u]
  BY <1>1, Moved, Called
<1>3. /\ HasLease(p) /\ ~Locked(p)
      /\ leases'[p] # NoLease /\ leases'[p].gen = leases[p].gen
      /\ leases'[p].by = leases[p].by /\ leases'[p].requested
      /\ ~leases[p].releasing /\ leases'[p].releasing
      /\ \A q \in Pids \ {p} : leases'[q] = leases[q]
  BY RequestEffect DEF Becomes
<1>4. GenInv'
  BY <1>1, <1>2, <1>3, IdTyping DEF IdInv, GenInv, HasLease
<1>5. LockInv'
  BY <1>1, <1>2, <1>3, IdTyping DEF IdInv, LockInv, Locked, MayPause, HasLease
<1>6. OneReleasePerGate'
  <2>1. \A u \in Threads : pc[u] = "waiting" => req[u].pid # p
    BY <1>3 DEF IdInv, OneReleasePerGate
  <2>. QED
    BY <1>2, <1>3, <2>1, IdTyping DEF IdInv, OneReleasePerGate, Matches, HasLease
<1>7. GuardInv'
  BY <1>1, <1>2, <1>3, IdTyping DEF IdInv, GuardInv, Operating, Names
<1>. QED
  BY <1>4, <1>5, <1>6, <1>7 DEF IdInv

LEMMA IdInductive == TypeOK /\ IdInv /\ [Next]_vars => IdInv'
<1> SUFFICES ASSUME TypeOK, IdInv, [Next]_vars PROVE IdInv'
  OBVIOUS
<1>1. ASSUME NEW t \in Callers, CallerNext(t) PROVE IdInv'
  <2>1. CASE \E p \in Pids, gen \in 0..MaxGen : Pin(t, p, gen)
    BY <2>1, PinKeeps
  <2>2. CASE \E p \in Pids, gen \in 0..MaxGen : Resume(t, p, gen)
    BY <2>2, RequestKeeps DEF Resume, Threads
  <2>3. CASE PauseStarts(t)
    BY <2>3, PauseStartsKeeps
  <2>4. CASE PauseAcquires(t)
    BY <2>4, PauseAcquiresKeeps
  <2>5. CASE PauseSwapFails(t)
    BY <2>5, PauseSwapFailsIsCalm, CalmKeeps
  <2>6. CASE Finalize(t)
    BY <2>6, FinalizeKeeps
  <2>7. CASE \/ PauseRefused(t) \/ AcquireFails(t) \/ SpawnCheck(t) \/ Spawn(t)
             \/ WriterExits(t) \/ CallbackReturns(t) \/ \E p \in Pids : PauseCall(t, p)
    BY <2>7, CallerStepIsCalm, CalmKeeps
  <2>. QED
    BY <1>1, <2>1, <2>2, <2>3, <2>4, <2>5, <2>6, <2>7 DEF CallerNext
<1>2. ASSUME NEW p \in Pids, Renew(p) PROVE IdInv'
  BY <1>2, RenewIsCalm, CalmKeeps
<1>3. ASSUME NEW t \in Threads, ReleaseNext(t) PROVE IdInv'
  BY <1>3, GiveUpIsCalm, ReleasedIsCalm, ReleaseFailsIsCalm, CalmKeeps
     DEF ReleaseNext
<1>4. ASSUME NEW t \in {Watch, Stopper}, SweepNext(t) PROVE IdInv'
  <2>1. PICK item \in todo[t] :
          \/ ResumeRequest(t, item[1], item[2])
          \/ UNCHANGED <<gateVars, pc, req, attempt, opVars, worldVars>>
    BY <1>4 DEF SweepNext
  <2>2. item[1] \in Pids /\ item[2] \in Nat
    BY DEF TypeOK, ThreadTypeOK
  <2>3. CASE ResumeRequest(t, item[1], item[2])
    BY <1>4, <2>2, <2>3, RequestKeeps DEF SweepNext, Threads
  <2>4. CASE UNCHANGED <<gateVars, pc, req, attempt, opVars, worldVars>>
    BY <2>4, BackgroundStepIsCalm, CalmKeeps DEF Rest
  <2>. QED
    BY <2>1, <2>3, <2>4
<1>5. ASSUME \/ WatchScan \/ WatchParks \/ WatchExits
             \/ StopCall \/ StopRound \/ StopConfirmed \/ StopFails
             \/ \E p \in Pids : LaunchMoves(p)
             \/ \E x \in Targets : TargetVanishes(x) \/ ScopeReplaced(x) \/ Meddle(x)
             \/ UNCHANGED vars
      PROVE  IdInv'
  BY <1>5, BackgroundRests, BackgroundStepIsCalm, CalmKeeps
<1>6. ASSUME Tick PROVE IdInv'
  BY <1>6, TickIsCalm, CalmKeeps
<1>. QED
  BY <1>1, <1>2, <1>3, <1>4, <1>5, <1>6 DEF Next, WatchNext, StopNext, WorldNext
-----------------------------------------------------------------------------
(* The initial state                                                       *)

LEMMA InitTypeOK == Init => TypeOK
<1> SUFFICES ASSUME Init PROVE TypeOK
  OBVIOUS
<1>1. NoCall \in [pid : Pids, gen : Nat]
  BY DEF NoCall
<1>2. GateTypeOK
  BY DEF Init, GateTypeOK
<1>3. ThreadTypeOK
  BY <1>1 DEF Init, ThreadTypeOK, CallerPC, WatchPC, StopPC
<1>4. WorldTypeOK
  BY DEF Init, WorldTypeOK
<1>. QED
  BY <1>2, <1>3, <1>4 DEF TypeOK

LEMMA InitIdInv == Init => IdInv
<1> SUFFICES ASSUME Init PROVE IdInv
  OBVIOUS
<1>1. NoCall.gen = 0
  BY DEF NoCall
<1>2. \A t \in Threads : pc[t] \in {"idle", "absent", "off"} /\ req[t].gen = 0
  BY <1>1 DEF Init
<1>3. GenInv
  BY <1>2 DEF Init, GenInv, HasLease
<1>4. LockInv /\ OneReleasePerGate /\ GuardInv
  BY <1>2 DEF Init, LockInv, OneReleasePerGate, GuardInv, Operating, Threads
<1>. QED
  BY <1>3, <1>4 DEF IdInv

(* The state stays well formed: every field of every lease, call and list  *)
(* of the watchdog keeps its range, for any number of games and callers.   *)
THEOREM TypeCorrect == Spec => []TypeOK
<1>. QED
  BY InitTypeOK, TypeInductive, PTL DEF Spec

THEOREM IdCorrect == Spec => []IdInv
<1>. QED
  BY InitIdInv, IdInductive, TypeCorrect, PTL DEF Spec

(* Two releases of one gate never overlap, and nothing takes the lease away *)
(* under the thread that waits to release it.                               *)
THEOREM ReleasesExclusive == Spec => []OneReleasePerGate
<1>1. IdInv => OneReleasePerGate
  BY DEF IdInv
<1>. QED
  BY <1>1, IdCorrect, PTL

(* run_guarded never lets two save mutations for one launch overlap.       *)
THEOREM MutationsExclusive == Spec => []OneMutationPerGate
<1>1. IdInv => OneMutationPerGate
  BY DEF IdInv, GuardInv, OneMutationPerGate, Operating, Names
<1>. QED
  BY <1>1, IdCorrect, PTL
-----------------------------------------------------------------------------
(* Once asked for, the end of a lease comes                                *)

Ends(q) ==
  HasLease(q) /\ leases[q].requested =>
    \/ leases'[q] = NoLease
    \/ /\ leases'[q].gen = leases[q].gen /\ leases'[q].requested
       /\ leases'[q].by \in {leases[q].by, Nobody}
       /\ leases'[q].idle >= leases[q].idle

(* The steps that change a lease.                                          *)
LEMMA LeaseSteps ==
  ASSUME TypeOK, [Next]_vars
  PROVE  \/ UNCHANGED leases
         \/ \E t \in Callers : PauseAcquires(t) \/ PauseSwapFails(t) \/ Finalize(t)
         \/ \E t \in Callers, p \in Pids, gen \in Nat : Pin(t, p, gen)
         \/ \E t \in Threads, p \in Pids, gen \in Nat : ResumeRequest(t, p, gen)
         \/ \E t \in Threads : GiveUp(t) \/ Released(t) \/ ReleaseFails(t)
         \/ \E p \in Pids : Renew(p)
         \/ Tick
<1> DEFINE Goal ==
             \/ UNCHANGED leases
             \/ \E t \in Callers : PauseAcquires(t) \/ PauseSwapFails(t) \/ Finalize(t)
             \/ \E t \in Callers, p \in Pids, gen \in Nat : Pin(t, p, gen)
             \/ \E t \in Threads, p \in Pids, gen \in Nat : ResumeRequest(t, p, gen)
             \/ \E t \in Threads : GiveUp(t) \/ Released(t) \/ ReleaseFails(t)
             \/ \E p \in Pids : Renew(p)
             \/ Tick
<1>1. ASSUME NEW t \in Callers, CallerNext(t) PROVE Goal
  <2>1. CASE \E p \in Pids : PauseCall(t, p)
    BY <2>1 DEF PauseCall
  <2>2. CASE \E p \in Pids, gen \in 0..MaxGen : Pin(t, p, gen)
    BY <2>2
  <2>3. CASE \E p \in Pids, gen \in 0..MaxGen : Resume(t, p, gen)
    BY <2>3 DEF Resume, Threads
  <2>4. CASE PauseRefused(t) \/ PauseStarts(t) \/ AcquireFails(t)
    BY <2>4 DEF PauseRefused, PauseStarts, AcquireFails
  <2>5. CASE SpawnCheck(t) \/ Spawn(t) \/ WriterExits(t) \/ CallbackReturns(t)
    BY <2>5 DEF SpawnCheck, Spawn, WriterExits, CallbackReturns
  <2>. QED
    BY <1>1, <2>1, <2>2, <2>3, <2>4, <2>5 DEF CallerNext
<1>2. ASSUME NEW t \in Threads, ReleaseNext(t) PROVE Goal
  BY <1>2 DEF ReleaseNext
<1>3. ASSUME NEW t \in {Watch, Stopper}, SweepNext(t) PROVE Goal
  <2>1. PICK item \in todo[t] :
          \/ ResumeRequest(t, item[1], item[2])
          \/ UNCHANGED <<gateVars, pc, req, attempt, opVars, worldVars>>
    BY <1>3 DEF SweepNext
  <2>2. item[1] \in Pids /\ item[2] \in Nat
    BY DEF TypeOK, ThreadTypeOK
  <2>. QED
    BY <2>1, <2>2 DEF Threads
<1>4. ASSUME \/ WatchScan \/ WatchParks \/ WatchExits
             \/ StopCall \/ StopRound \/ StopConfirmed \/ StopFails
             \/ \E p \in Pids : LaunchMoves(p)
             \/ \E x \in Targets : TargetVanishes(x) \/ ScopeReplaced(x) \/ Meddle(x)
             \/ UNCHANGED vars
      PROVE  Goal
  BY <1>4, BackgroundRests DEF Rest
<1>. QED
  BY <1>1, <1>2, <1>3, <1>4 DEF Next, WatchNext, StopNext, WorldNext

LEMMA SameLeaseEnds ==
  ASSUME TypeOK, NEW q \in Pids, leases'[q] = leases[q]
  PROVE  Ends(q)
BY LeaseTyping DEF Ends, Lease, TypeOK

LEMMA StepEnds ==
  ASSUME TypeOK, IdInv, [Next]_vars, NEW q \in Pids, HasLease(q), leases[q].requested
  PROVE  Ends(q)
<1>0. leases[q].idle \in Nat
  BY LeaseTyping DEF TypeOK, Lease
<1>1. ASSUME NEW t \in Callers, PauseAcquires(t) \/ PauseSwapFails(t) PROVE leases'[q] = leases[q]
  <2>1. req[t].pid # q
    BY <1>1 DEF PauseAcquires, PauseSwapFails, Acquiring, IdInv, LockInv, MayPause
  <2>2. \A r \in Pids \ {req[t].pid} : leases'[r] = leases[r]
    BY <1>1, PauseAcquiresEffect, PauseSwapFailsEffect DEF Becomes
  <2>. QED
    BY <2>1, <2>2
<1>2. ASSUME NEW t \in Callers, NEW p \in Pids, NEW gen \in Nat, Pin(t, p, gen)
      PROVE  leases'[q] = leases[q]
  <2>1. p # q
    BY <1>2 DEF Pin, Pinnable
  <2>. QED
    <3>1. Becomes(p, leases[p].target, leases[p].recovery, gen, t, FALSE)
      BY <1>2, PinEffect
    <3>. QED
      BY <2>1, <3>1 DEF Becomes
<1>3. ASSUME NEW p \in Pids, Renew(p) PROVE leases'[q] = leases[q]
  <2>1. p # q
    BY <1>3 DEF Renew
  <2>. QED
    BY <1>3, <2>1, RenewEffect DEF Becomes
<1>4. ASSUME NEW t \in Threads, NEW p \in Pids, NEW gen \in Nat, ResumeRequest(t, p, gen)
      PROVE  Ends(q)
  <2>1. /\ Becomes(p, leases[p].target, leases[p].recovery, leases[p].gen, leases[p].by, TRUE)
        /\ leases'[p].idle = leases[p].idle
    BY <1>4, RequestEffect
  <2>. QED
    BY <1>0, <2>1 DEF Becomes, Ends
<1>5. ASSUME NEW t \in Callers, Finalize(t) PROVE Ends(q)
  BY <1>0, <1>5, FinalizeEffect DEF Becomes, Ends, HasLease
<1>6. ASSUME NEW t \in Threads, GiveUp(t) PROVE Ends(q)
  BY <1>0, <1>6, GiveUpEffect DEF Becomes, Ends
<1>7. ASSUME NEW t \in Threads, Released(t) PROVE Ends(q)
  BY <1>0, <1>7, ReleasedEffect DEF Ends
<1>8. ASSUME NEW t \in Threads, ReleaseFails(t) PROVE Ends(q)
  BY <1>0, <1>8, ReleaseFailsEffect DEF Becomes, Ends
<1>9. ASSUME Tick PROVE Ends(q)
  BY <1>9, TickEffect DEF Ends
<1>. QED
  BY <1>1, <1>2, <1>3, <1>4, <1>5, <1>6, <1>7, <1>8, <1>9, LeaseSteps, SameLeaseEnds

(* A lease whose end was requested is never renewed, pinned, superseded or *)
(* taken back, whoever calls and whatever fails.                           *)
THEOREM ReleasesFinal == Spec => ReleaseIsFinal
<1>1. TypeOK /\ IdInv /\ [Next]_vars =>
        [\A p \in Pids : HasLease(p) /\ leases[p].requested =>
           \/ leases'[p] = NoLease
           \/ /\ leases'[p].gen = leases[p].gen /\ leases'[p].requested
              /\ leases'[p].by \in {leases[p].by, Nobody}
              /\ leases'[p].idle >= leases[p].idle]_vars
  BY StepEnds DEF Ends
<1>. QED
  BY <1>1, TypeCorrect, IdCorrect, PTL DEF Spec, ReleaseIsFinal
-----------------------------------------------------------------------------
(* Watchdog implements LaunchGate                                          *)

Gated(p) == IF HasLease(p) THEN leases[p].gen ELSE 0
Ending(p) == HasLease(p) /\ leases[p].requested
Mutating(p) == \E t \in Callers : Operating(t) /\ req[t].pid = p

LEMMA InitGate == Init => Gate!Init
<1> SUFFICES ASSUME Init PROVE Gate!Init
  OBVIOUS
<1>1. \A t \in Callers : ~Operating(t)
  BY DEF Init, Operating, Threads
<1>2. identities = 0 /\ \A p \in Pids : leases[p] = NoLease
  BY DEF Init, identities
<1>3. gates = [p \in Pids |-> 0]
  BY <1>2 DEF HasLease, gates
<1>4. endings = [p \in Pids |-> FALSE]
  BY <1>2, Zenon DEF HasLease, endings
<1>5. mutations = [p \in Pids |-> FALSE]
  BY <1>1, Zenon DEF mutations
<1>. QED
  BY <1>2, <1>3, <1>4, <1>5, Zenon DEF Gate!Init

(* A step shows of each gate's identity, end and mutation either nothing,  *)
(* or one change at one PID.                                               *)
SameGates(p) == \A q \in Pids \ {p} : Gated(q)' = Gated(q)
SameEndings(p) == \A q \in Pids \ {p} : Ending(q)' = Ending(q)
SameMutating(p) == \A q \in Pids \ {p} : Mutating(q)' = Mutating(q)

LEMMA GateTables ==
  ASSUME NEW p \in Pids
  PROVE  /\ gates[p] = Gated(p) /\ endings[p] = Ending(p) /\ mutations[p] = Mutating(p)
         /\ SameGates(p) /\ Gated(p)' = Gated(p) => gates' = gates
         /\ SameEndings(p) /\ Ending(p)' = Ending(p) => endings' = endings
         /\ SameMutating(p) /\ Mutating(p)' = Mutating(p) => mutations' = mutations
         /\ \A v : SameGates(p) /\ Gated(p)' = v => gates' = [gates EXCEPT ![p] = v]
         /\ \A v : SameEndings(p) /\ Ending(p)' = v => endings' = [endings EXCEPT ![p] = v]
         /\ \A v : SameMutating(p) /\ Mutating(p)' = v => mutations' = [mutations EXCEPT ![p] = v]
<1>1. /\ gates = [q \in Pids |-> Gated(q)]
      /\ endings = [q \in Pids |-> Ending(q)]
      /\ mutations = [q \in Pids |-> Mutating(q)]
  BY Zenon DEF gates, endings, mutations, Gated, Ending, Mutating
<1>2. /\ gates' = [q \in Pids |-> Gated(q)']
      /\ endings' = [q \in Pids |-> Ending(q)']
      /\ mutations' = [q \in Pids |-> Mutating(q)']
  BY Zenon DEF gates, endings, mutations, Gated, Ending, Mutating
<1>3. gates[p] = Gated(p) /\ endings[p] = Ending(p) /\ mutations[p] = Mutating(p)
  BY <1>1, Zenon
<1>4. SameGates(p) /\ Gated(p)' = Gated(p) => gates' = gates
  BY <1>1, <1>2, Zenon DEF SameGates
<1>5. SameEndings(p) /\ Ending(p)' = Ending(p) => endings' = endings
  BY <1>1, <1>2, Zenon DEF SameEndings
<1>6. SameMutating(p) /\ Mutating(p)' = Mutating(p) => mutations' = mutations
  BY <1>1, <1>2, Zenon DEF SameMutating
<1>7. \A v : SameGates(p) /\ Gated(p)' = v => gates' = [gates EXCEPT ![p] = v]
  BY <1>1, <1>2, Zenon DEF SameGates
<1>8. \A v : SameEndings(p) /\ Ending(p)' = v => endings' = [endings EXCEPT ![p] = v]
  BY <1>1, <1>2, Zenon DEF SameEndings
<1>9. \A v : SameMutating(p) /\ Mutating(p)' = v => mutations' = [mutations EXCEPT ![p] = v]
  BY <1>1, <1>2, Zenon DEF SameMutating
<1>. QED
  BY <1>3, <1>4, <1>5, <1>6, <1>7, <1>8, <1>9, Zenon

(* The abstract step, in terms of the three tables.                        *)
LEMMA GateActions ==
  ASSUME NEW p \in Pids, nextGen \in Nat
  PROVE  /\ nextGen' = nextGen /\ gates' = gates /\ endings' = endings /\ mutations' = mutations
              => UNCHANGED Gate!vars
         /\    /\ ~mutations[p] /\ ~endings[p] /\ nextGen' = nextGen + 1
               /\ gates' = [gates EXCEPT ![p] = nextGen]
               /\ endings' = endings /\ mutations' = mutations
           => Gate!Hold(p)
         /\    /\ gates[p] # 0 /\ ~endings[p] /\ ~mutations[p]
               /\ mutations' = [mutations EXCEPT ![p] = TRUE]
               /\ nextGen' = nextGen /\ gates' = gates /\ endings' = endings
           => Gate!Begin(p)
         /\    /\ mutations[p] /\ mutations' = [mutations EXCEPT ![p] = FALSE]
               /\ nextGen' = nextGen /\ gates' = gates /\ endings' = endings
           => Gate!Finish(p)
         /\    /\ gates[p] # 0 /\ ~endings[p] /\ endings' = [endings EXCEPT ![p] = TRUE]
               /\ nextGen' = nextGen /\ gates' = gates /\ mutations' = mutations
           => Gate!RequestEnd(p)
         /\    /\ gates[p] # 0 /\ endings[p] /\ ~mutations[p]
               /\ gates' = [gates EXCEPT ![p] = 0] /\ endings' = [endings EXCEPT ![p] = FALSE]
               /\ nextGen' = nextGen /\ mutations' = mutations
           => Gate!Open(p)
<1>1. nextGen' = nextGen => identities' = identities
  BY Zenon DEF identities
<1>2. nextGen' = nextGen + 1 => identities' = identities + 1 /\ identities' = nextGen
  BY DEF identities
<1>3. nextGen' = nextGen /\ gates' = gates /\ endings' = endings /\ mutations' = mutations
        => UNCHANGED Gate!vars
  BY <1>1, Zenon DEF Gate!vars
<1>4.    /\ ~mutations[p] /\ ~endings[p] /\ nextGen' = nextGen + 1
         /\ gates' = [gates EXCEPT ![p] = nextGen]
         /\ endings' = endings /\ mutations' = mutations
      => Gate!Hold(p)
  BY <1>2, Zenon DEF Gate!Hold
<1>5.    /\ gates[p] # 0 /\ ~endings[p] /\ ~mutations[p]
         /\ mutations' = [mutations EXCEPT ![p] = TRUE]
         /\ nextGen' = nextGen /\ gates' = gates /\ endings' = endings
      => Gate!Begin(p)
  BY <1>1, Zenon DEF Gate!Begin
<1>6.    /\ mutations[p] /\ mutations' = [mutations EXCEPT ![p] = FALSE]
         /\ nextGen' = nextGen /\ gates' = gates /\ endings' = endings
      => Gate!Finish(p)
  BY <1>1, Zenon DEF Gate!Finish
<1>7.    /\ gates[p] # 0 /\ ~endings[p] /\ endings' = [endings EXCEPT ![p] = TRUE]
         /\ nextGen' = nextGen /\ gates' = gates /\ mutations' = mutations
      => Gate!RequestEnd(p)
  BY <1>1, Zenon DEF Gate!RequestEnd
<1>8.    /\ gates[p] # 0 /\ endings[p] /\ ~mutations[p]
         /\ gates' = [gates EXCEPT ![p] = 0] /\ endings' = [endings EXCEPT ![p] = FALSE]
         /\ nextGen' = nextGen /\ mutations' = mutations
      => Gate!Open(p)
  BY <1>1, Zenon DEF Gate!Open
<1>. QED
  BY <1>3, <1>4, <1>5, <1>6, <1>7, <1>8, Zenon

(* Every step of Watchdog is a stutter or a step of LaunchGate.            *)
LEMMA CalmMutations ==
  ASSUME TypeOK, CalmStep, NEW p \in Pids
  PROVE  SameMutating(p) /\ Mutating(p)' = Mutating(p)
<1>1. \A u \in Callers : Operating(u)' <=> Operating(u)
  BY DEF CalmStep, Calm, Operating, Busy, Working, Threads
<1>2. \A u \in Callers : Operating(u) => req'[u] = req[u]
  BY DEF CalmStep, Calm, Operating, Busy, Working, Threads
<1>3. \A q \in Pids : Mutating(q)' <=> Mutating(q)
  BY <1>1, <1>2 DEF Mutating
<1>. QED
  BY <1>3 DEF SameMutating, Mutating

LEMMA CalmGate ==
  ASSUME TypeOK, IdInv, CalmStep, \A q \in Pids : HasLease(q) => HasLease(q)'
  PROVE  UNCHANGED Gate!vars
<1> PICK p \in Pids : TRUE
  OBVIOUS
<1>1. \A q \in Pids : Gated(q)' = Gated(q)
  BY DEF CalmStep, Untouched, HasLease, Gated
<1>2. \A q \in Pids : Ending(q)' <=> Ending(q)
  BY DEF CalmStep, Untouched, HasLease, Ending
<1>3. SameGates(p) /\ Gated(p)' = Gated(p) /\ SameEndings(p) /\ Ending(p)' = Ending(p)
  BY <1>1, <1>2 DEF SameGates, SameEndings, Ending
<1>4. gates' = gates /\ endings' = endings /\ mutations' = mutations
  BY <1>3, CalmMutations, GateTables, Zenon
<1>. QED
  BY <1>4, GateActions, IdTyping DEF CalmStep

LEMMA ReleasedOpens ==
  ASSUME TypeOK, IdInv, NEW t \in Threads, Released(t)
  PROVE  \E p \in Pids : Gate!Open(p)
<1>0. PICK p \in Pids : p = req[t].pid
  BY IdTyping
<1>1. /\ p \in Pids /\ HasLease(p) /\ leases[p].by = Nobody
      /\ leases'[p] = NoLease /\ \A q \in Pids \ {p} : leases'[q] = leases[q]
  BY <1>0, ReleasedEffect
<1>2. leases[p].requested
  BY <1>0, <1>1 DEF Released, CanRelease, IdInv, OneReleasePerGate
<1>3. Ending(p) /\ Ending(p)' = FALSE /\ SameEndings(p)
  BY <1>0, <1>1, <1>2 DEF Ending, HasLease, SameEndings
<1>4. Gated(p) # 0 /\ Gated(p)' = 0 /\ SameGates(p)
  BY <1>0, <1>1 DEF Gated, HasLease, SameGates, IdInv, GenInv
<1>5. ~Mutating(p)
  BY <1>0, <1>1 DEF Mutating, IdInv, GuardInv, Names, Threads
<1>6. nextGen' = nextGen /\ SameMutating(p) /\ Mutating(p)' = Mutating(p)
  BY <1>0, <1>1, ReleasedIsCalm, CalmMutations DEF CalmStep
<1>7. /\ gates[p] # 0 /\ endings[p] /\ ~mutations[p]
      /\ gates' = [gates EXCEPT ![p] = 0] /\ endings' = [endings EXCEPT ![p] = FALSE]
      /\ mutations' = mutations
  BY <1>0, <1>1, <1>3, <1>4, <1>5, <1>6, GateTables, Zenon
<1>8. Gate!Open(p)
  BY <1>0, <1>1, <1>6, <1>7, GateActions, IdTyping
<1>. QED
  BY <1>0, <1>1, <1>8

(* No thread starts or ends a mutation.                                    *)
LEMMA SameMutations ==
  ASSUME \A u \in Callers : /\ Operating(u)' <=> Operating(u)
                            /\ Operating(u) => req'[u] = req[u],
         NEW p \in Pids
  PROVE  SameMutating(p) /\ Mutating(p)' = Mutating(p)
<1>1. \A q \in Pids : Mutating(q)' <=> Mutating(q)
  BY DEF Mutating
<1>. QED
  BY <1>1 DEF SameMutating, Mutating

LEMMA PauseStartsStutters ==
  ASSUME TypeOK, IdInv, NEW t \in Callers, PauseStarts(t)
  PROVE  UNCHANGED Gate!vars
<1> PICK p \in Pids : TRUE
  OBVIOUS
<1>1. pc[t] = "pausing" /\ UNCHANGED <<leases, nextGen, req>>
  BY DEF PauseStarts
<1>2. pc'[t] = "acquiring" /\ \A u \in Callers \ {t} : pc'[u] = pc[u]
  BY DEF PauseStarts, AwakeWatch, TypeOK, ThreadTypeOK, Threads
<1>3. SameMutating(p) /\ Mutating(p)' = Mutating(p)
  BY <1>1, <1>2, SameMutations DEF Operating
<1>4. SameGates(p) /\ Gated(p)' = Gated(p) /\ SameEndings(p) /\ Ending(p)' = Ending(p)
  BY <1>1 DEF SameGates, Gated, SameEndings, Ending, HasLease
<1>5. gates' = gates /\ endings' = endings /\ mutations' = mutations
  BY <1>3, <1>4, GateTables, Zenon
<1>. QED
  BY <1>1, <1>5, GateActions, IdTyping

LEMMA PauseAcquiresHolds ==
  ASSUME TypeOK, IdInv, NEW t \in Callers, PauseAcquires(t)
  PROVE  \E p \in Pids : Gate!Hold(p)
<1>0. PICK p \in Pids : p = req[t].pid
  BY IdTyping
<1>1. /\ pc[t] = "acquiring" /\ nextGen' = nextGen + 1 /\ p \in Pids
      /\ Goto(t, "idle") /\ Returns(t)
  BY <1>0, PauseAcquiresEffect DEF PauseAcquires, Acquiring, PauseReturns
<1>2. /\ leases'[p] # NoLease /\ leases'[p].gen = nextGen /\ leases'[p].requested = FALSE
      /\ \A q \in Pids \ {p} : leases'[q] = leases[q]
  BY <1>0, PauseAcquiresEffect DEF Becomes
<1>3. HasLease(p) => leases[p].by = Nobody /\ ~leases[p].requested
  BY <1>0, <1>1 DEF IdInv, LockInv, MayPause
<1>4. ~Ending(p) /\ Ending(p)' = FALSE /\ SameEndings(p)
  BY <1>2, <1>3 DEF Ending, HasLease, SameEndings
<1>5. Gated(p)' = nextGen /\ SameGates(p)
  BY <1>2 DEF Gated, HasLease, SameGates
<1>6. ~Mutating(p)
  BY <1>0, <1>3 DEF Mutating, IdInv, GuardInv, Names, HasLease, Threads
<1>7. SameMutating(p) /\ Mutating(p)' = Mutating(p)
  <2>1. pc'[t] = "idle" /\ \A u \in Threads \ {t} : pc'[u] = pc[u] /\ req'[u] = req[u]
    BY <1>0, <1>1, Moved, Returned DEF Threads
  <2>. QED
    BY <1>0, <1>1, <2>1, SameMutations DEF Operating, Threads
<1>8. Ending(p)' = Ending(p)
  BY <1>4 DEF Ending
<1>9. /\ ~mutations[p] /\ ~endings[p]
      /\ gates' = [gates EXCEPT ![p] = nextGen]
      /\ endings' = endings /\ mutations' = mutations
  BY <1>0, <1>1, <1>4, <1>5, <1>6, <1>7, <1>8, GateTables, Zenon
<1>10. Gate!Hold(p)
  BY <1>0, <1>1, <1>9, GateActions, IdTyping
<1>. QED
  BY <1>0, <1>1, <1>10

LEMMA PinBegins ==
  ASSUME TypeOK, IdInv, NEW t \in Callers, NEW p \in Pids, NEW gen \in Nat, Pin(t, p, gen)
  PROVE  Gate!Begin(p)
<1>1. /\ pc[t] = "idle" /\ nextGen' = nextGen
      /\ Goto(t, "mutating") /\ Calls(t, p, gen)
      /\ leases[p].by = Nobody /\ ~leases[p].requested
  BY DEF Pin, Pinnable
<1>2. /\ HasLease(p) /\ gen = leases[p].gen
      /\ Becomes(p, leases[p].target, leases[p].recovery, gen, t, FALSE)
  BY PinEffect
<1>3. /\ leases'[p] # NoLease /\ leases'[p].gen = leases[p].gen /\ leases'[p].requested = FALSE
      /\ \A q \in Pids \ {p} : leases'[q] = leases[q]
  BY <1>2 DEF Becomes
<1>4. ~Ending(p) /\ Ending(p)' = Ending(p) /\ SameEndings(p)
  BY <1>1, <1>3 DEF Ending, HasLease, SameEndings
<1>5. Gated(p) # 0 /\ Gated(p)' = Gated(p) /\ SameGates(p)
  BY <1>2, <1>3 DEF Gated, HasLease, SameGates, IdInv, GenInv
<1>6. ~Mutating(p)
  BY <1>1 DEF Mutating, IdInv, GuardInv, Names, Threads
<1>7. SameMutating(p) /\ Mutating(p)' = TRUE
  <2>1. /\ pc'[t] = "mutating" /\ req'[t].pid = p
        /\ \A u \in Threads \ {t} : pc'[u] = pc[u] /\ req'[u] = req[u]
    BY <1>1, Moved, Called DEF Threads
  <2>2. Mutating(p)'
    BY <2>1 DEF Mutating, Operating
  <2>3. \A q \in Pids \ {p} : Mutating(q)' <=> Mutating(q)
    BY <1>1, <2>1 DEF Mutating, Operating, Threads
  <2>. QED
    BY <2>2, <2>3 DEF SameMutating, Mutating
<1>8. /\ gates[p] # 0 /\ ~endings[p] /\ ~mutations[p]
      /\ mutations' = [mutations EXCEPT ![p] = TRUE] /\ gates' = gates /\ endings' = endings
  BY <1>4, <1>5, <1>6, <1>7, GateTables, Zenon
<1>. QED
  BY <1>1, <1>8, GateActions, IdTyping

LEMMA FinalizeFinishes ==
  ASSUME TypeOK, IdInv, NEW t \in Callers, Finalize(t)
  PROVE  \E p \in Pids : Gate!Finish(p)
<1>0. PICK p \in Pids : p = req[t].pid
  BY IdTyping
<1>1. /\ pc[t] = "draining" /\ nextGen' = nextGen /\ p \in Pids
      /\ Goto(t, "idle") /\ Returns(t)
  BY <1>0, IdTyping DEF Finalize
<1>2. /\ pc'[t] = "idle"
      /\ \A u \in Threads \ {t} : pc'[u] = pc[u] /\ req'[u] = req[u]
  BY <1>0, <1>1, Moved, Returned DEF Threads
<1>3. /\ HasLease(p) /\ leases[p].by = t /\ leases'[p] # NoLease
      /\ leases'[p].gen = leases[p].gen /\ leases'[p].requested = leases[p].requested
      /\ \A q \in Pids \ {p} : leases'[q] = leases[q]
  <2>1. Matches(p, req[t].gen) /\ leases[p].by = t
    BY <1>0, <1>1 DEF IdInv, GuardInv, Operating, Names, Matches, HasLease
  <2>. QED
    BY <1>0, <2>1, FinalizeEffect DEF Becomes, Matches
<1>4. Ending(p)' = Ending(p) /\ SameEndings(p)
  BY <1>3 DEF Ending, HasLease, SameEndings
<1>5. Gated(p)' = Gated(p) /\ SameGates(p)
  BY <1>3 DEF Gated, HasLease, SameGates
<1>6. Mutating(p) /\ Mutating(p)' = FALSE /\ SameMutating(p)
  <2>1. Mutating(p)
    BY <1>0, <1>1 DEF Mutating, Operating
  <2>2. \A u \in Callers \ {t} : Operating(u) => req[u].pid # p
    BY <1>3 DEF IdInv, GuardInv, Names
  <2>3. ~Mutating(p)'
    BY <1>0, <1>2, <2>2 DEF Mutating, Operating, Threads
  <2>4. \A q \in Pids \ {p} : Mutating(q)' <=> Mutating(q)
    BY <1>0, <1>1, <1>2 DEF Mutating, Operating, Threads
  <2>. QED
    BY <2>1, <2>3, <2>4 DEF SameMutating, Mutating
<1>7. /\ mutations[p] /\ mutations' = [mutations EXCEPT ![p] = FALSE]
      /\ gates' = gates /\ endings' = endings
  BY <1>0, <1>1, <1>4, <1>5, <1>6, GateTables, Zenon
<1>8. Gate!Finish(p)
  BY <1>0, <1>1, <1>7, GateActions, IdTyping
<1>. QED
  BY <1>0, <1>1, <1>8

LEMMA RequestRequestsEnd ==
  ASSUME TypeOK, IdInv, NEW t \in Threads, NEW p \in Pids, NEW gen \in Nat,
         ResumeRequest(t, p, gen), pc[t] \in {"idle", "sweeping"}
  PROVE  Gate!RequestEnd(p) \/ UNCHANGED Gate!vars
<1>1. nextGen' = nextGen /\ Goto(t, "waiting") /\ Calls(t, p, leases[p].gen)
  BY DEF ResumeRequest
<1>2. /\ HasLease(p) /\ leases'[p] # NoLease
      /\ leases'[p].gen = leases[p].gen /\ leases'[p].requested = TRUE
      /\ \A q \in Pids \ {p} : leases'[q] = leases[q]
  BY RequestEffect DEF Becomes
<1>3. Gated(p) # 0 /\ Gated(p)' = Gated(p) /\ SameGates(p)
  BY <1>2 DEF Gated, HasLease, SameGates, IdInv, GenInv
<1>4. Ending(p)' = TRUE /\ SameEndings(p)
  BY <1>2 DEF Ending, HasLease, SameEndings
<1>5. SameMutating(p) /\ Mutating(p)' = Mutating(p)
  <2>1. /\ pc'[t] = "waiting" /\ \A u \in Threads \ {t} : pc'[u] = pc[u] /\ req'[u] = req[u]
    BY <1>1, Moved, Called
  <2>. QED
    BY <1>1, <2>1, SameMutations DEF Operating, Threads
<1>7. CASE Ending(p)
  <2>1. Ending(p)' = Ending(p)
    BY <1>4, <1>7 DEF Ending
  <2>2. gates' = gates /\ endings' = endings /\ mutations' = mutations
    BY <1>3, <1>4, <1>5, <2>1, GateTables, Zenon
  <2>. QED
    BY <1>1, <2>2, GateActions, IdTyping
<1>8. CASE ~Ending(p)
  <2>1. /\ gates[p] # 0 /\ ~endings[p] /\ endings' = [endings EXCEPT ![p] = TRUE]
        /\ gates' = gates /\ mutations' = mutations
    BY <1>3, <1>4, <1>5, <1>8, GateTables, Zenon
  <2>. QED
    BY <1>1, <2>1, GateActions, IdTyping
<1>. QED
  BY <1>7, <1>8

LEMMA GateRefined == TypeOK /\ IdInv /\ [Next]_vars => [Gate!Next]_(Gate!vars)
<1> SUFFICES ASSUME TypeOK, IdInv, [Next]_vars PROVE [Gate!Next]_(Gate!vars)
  OBVIOUS
<1> USE DEF Gate!Next
<1>1. ASSUME NEW t \in Callers, CallerNext(t) PROVE [Gate!Next]_(Gate!vars)
  <2>1. CASE \E p \in Pids, gen \in 0..MaxGen : Pin(t, p, gen)
    BY <2>1, PinBegins
  <2>2. CASE \E p \in Pids, gen \in 0..MaxGen : Resume(t, p, gen)
    BY <2>2, RequestRequestsEnd DEF Resume, Threads
  <2>3. CASE PauseStarts(t)
    BY <2>3, PauseStartsStutters
  <2>4. CASE PauseAcquires(t)
    BY <2>4, PauseAcquiresHolds
  <2>5. CASE PauseSwapFails(t)
    <3>1. \A q \in Pids : HasLease(q) => HasLease(q)'
      BY <2>5, PauseSwapFailsEffect DEF Becomes, HasLease
    <3>. QED
      BY <2>5, <3>1, PauseSwapFailsIsCalm, CalmGate
  <2>6. CASE Finalize(t)
    BY <2>6, FinalizeFinishes
  <2>7. CASE \/ PauseRefused(t) \/ AcquireFails(t) \/ SpawnCheck(t) \/ Spawn(t)
             \/ WriterExits(t) \/ CallbackReturns(t) \/ \E p \in Pids : PauseCall(t, p)
    <3>1. \A q \in Pids : HasLease(q) => HasLease(q)'
      BY <2>7 DEF PauseRefused, AcquireFails, SpawnCheck, Spawn, WriterExits, CallbackReturns,
                  PauseCall, HasLease
    <3>. QED
      BY <2>7, <3>1, CallerStepIsCalm, CalmGate
  <2>. QED
    BY <1>1, <2>1, <2>2, <2>3, <2>4, <2>5, <2>6, <2>7 DEF CallerNext
<1>2. ASSUME NEW p \in Pids, Renew(p) PROVE [Gate!Next]_(Gate!vars)
  <2>1. \A q \in Pids : HasLease(q) => HasLease(q)'
    BY <1>2, RenewEffect DEF Becomes, HasLease
  <2>. QED
    BY <1>2, <2>1, RenewIsCalm, CalmGate
<1>3. ASSUME NEW t \in Threads, ReleaseNext(t) PROVE [Gate!Next]_(Gate!vars)
  <2>1. CASE Released(t)
    BY <2>1, ReleasedOpens
  <2>2. CASE GiveUp(t)
    <3>1. \A q \in Pids : HasLease(q) => HasLease(q)'
      BY <2>2, GiveUpEffect DEF Becomes, HasLease
    <3>. QED
      BY <2>2, <3>1, GiveUpIsCalm, CalmGate
  <2>3. CASE ReleaseFails(t)
    <3>1. \A q \in Pids : HasLease(q) => HasLease(q)'
      BY <2>3, ReleaseFailsEffect DEF Becomes, HasLease
    <3>. QED
      BY <2>3, <3>1, ReleaseFailsIsCalm, CalmGate
  <2>. QED
    BY <1>3, <2>1, <2>2, <2>3 DEF ReleaseNext
<1>4. ASSUME NEW t \in {Watch, Stopper}, Rest(t) PROVE [Gate!Next]_(Gate!vars)
  <2>1. \A q \in Pids : HasLease(q) => HasLease(q)'
    BY <1>4 DEF Rest, HasLease
  <2>. QED
    BY <1>4, <2>1, BackgroundStepIsCalm, CalmGate
<1>5. ASSUME NEW t \in {Watch, Stopper}, SweepNext(t) PROVE [Gate!Next]_(Gate!vars)
  <2>1. PICK item \in todo[t] :
          \/ ResumeRequest(t, item[1], item[2])
          \/ UNCHANGED <<gateVars, pc, req, attempt, opVars, worldVars>>
    BY <1>5 DEF SweepNext
  <2>2. item[1] \in Pids /\ item[2] \in Nat
    BY DEF TypeOK, ThreadTypeOK
  <2>3. CASE ResumeRequest(t, item[1], item[2])
    BY <1>5, <2>2, <2>3, RequestRequestsEnd DEF SweepNext, Threads
  <2>4. CASE UNCHANGED <<gateVars, pc, req, attempt, opVars, worldVars>>
    BY <1>4, <2>4 DEF Rest
  <2>. QED
    BY <2>1, <2>3, <2>4
<1>6. ASSUME \/ WatchScan \/ WatchParks \/ WatchExits
             \/ StopCall \/ StopRound \/ StopConfirmed \/ StopFails
             \/ \E p \in Pids : LaunchMoves(p)
             \/ \E x \in Targets : TargetVanishes(x) \/ ScopeReplaced(x) \/ Meddle(x)
             \/ UNCHANGED vars
      PROVE  [Gate!Next]_(Gate!vars)
  BY <1>4, <1>6, BackgroundRests
<1>7. ASSUME Tick PROVE [Gate!Next]_(Gate!vars)
  <2>1. \A q \in Pids : HasLease(q) => HasLease(q)'
    BY <1>7, TickEffect DEF HasLease
  <2>. QED
    BY <1>7, <2>1, TickIsCalm, CalmGate
<1> HIDE DEF Gate!Next
<1>. QED
  BY <1>1, <1>2, <1>3, <1>5, <1>6, <1>7 DEF Next, WatchNext, StopNext, WorldNext

(* The watchdog keeps what the launch gate promises: a save mutation only  *)
(* under an identified gate, none once its end was asked for, and no gate  *)
(* opens or is replaced while a mutation runs.                             *)
THEOREM GateImplemented == Spec => ImplementsLaunchGate
<1>. QED
  BY InitGate, GateRefined, TypeCorrect, IdCorrect, PTL DEF Spec, ImplementsLaunchGate, Gate!Spec
=============================================================================
