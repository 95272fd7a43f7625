---------------------------- MODULE WatchdogHolds ----------------------------
(* What is held: HeldInv is an inductive invariant of Watchdog, and with   *)
(* it the game of a running save mutation stays held, and nothing stays    *)
(* held that no lease records.                                             *)
EXTENDS WatchdogProofs

USE DEF gateVars, threadVars, opVars, worldVars
USE PidsAssumption, TargetAssumption, ThreadAssumption, TimeAssumption
USE BoundAssumption, LeaseAssumption
-----------------------------------------------------------------------------
(* Three kinds of steps                                                    *)

LEMMA HoldTyping ==
  ASSUME TypeOK
  PROVE  /\ held \subseteq Targets /\ meddled \subseteq Targets /\ orphans \subseteq Targets
         /\ \A x \in Targets : Owner[x] \in Pids
         /\ \A q \in Pids : HasLease(q) =>
              leases[q].target \in Targets /\ Owned(leases[q]) \subseteq Targets
BY LeaseTyping DEF TypeOK, WorldTypeOK, Lease, Owned, Targets

(* Nothing is held or lifted, and leases keep their targets; a lease that  *)
(* becomes pinned has just been verified.                                  *)
SameHolds ==
  /\ UNCHANGED <<current, life, held, meddled, orphans>>
  /\ \A q \in Pids :
       \/ leases'[q] = leases[q]
       \/ /\ leases[q] # NoLease /\ leases'[q] # NoLease
          /\ leases'[q].target = leases[q].target /\ leases'[q].recovery = leases[q].recovery
          /\ leases'[q].by # Nobody => leases[q].by # Nobody \/ leases[q].target \in held

LEMMA SameHoldsKeep ==
  ASSUME TypeOK, HeldInv, SameHolds
  PROVE  HeldInv'
<1>1. OwnerInv'
  BY DEF HeldInv, OwnerInv, SameHolds, HasLease, Owned
<1>2. HoldInv'
  BY DEF HeldInv, HoldInv, SameHolds, HasLease, StillHeld
<1>3. HoldsAccounted'
  BY HoldTyping DEF HeldInv, HoldsAccounted, SameHolds, HasLease, Owned
<1>. QED
  BY <1>1, <1>2, <1>3 DEF HeldInv

(* The world lets targets go: none is held that was not, and a target of a *)
(* lease is let go by somebody else or exists no more.                     *)
WorldStep ==
  /\ UNCHANGED leases
  /\ held' \subseteq held
  /\ \A x \in held' \ orphans' : x \notin orphans
  /\ \A x \in Targets : life[x] # "unborn" =>
       /\ life'[x] # "unborn"
       /\ x \in held \cup meddled \/ life[x] # "alive" =>
            x \in held' \cup meddled' \/ life'[x] # "alive"
  /\ \A q \in Pids : current'[q] = current[q] \/ Owner[current'[q]] = q

LEMMA WorldStepKeeps ==
  ASSUME TypeOK, HeldInv, WorldStep
  PROVE  HeldInv'
<1>1. OwnerInv'
  BY HoldTyping DEF HeldInv, OwnerInv, WorldStep, HasLease
<1>2. HoldInv'
  <2> SUFFICES ASSUME NEW p \in Pids, HasLease(p), leases[p].by # Nobody
               PROVE  StillHeld(leases[p])'
    BY DEF HoldInv, HasLease, WorldStep
  <2>1. StillHeld(leases[p])
    BY DEF HeldInv, HoldInv
  <2>2. leases[p].target \in Targets /\ life[leases[p].target] # "unborn"
    BY HoldTyping DEF HeldInv, OwnerInv, Owned
  <2>. QED
    BY <2>1, <2>2 DEF StillHeld, WorldStep
<1>3. HoldsAccounted'
  BY HoldTyping DEF HeldInv, HoldsAccounted, WorldStep, HasLease, Owned
<1>. QED
  BY <1>1, <1>2, <1>3 DEF HeldInv

(* The freezer works for p: targets of other launches are left alone, no   *)
(* mutation is pinned to the lease of p, and what it holds is recorded.    *)
FreezerStep(p) ==
  /\ UNCHANGED <<current, life>>
  /\ \A q \in Pids \ {p} : leases'[q] = leases[q]
  /\ leases'[p] # NoLease => leases'[p].by = Nobody
  /\ leases'[p] # NoLease =>
       \A x \in Owned(leases'[p]) : Owner[x] = p /\ life[x] # "unborn"
  /\ \A x \in Targets :
       IF Owner[x] = p
       THEN x \in held' \ orphans' => leases'[p] # NoLease /\ x \in Owned(leases'[p])
       ELSE /\ x \in held' <=> x \in held
            /\ x \in orphans' <=> x \in orphans
            /\ x \in meddled => x \in held' \cup meddled'

LEMMA FreezerStepKeeps ==
  ASSUME TypeOK, TypeOK', HeldInv, NEW p \in Pids, FreezerStep(p)
  PROVE  HeldInv'
<1>0. held' \subseteq Targets
  BY DEF TypeOK, WorldTypeOK
<1>1. OwnerInv'
  BY DEF HeldInv, OwnerInv, FreezerStep, HasLease, Owned
<1>2. HoldInv'
  <2> SUFFICES ASSUME NEW q \in Pids, leases'[q] # NoLease, leases'[q].by # Nobody
               PROVE  StillHeld(leases[q])'
    BY DEF HoldInv, HasLease
  <2>1. q # p /\ leases'[q] = leases[q]
    BY DEF FreezerStep
  <2>2. StillHeld(leases[q]) /\ HasLease(q)
    BY <2>1 DEF HeldInv, HoldInv, HasLease
  <2>3. leases[q].target \in Targets /\ Owner[leases[q].target] = q
    BY <2>2, HoldTyping DEF HeldInv, OwnerInv, Owned
  <2>. QED
    BY <2>1, <2>2, <2>3 DEF StillHeld, FreezerStep
<1>3. HoldsAccounted'
  <2> SUFFICES ASSUME NEW x \in held', x \notin orphans'
               PROVE  leases'[Owner[x]] # NoLease /\ x \in Owned(leases'[Owner[x]])
    BY DEF HoldsAccounted, HasLease, Owned
  <2>1. x \in Targets /\ Owner[x] \in Pids
    BY <1>0, HoldTyping
  <2>2. CASE Owner[x] = p
    BY <2>1, <2>2 DEF FreezerStep
  <2>3. CASE Owner[x] # p
    <3>1. x \in held \ orphans /\ leases'[Owner[x]] = leases[Owner[x]]
      BY <2>1, <2>3 DEF FreezerStep
    <3>. QED
      BY <3>1 DEF HeldInv, HoldsAccounted, HasLease
  <2>. QED
    BY <2>2, <2>3
<1>. QED
  BY <1>1, <1>2, <1>3 DEF HeldInv
-----------------------------------------------------------------------------
(* Which steps are which                                                   *)

LEMMA PinHolds ==
  ASSUME TypeOK, NEW t \in Callers, NEW p \in Pids, NEW gen \in Nat, Pin(t, p, gen)
  PROVE  SameHolds
<1>1. Becomes(p, leases[p].target, leases[p].recovery, gen, t, FALSE) /\ HasLease(p)
  BY PinEffect
<1>2. leases[p].target \in held /\ UNCHANGED worldVars
  BY DEF Pin, Pinnable, Verified
<1>. QED
  BY <1>1, <1>2 DEF Becomes, SameHolds, HasLease

LEMMA RenewHolds ==
  ASSUME TypeOK, NEW p \in Pids, Renew(p)
  PROVE  SameHolds
BY RenewEffect DEF Becomes, SameHolds, HasLease, Renew

LEMMA RequestHolds ==
  ASSUME TypeOK, NEW t \in Threads, NEW p \in Pids, NEW gen \in Nat, ResumeRequest(t, p, gen)
  PROVE  SameHolds
BY RequestEffect DEF Becomes, SameHolds, HasLease, ResumeRequest

LEMMA FinalizeHolds ==
  ASSUME TypeOK, NEW t \in Callers, Finalize(t)
  PROVE  SameHolds
BY FinalizeEffect DEF Becomes, SameHolds, HasLease, Finalize

LEMMA GiveUpHolds ==
  ASSUME TypeOK, NEW t \in Threads, GiveUp(t)
  PROVE  SameHolds
BY GiveUpEffect DEF Becomes, SameHolds, HasLease, GiveUp

LEMMA TickHolds ==
  ASSUME TypeOK, Tick
  PROVE  SameHolds
<1>1. ASSUME NEW q \in Pids, leases[q] = NoLease PROVE leases'[q] = NoLease
  BY <1>1 DEF Tick, HasLease
<1>. QED
  BY <1>1, TickEffect DEF SameHolds, HasLease, Tick

LEMMA QuietHolds ==
  ASSUME UNCHANGED <<leases, worldVars>>
  PROVE  SameHolds
BY DEF SameHolds

LEMMA LaunchMovesWorld ==
  ASSUME TypeOK, HeldInv, NEW p \in Pids, LaunchMoves(p)
  PROVE  WorldStep
<1>1. PICK x \in Targets :
        /\ Owner[x] = p /\ life[x] = "unborn"
        /\ current' = [current EXCEPT ![p] = x]
        /\ \E dead \in SUBSET {y \in Targets : life[y] = "alive"} :
             /\ life' = [y \in Targets |-> IF y = x THEN "alive"
                                         ELSE IF y \in dead THEN "gone" ELSE life[y]]
             /\ Lost(dead) /\ meddled' = meddled \ dead
        /\ UNCHANGED leases
  BY DEF LaunchMoves, ProcsOf, Targets
<1>2. PICK dead \in SUBSET {y \in Targets : life[y] = "alive"} :
        /\ life' = [y \in Targets |-> IF y = x THEN "alive"
                                    ELSE IF y \in dead THEN "gone" ELSE life[y]]
        /\ held' = held \ dead /\ orphans' = orphans \ dead /\ meddled' = meddled \ dead
  BY <1>1 DEF Lost
<1>3. \A q \in Pids : current'[q] = current[q] \/ Owner[current'[q]] = q
  BY <1>1 DEF TypeOK, WorldTypeOK
<1>. QED
  BY <1>1, <1>2, <1>3 DEF WorldStep

LEMMA VanishingWorld ==
  ASSUME TypeOK, HeldInv, NEW x \in Targets, TargetVanishes(x) \/ ScopeReplaced(x) \/ Meddle(x)
  PROVE  WorldStep
<1>1. CASE TargetVanishes(x)
  BY <1>1 DEF TargetVanishes, Lost, WorldStep, TypeOK, WorldTypeOK
<1>2. CASE ScopeReplaced(x)
  BY <1>2 DEF ScopeReplaced, WorldStep, TypeOK, WorldTypeOK
<1>3. CASE Meddle(x)
  BY <1>3 DEF Meddle, Lost, WorldStep
<1>. QED
  BY <1>1, <1>2, <1>3

LEMMA AcquireFailsFreezes ==
  ASSUME TypeOK, IdInv, HeldInv, NEW t \in Callers, AcquireFails(t)
  PROVE  \E p \in Pids : FreezerStep(p)
<1>0. PICK p \in Pids : p = req[t].pid
  BY IdTyping
<1>1. /\ pc[t] = "acquiring" /\ UNCHANGED <<leases, current, life>>
      /\ \/ UNCHANGED <<held, orphans, meddled>>
         \/ \E left \in SUBSET NewlyHeld(p) :
              /\ held' = (held \ (ProcsOf(p) \cup NewlyHeld(p))) \cup left
              /\ orphans' = (orphans \ NewlyHeld(p)) \cup left
              /\ meddled' = meddled \ (held' \ held)
  BY <1>0 DEF AcquireFails, Acquiring, KeepClocks
<1>2. HasLease(p) => leases[p].by = Nobody
  BY <1>0, <1>1 DEF IdInv, LockInv, MayPause
<1>3. \A x \in ProcsOf(p) \cup NewlyHeld(p) : Owner[x] = p
  BY DEF ProcsOf, NewlyHeld, Strayed, HeldInv, OwnerInv, Targets
<1>4. \A x \in Targets : Owner[x] = p /\ x \in held' \ orphans' => x \in held \ orphans
  BY <1>1
<1>5. \A x \in held \ orphans : Owner[x] = p => HasLease(p) /\ x \in Owned(leases[p])
  BY DEF HeldInv, HoldsAccounted
<1>6. HasLease(p) => \A x \in Owned(leases[p]) : Owner[x] = p /\ life[x] # "unborn"
  BY DEF HeldInv, OwnerInv
<1>7. \A x \in Targets : Owner[x] # p =>
        /\ x \in held' <=> x \in held
        /\ x \in orphans' <=> x \in orphans
        /\ x \in meddled => x \in held' \cup meddled'
  BY <1>1, <1>3
<1>. QED
  BY <1>1, <1>2, <1>4, <1>5, <1>6, <1>7 DEF FreezerStep, HasLease

LEMMA PauseAcquiresFreezes ==
  ASSUME TypeOK, IdInv, HeldInv, NEW t \in Callers, PauseAcquires(t)
  PROVE  \E p \in Pids : FreezerStep(p)
<1>0. PICK p \in Pids, x \in Targets : p = req[t].pid /\ x = current[p]
  BY PauseAcquiresEffect
<1>1. /\ pc[t] = "acquiring" /\ UNCHANGED <<current, life>>
      /\ life[x] = "alive" /\ meddled' = meddled \ (held' \ held)
  BY <1>0 DEF PauseAcquires, Acquiring, Acquirable, KeepClocks
<1>2. /\ Becomes(p, x, {}, nextGen, Nobody, FALSE)
      /\ held' = HeldAfterAcquire(p, x) \ Thawed(p, x) /\ orphans' = orphans \ {x}
  BY <1>0, PauseAcquiresEffect
<1>3. HasLease(p) => leases[p].by = Nobody /\ leases[p].recovery = {}
  BY <1>0, <1>1 DEF IdInv, LockInv, MayPause
<1>4. Owner[x] = p
  BY <1>0 DEF HeldInv, OwnerInv
<1>5. /\ leases'[p] # NoLease /\ leases'[p].by = Nobody /\ Owned(leases'[p]) = {x}
      /\ \A q \in Pids \ {p} : leases'[q] = leases[q]
  BY <1>2 DEF Becomes, Owned
<1>6. \A y \in held \ orphans : Owner[y] = p => HasLease(p) /\ y = leases[p].target
  BY <1>3 DEF HeldInv, HoldsAccounted, Owned
<1>7. \A y \in Targets : Owner[y] = p /\ y \in held' \ orphans' => y = x
  <2> SUFFICES ASSUME NEW y \in Targets, Owner[y] = p, y \in held' \ orphans', y # x
               PROVE  FALSE
    OBVIOUS
  <2>1. y \in held \ orphans /\ y \notin ProcsOf(p) /\ y \notin Thawed(p, x)
    BY <1>2 DEF HeldAfterAcquire
  <2>2. HasLease(p) /\ y = leases[p].target /\ y \in Scopes
    BY <1>6, <2>1 DEF ProcsOf, Targets
  <2>. QED
    BY <2>1, <2>2 DEF Thawed, MustThaw
<1>8. \A y \in Thawed(p, x) : Owner[y] = p
  BY DEF Thawed, MustThaw, HeldInv, OwnerInv, Owned
<1>9. \A y \in Targets : Owner[y] # p =>
        /\ y \in held' <=> y \in held
        /\ y \in orphans' <=> y \in orphans
        /\ y \in meddled => y \in held' \cup meddled'
  BY <1>1, <1>2, <1>4, <1>8 DEF HeldAfterAcquire, ProcsOf
<1>. QED
  BY <1>1, <1>4, <1>5, <1>7, <1>9 DEF FreezerStep

LEMMA PauseSwapFailsFreezes ==
  ASSUME TypeOK, IdInv, HeldInv, NEW t \in Callers, PauseSwapFails(t)
  PROVE  \E p \in Pids : FreezerStep(p)
<1>0. PICK p \in Pids, x \in Targets : p = req[t].pid /\ x = current[p]
  BY PauseSwapFailsEffect
<1>1. /\ pc[t] = "acquiring" /\ UNCHANGED <<current, life>> /\ MustThaw(p, x)
      /\ life[x] = "alive" /\ meddled' = meddled \ (held' \ held)
      /\ \E lifted \in SUBSET {leases[p].target, x} : held' = HeldAfterAcquire(p, x) \ lifted
  BY <1>0 DEF PauseSwapFails, Acquiring, Acquirable, KeepClocks
<1>2. \/ leases' = leases /\ x \notin held' /\ orphans' = orphans \ {x}
      \/ /\ Becomes(p, leases[p].target, leases[p].recovery \cup ({x} \cap Scopes),
                    leases[p].gen, leases[p].by, leases[p].requested)
         /\ orphans' = IF x \in Scopes THEN orphans \ {x} ELSE orphans \cup {x}
  BY <1>0, PauseSwapFailsEffect
<1>3. HasLease(p) /\ leases[p].by = Nobody
  BY <1>0, <1>1 DEF IdInv, LockInv, MayPause, MustThaw
<1>4. Owner[x] = p /\ \A y \in Owned(leases[p]) : Owner[y] = p /\ life[y] # "unborn"
  BY <1>0, <1>3 DEF HeldInv, OwnerInv
<1>5. /\ leases'[p] # NoLease /\ leases'[p].by = Nobody
      /\ Owned(leases[p]) \subseteq Owned(leases'[p])
      /\ Owned(leases'[p]) \subseteq Owned(leases[p]) \cup {x}
      /\ x \in held' \ orphans' => x \in Owned(leases'[p])
      /\ \A q \in Pids \ {p} : leases'[q] = leases[q]
  BY <1>2, <1>3 DEF Becomes, Owned, HasLease
<1>6. \A y \in held \ orphans : Owner[y] = p => y \in Owned(leases[p])
  BY DEF HeldInv, HoldsAccounted
<1>7. \A y \in Targets : Owner[y] = p /\ y \in held' \ orphans' => y \in Owned(leases'[p])
  BY <1>1, <1>2, <1>5, <1>6 DEF HeldAfterAcquire
<1>8. leases[p].target \in Owned(leases[p])
  BY DEF Owned
<1>9. \A y \in Targets : Owner[y] # p =>
        /\ y \in held' <=> y \in held
        /\ y \in orphans' <=> y \in orphans
        /\ y \in meddled => y \in held' \cup meddled'
  BY <1>1, <1>2, <1>4, <1>8 DEF HeldAfterAcquire, ProcsOf
<1>. QED
  BY <1>1, <1>4, <1>5, <1>7, <1>9 DEF FreezerStep

LEMMA ReleasedFreezes ==
  ASSUME TypeOK, HeldInv, NEW t \in Threads, Released(t)
  PROVE  \E p \in Pids : FreezerStep(p)
<1>0. PICK p \in Pids : p = req[t].pid
  BY IdTyping
<1>1. UNCHANGED <<current, life, orphans>> /\ meddled' = meddled \ (held' \ held)
  BY DEF Released, KeepClocks
<1>2. /\ HasLease(p) /\ leases'[p] = NoLease /\ \A q \in Pids \ {p} : leases'[q] = leases[q]
      /\ held' = held \ Owned(leases[p])
  BY <1>0, ReleasedEffect
<1>3. \A y \in Owned(leases[p]) : Owner[y] = p
  BY <1>2 DEF HeldInv, OwnerInv
<1>4. \A y \in held \ orphans : Owner[y] = p => y \in Owned(leases[p])
  BY DEF HeldInv, HoldsAccounted
<1>. QED
  BY <1>1, <1>2, <1>3, <1>4 DEF FreezerStep

LEMMA ReleaseFailsFreezes ==
  ASSUME TypeOK, HeldInv, NEW t \in Threads, ReleaseFails(t)
  PROVE  \E p \in Pids : FreezerStep(p)
<1>0. PICK p \in Pids : p = req[t].pid
  BY IdTyping
<1>1. UNCHANGED <<current, life, orphans>> /\ meddled' = meddled \ (held' \ held)
  BY DEF ReleaseFails, KeepClocks
<1>2. PICK x \in Targets, s \in SUBSET Scopes :
        /\ Becomes(p, x, s, leases[p].gen, Nobody, leases[p].requested)
        /\ {x} \cup s \subseteq Owned(leases[p])
        /\ held' \subseteq held /\ held \ held' \subseteq Owned(leases[p])
        /\ held' \cap Owned(leases[p]) \subseteq {x} \cup s
  BY <1>0, ReleaseFailsEffect
<1>3. HasLease(p)
  BY <1>0, ReleaseFailsEffect
<1>4. /\ leases'[p] # NoLease /\ leases'[p].by = Nobody /\ Owned(leases'[p]) = {x} \cup s
      /\ \A q \in Pids \ {p} : leases'[q] = leases[q]
  BY <1>2 DEF Becomes, Owned
<1>5. \A y \in Owned(leases[p]) : Owner[y] = p /\ life[y] # "unborn"
  BY <1>3 DEF HeldInv, OwnerInv
<1>6. \A y \in held \ orphans : Owner[y] = p => y \in Owned(leases[p])
  BY DEF HeldInv, HoldsAccounted
<1>. QED
  BY <1>1, <1>2, <1>4, <1>5, <1>6 DEF FreezerStep

LEMMA HeldInductive == TypeOK /\ IdInv /\ HeldInv /\ [Next]_vars => HeldInv'
<1> SUFFICES ASSUME TypeOK, IdInv, HeldInv, [Next]_vars PROVE HeldInv'
  OBVIOUS
<1>0. TypeOK'
  BY TypeInductive
<1>1. ASSUME NEW t \in Callers, CallerNext(t) PROVE HeldInv'
  <2>1. CASE \E p \in Pids, gen \in 0..MaxGen : Pin(t, p, gen)
    BY <2>1, PinHolds, SameHoldsKeep
  <2>2. CASE \E p \in Pids, gen \in 0..MaxGen : Resume(t, p, gen)
    BY <2>2, RequestHolds, SameHoldsKeep DEF Resume, Threads
  <2>3. CASE Finalize(t)
    BY <2>3, FinalizeHolds, SameHoldsKeep
  <2>4. CASE AcquireFails(t) \/ PauseAcquires(t) \/ PauseSwapFails(t)
    BY <1>0, <2>4, AcquireFailsFreezes, PauseAcquiresFreezes, PauseSwapFailsFreezes,
       FreezerStepKeeps
  <2>5. CASE \/ PauseRefused(t) \/ PauseStarts(t) \/ SpawnCheck(t) \/ Spawn(t)
             \/ WriterExits(t) \/ CallbackReturns(t) \/ \E p \in Pids : PauseCall(t, p)
    <3>1. UNCHANGED <<leases, worldVars>>
      BY <2>5 DEF PauseRefused, PauseStarts, SpawnCheck, Spawn, WriterExits, CallbackReturns,
                  PauseCall
    <3>. QED
      BY <3>1, QuietHolds, SameHoldsKeep
  <2>. QED
    BY <1>1, <2>1, <2>2, <2>3, <2>4, <2>5 DEF CallerNext
<1>2. ASSUME NEW p \in Pids, Renew(p) PROVE HeldInv'
  BY <1>2, RenewHolds, SameHoldsKeep
<1>3. ASSUME NEW t \in Threads, ReleaseNext(t) PROVE HeldInv'
  <2>1. CASE GiveUp(t)
    BY <2>1, GiveUpHolds, SameHoldsKeep
  <2>3. CASE Released(t) \/ ReleaseFails(t)
    BY <1>0, <2>3, ReleasedFreezes, ReleaseFailsFreezes, FreezerStepKeeps
  <2>. QED
    BY <1>3, <2>1, <2>3 DEF ReleaseNext
<1>4. ASSUME NEW t \in {Watch, Stopper}, SweepNext(t) PROVE HeldInv'
  <2>1. PICK item \in todo[t] :
          \/ ResumeRequest(t, item[1], item[2])
          \/ UNCHANGED <<gateVars, pc, req, attempt, opVars, worldVars>>
    BY <1>4 DEF SweepNext
  <2>2. item[1] \in Pids /\ item[2] \in Nat
    BY DEF TypeOK, ThreadTypeOK
  <2>3. CASE ResumeRequest(t, item[1], item[2])
    BY <2>2, <2>3, RequestHolds, SameHoldsKeep DEF Threads
  <2>4. CASE UNCHANGED <<gateVars, pc, req, attempt, opVars, worldVars>>
    BY <2>4, QuietHolds, SameHoldsKeep
  <2>. QED
    BY <2>1, <2>3, <2>4
<1>5. ASSUME \/ WatchScan \/ WatchParks \/ WatchExits
             \/ StopCall \/ StopRound \/ StopConfirmed \/ StopFails \/ UNCHANGED vars
      PROVE  HeldInv'
  <2>1. UNCHANGED <<leases, worldVars>>
    BY <1>5 DEF WatchScan, WatchParks, WatchExits, StopCall, StopRound, StopConfirmed, StopFails,
                vars
  <2>. QED
    BY <2>1, QuietHolds, SameHoldsKeep
<1>6. ASSUME \/ \E p \in Pids : LaunchMoves(p)
             \/ \E x \in Targets : TargetVanishes(x) \/ ScopeReplaced(x) \/ Meddle(x)
      PROVE  HeldInv'
  BY <1>6, LaunchMovesWorld, VanishingWorld, WorldStepKeeps
<1>7. ASSUME Tick PROVE HeldInv'
  BY <1>7, TickHolds, SameHoldsKeep
<1>. QED
  BY <1>1, <1>2, <1>3, <1>4, <1>5, <1>6, <1>7 DEF Next, WatchNext, StopNext, WorldNext

LEMMA InitHeldInv == Init => HeldInv
BY DEF Init, HeldInv, OwnerInv, HoldInv, HoldsAccounted, HasLease
-----------------------------------------------------------------------------
(* How long a target has been held                                         *)

(* A lease's age covers how long it holds its targets, if no clock runs    *)
(* ahead and a lease that goes on holding a target grows no younger.       *)
LEMMA AgeStep ==
  ASSUME TypeOK, TypeOK', HeldInv, HeldInv', AgeCoversHold,
         \A x \in held' \ orphans' :
           heldFor'[x] = 0 \/ (x \in held \ orphans /\ heldFor'[x] = heldFor[x]),
         \A q \in Pids : leases[q] # NoLease /\ leases'[q] # NoLease =>
           \/ leases'[q].age = leases[q].age
           \/ \A x \in Owned(leases'[q]) : x \notin Owned(leases[q])
  PROVE  AgeCoversHold'
<1> SUFFICES ASSUME NEW q \in Pids, leases'[q] # NoLease,
                    NEW x \in Owned(leases'[q]), x \in held' \ orphans'
             PROVE  heldFor'[x] <= leases'[q].age
  BY DEF AgeCoversHold, HasLease, Owned
<1>1. leases'[q].age \in Nat
  BY DEF TypeOK, GateTypeOK, Lease
<1>2. CASE heldFor'[x] = 0
  BY <1>1, <1>2
<1>3. CASE x \in held \ orphans /\ heldFor'[x] = heldFor[x]
  <2>1. Owner[x] = q
    BY DEF HeldInv, OwnerInv, HasLease, Owned
  <2>2. HasLease(q) /\ x \in Owned(leases[q])
    BY <1>3, <2>1 DEF HeldInv, HoldsAccounted
  <2>3. heldFor[x] <= leases[q].age
    BY <1>3, <2>2 DEF AgeCoversHold
  <2>. QED
    BY <1>3, <2>2, <2>3 DEF HasLease
<1>. QED
  BY <1>2, <1>3

(* The freezer leaves or resets the clocks.                                *)
LEMMA KeptClocks ==
  ASSUME TypeOK, TypeOK', KeepClocks
  PROVE  \A x \in held' \ orphans' :
           heldFor'[x] = 0 \/ (x \in held \ orphans /\ heldFor'[x] = heldFor[x])
BY DEF KeepClocks, TypeOK, WorldTypeOK

LEMMA WorldClocks ==
  ASSUME TypeOK, TypeOK', HeldInv,
         \/ \E p \in Pids : LaunchMoves(p)
         \/ \E x \in Targets : TargetVanishes(x) \/ ScopeReplaced(x) \/ Meddle(x)
  PROVE  /\ UNCHANGED leases
         /\ \A x \in held' \ orphans' :
              heldFor'[x] = 0 \/ (x \in held \ orphans /\ heldFor'[x] = heldFor[x])
<1>1. WorldStep
  BY LaunchMovesWorld, VanishingWorld
<1>2. UNCHANGED heldFor \/ \E X \in SUBSET Targets :
        heldFor' = [x \in Targets |-> IF x \in X THEN 0 ELSE heldFor[x]]
  <2>1. ASSUME NEW p \in Pids, LaunchMoves(p)
        PROVE  \E X \in SUBSET Targets :
                 heldFor' = [x \in Targets |-> IF x \in X THEN 0 ELSE heldFor[x]]
    <3>1. PICK dead \in SUBSET Targets : Lost(dead)
      <4>1. PICK x \in Targets : Lost(IF x \in Procs THEN {y \in ProcsOf(p) : life[y] = "alive"}
                                     ELSE {})
        BY <2>1 DEF LaunchMoves
      <4>2. (IF x \in Procs THEN {y \in ProcsOf(p) : life[y] = "alive"} ELSE {})
              \in SUBSET Targets
        BY DEF ProcsOf, Targets
      <4>. QED
        BY <4>1, <4>2
    <3>. QED
      BY <3>1 DEF Lost
  <2>. QED
    BY <2>1 DEF TargetVanishes, ScopeReplaced, Meddle, Lost
<1>3. held' \subseteq Targets
  BY DEF TypeOK, WorldTypeOK
<1>. QED
  BY <1>1, <1>2, <1>3 DEF WorldStep

LEMMA SameAges ==
  ASSUME TypeOK, TypeOK', HeldInv, HeldInv', AgeCoversHold,
         UNCHANGED <<held, orphans, heldFor>>,
         \A q \in Pids : leases'[q] = leases[q] \/ leases'[q].age = leases[q].age
  PROVE  AgeCoversHold'
<1>1. \A q \in Pids : leases'[q] = leases[q] => leases'[q].age = leases[q].age
  OBVIOUS
<1>. QED
  BY <1>1, AgeStep

LEMMA AgeInductive ==
  TypeOK /\ TypeOK' /\ IdInv /\ HeldInv /\ HeldInv' /\ AgeCoversHold /\ [Next]_vars
    => AgeCoversHold'
<1> SUFFICES ASSUME TypeOK, TypeOK', IdInv, HeldInv, HeldInv', AgeCoversHold, [Next]_vars
             PROVE  AgeCoversHold'
  OBVIOUS
<1>1. ASSUME NEW t \in Callers, CallerNext(t) PROVE AgeCoversHold'
  <2>1. ASSUME NEW p \in Pids, NEW gen \in Nat, Pin(t, p, gen) PROVE AgeCoversHold'
    <3>1. /\ Becomes(p, leases[p].target, leases[p].recovery, gen, t, FALSE)
          /\ leases'[p].age = leases[p].age
      BY <2>1, PinEffect
    <3>. QED
      BY <2>1, <3>1, SameAges DEF Becomes, Pin
  <2>2. ASSUME NEW p \in Pids, NEW gen \in Nat, ResumeRequest(t, p, gen) PROVE AgeCoversHold'
    BY <2>2, RequestEffect, SameAges DEF Becomes, ResumeRequest, Threads
  <2>3. CASE Finalize(t)
    BY <2>3, FinalizeEffect, SameAges DEF Becomes, Finalize
  <2>4. CASE AcquireFails(t)
    <3>1. UNCHANGED leases /\ (KeepClocks \/ UNCHANGED <<held, orphans, heldFor>>)
      BY <2>4 DEF AcquireFails
    <3>. QED
      BY <3>1, KeptClocks, AgeStep, SameAges
  <2>5. CASE PauseAcquires(t)
    <3>1. PICK p \in Pids, x \in Targets : p = req[t].pid /\ x = current[p]
      BY <2>5, PauseAcquiresEffect
    <3>2. /\ Becomes(p, x, {}, nextGen, Nobody, FALSE) /\ leases'[p].age = StartedAge(p, x)
          /\ pc[t] = "acquiring"
      BY <2>5, <3>1, PauseAcquiresEffect DEF Acquiring
    <3>3. leases[p] # NoLease => leases[p].recovery = {}
      BY <3>1, <3>2 DEF IdInv, LockInv, MayPause, HasLease
    <3>4. leases[p] # NoLease =>
            \/ leases'[p].age = leases[p].age
            \/ \A y \in Owned(leases'[p]) : y \notin Owned(leases[p])
      BY <3>2, <3>3 DEF Becomes, StartedAge, SameScope, Owned, HasLease
    <3>. QED
      BY <2>5, <3>2, <3>4, KeptClocks, AgeStep DEF PauseAcquires, Becomes
  <2>6. CASE PauseSwapFails(t)
    <3>1. PICK p \in Pids : p = req[t].pid
      BY <2>6, PauseSwapFailsEffect
    <3>2. \/ leases' = leases
          \/ /\ leases'[p].age = leases[p].age
             /\ \A q \in Pids \ {p} : leases'[q] = leases[q]
      BY <2>6, <3>1, PauseSwapFailsEffect DEF Becomes
    <3>. QED
      BY <2>6, <3>2, KeptClocks, AgeStep DEF PauseSwapFails
  <2>7. CASE \/ PauseRefused(t) \/ PauseStarts(t) \/ SpawnCheck(t) \/ Spawn(t)
             \/ WriterExits(t) \/ CallbackReturns(t) \/ \E p \in Pids : PauseCall(t, p)
    <3>1. UNCHANGED <<leases, worldVars>>
      BY <2>7 DEF PauseRefused, PauseStarts, SpawnCheck, Spawn, WriterExits, CallbackReturns,
                  PauseCall
    <3>. QED
      BY <3>1, SameAges
  <2>. QED
    BY <1>1, <2>1, <2>2, <2>3, <2>4, <2>5, <2>6, <2>7 DEF CallerNext, Resume
<1>2. ASSUME NEW p \in Pids, Renew(p) PROVE AgeCoversHold'
  BY <1>2, RenewEffect, SameAges DEF Becomes, Renew
<1>3. ASSUME NEW t \in Threads, ReleaseNext(t) PROVE AgeCoversHold'
  <2>1. PICK p \in Pids : p = req[t].pid
    BY IdTyping
  <2>2. CASE GiveUp(t)
    BY <2>1, <2>2, GiveUpEffect, SameAges DEF Becomes, GiveUp
  <2>4. CASE Released(t)
    BY <2>1, <2>4, ReleasedEffect, KeptClocks, AgeStep DEF Released
  <2>5. CASE ReleaseFails(t)
    BY <2>1, <2>5, ReleaseFailsEffect, KeptClocks, AgeStep DEF Becomes, ReleaseFails
  <2>. QED
    BY <1>3, <2>2, <2>4, <2>5 DEF ReleaseNext
<1>4. ASSUME NEW t \in {Watch, Stopper}, SweepNext(t) PROVE AgeCoversHold'
  <2>1. PICK item \in todo[t] :
          \/ ResumeRequest(t, item[1], item[2])
          \/ UNCHANGED <<gateVars, pc, req, attempt, opVars, worldVars>>
    BY <1>4 DEF SweepNext
  <2>2. item[1] \in Pids /\ item[2] \in Nat /\ t \in Threads
    BY DEF TypeOK, ThreadTypeOK, Threads
  <2>3. CASE ResumeRequest(t, item[1], item[2])
    BY <2>2, <2>3, RequestEffect, SameAges DEF Becomes, ResumeRequest
  <2>4. CASE UNCHANGED <<gateVars, pc, req, attempt, opVars, worldVars>>
    BY <2>4, SameAges
  <2>. QED
    BY <2>1, <2>3, <2>4
<1>5. ASSUME \/ WatchScan \/ WatchParks \/ WatchExits
             \/ StopCall \/ StopRound \/ StopConfirmed \/ StopFails \/ UNCHANGED vars
      PROVE  AgeCoversHold'
  <2>1. UNCHANGED <<leases, worldVars>>
    BY <1>5 DEF WatchScan, WatchParks, WatchExits, StopCall, StopRound, StopConfirmed, StopFails,
                vars
  <2>. QED
    BY <2>1, SameAges
<1>6. ASSUME \/ \E p \in Pids : LaunchMoves(p)
             \/ \E x \in Targets : TargetVanishes(x) \/ ScopeReplaced(x) \/ Meddle(x)
      PROVE  AgeCoversHold'
  BY <1>6, WorldClocks, AgeStep
<1>7. ASSUME Tick PROVE AgeCoversHold'
  <2> SUFFICES ASSUME NEW q \in Pids, leases'[q] # NoLease,
                      NEW x \in Owned(leases'[q]), x \in held' \ orphans'
               PROVE  heldFor'[x] <= leases'[q].age
    BY DEF AgeCoversHold, HasLease, Owned
  <2>1. HasLease(q)
    BY <1>7 DEF Tick, HasLease
  <2>2. /\ Owned(leases'[q]) = Owned(leases[q]) /\ leases'[q].age = Up(leases[q].age, Ceiling)
        /\ UNCHANGED <<held, orphans>>
    BY <1>7, <2>1, TickEffect DEF Owned, Tick
  <2>3. heldFor[x] <= leases[q].age /\ x \in Targets
    BY <2>1, <2>2, HoldTyping DEF AgeCoversHold
  <2>4. heldFor'[x] = Up(heldFor[x], Ceiling)
    BY <1>7, <2>2, <2>3 DEF Tick
  <2>5. heldFor[x] \in 0..(Ceiling + 1) /\ leases[q].age \in 0..(Ceiling + 1)
    BY <2>1, <2>3, LeaseTyping DEF TypeOK, WorldTypeOK, Lease
  <2>. QED
    BY <2>2, <2>3, <2>4, <2>5 DEF Up
<1>. QED
  BY <1>1, <1>2, <1>3, <1>4, <1>5, <1>6, <1>7 DEF Next, WatchNext, StopNext, WorldNext

LEMMA InitAge == Init => AgeCoversHold
BY DEF Init, AgeCoversHold, HasLease
-----------------------------------------------------------------------------
(* The theorems                                                            *)

THEOREM HeldCorrect == Spec => []HeldInv
<1>. QED
  BY InitHeldInv, HeldInductive, TypeCorrect, IdCorrect, PTL DEF Spec

(* run_guarded: while a save mutation runs, its lease names it and the     *)
(* plugin has not let the game go, for any number of games, callers,       *)
(* processes and scopes.                                                   *)
THEOREM MutationsHeld == Spec => []MutationHeld
<1>1. TypeOK /\ IdInv /\ HeldInv => MutationHeld
  <2> SUFFICES ASSUME TypeOK, IdInv, HeldInv, NEW t \in Callers, Operating(t) \/ t \in writing
               PROVE  Protects(leases[req[t].pid], t)
    BY DEF MutationHeld
  <2>1. Names(leases[req[t].pid], t)
    BY DEF IdInv, GuardInv, Operating
  <2>2. req[t].pid \in Pids /\ HasLease(req[t].pid) /\ leases[req[t].pid].by # Nobody
    BY <2>1, IdTyping DEF Names, HasLease, Threads
  <2>. QED
    BY <2>1, <2>2 DEF HeldInv, HoldInv, Protects
<1>. QED
  BY <1>1, TypeCorrect, IdCorrect, HeldCorrect, PTL

(* Whatever is held is recorded in the lease that will lift it, unless a   *)
(* clean-up failed before a lease could record it.                         *)
THEOREM HoldsRecorded == Spec => []HoldsAccounted
<1>1. HeldInv => HoldsAccounted
  BY DEF HeldInv
<1>. QED
  BY <1>1, HeldCorrect, PTL

(* The absolute ceiling counts from the first pause: no sequence of pauses,*)
(* renewals and failed releases makes a lease younger than what it holds.  *)
THEOREM AgesCover == Spec => []AgeCoversHold
<1>. QED
  BY InitAge, AgeInductive, TypeCorrect, IdCorrect, HeldCorrect, PTL DEF Spec
=============================================================================
