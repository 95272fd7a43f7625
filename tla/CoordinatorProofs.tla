------------------------- MODULE CoordinatorProofs -------------------------
(***************************************************************************)
(* The invariants of Coordinator, for any number of threads, games, ids    *)
(* and configurations, any number of calls and restarts, and whatever      *)
(* another backend does beside this one (OtherBackend).  Types and shapes  *)
(* come first, then five parts of one inductive invariant, each of which   *)
(* rests on those before it:                                               *)
(*   Holding     who holds the locks and what the status shows;            *)
(*   FileBehind  why the file may differ from the memory;                  *)
(*   OnRecord    what callers are told is saved before they are told;      *)
(*   Current     every copy of the registry, in memory, in the file or in  *)
(*               the hands of a save, is good for its marker;              *)
(*   Remembered  no copy this backend made is older than a backup that was *)
(*               shown.                                                    *)
(***************************************************************************)
EXTENDS Coordinator, TLAPS

Pcs ==
  {"idle", "ensure", "marker", "decide", "match", "lock", "begin", "run", "scan", "apply",
   "finish", "unlock", "record", "save", "write", "target", "answer"}

Registries == [games : GameMaps, ids : IdMaps, marker : Markers, aliases : Markers,
    aliasesMarker : Markers]
KindOrNone == Kinds \cup {None}
Names == Games \cup {None}
Apps == Ids \cup {NoId}
OpOrNone == Ops \cup {None}
Previews == Versions \cup {None}
Lists == (SUBSET Games) \cup {None}
Aliases == Markers \cup {None}
OutcomeOrNone == Outs \cup {None}
FieldOrNone == Fields \cup {None}
SaveOrNone == Saves \cup {None}
Loads == Payloads \cup {None}
Calls ==
  [pc : Pcs, kind : KindOrNone, name : Names, app : Apps, force : BOOLEAN, op : OpOrNone,
   marker : Markers, preview : Previews, backups : Lists, aliases : Aliases,
   outcome : OutcomeOrNone, field : FieldOrNone, saving : SaveOrNone,
   payload : Loads, overtaken : BOOLEAN, made : BOOLEAN, placed : BOOLEAN]

Drifts == {"none", "failed", "overwritten"}

Typed ==
  /\ config \in Versions /\ backed \subseteq Games
  /\ reg \in Registries /\ history \in Histories
  /\ file \in [saved : Payloads, history : Histories]
  /\ opLock \in Threads \cup {None} /\ stateLock \in Threads \cup {None}
  /\ call \in [Threads -> Calls] /\ drift \in Drifts

Early ==
  {"idle", "ensure", "marker", "decide", "match", "lock", "begin", "run", "scan", "apply"}

Shaped(c) ==
  /\ c.pc = "record" => c.field # None
  /\ c.pc = "apply" => c.preview # None /\ c.backups # None
  /\ c.pc = "write" => c.payload \in Payloads
  /\ c.saving # None <=> c.pc \in {"save", "write"}
  /\ c.pc \in {"scan", "apply"} \/ c.saving = "refresh" => c.op = "refresh"
  /\ c.pc = "run" => c.op # "refresh"
  /\ c.pc \in Early \/ c.saving = "refresh" => c.outcome = None
  /\ c.pc \notin {"scan", "apply", "target"} =>
       c.preview = None /\ c.backups = None /\ ~c.overtaken
  /\ c.placed => c.saving = "target" \/ c.pc = "answer"

Holding ==
  /\ StatusTellsHolder
  /\ \A t \in Threads : call[t].pc = "write" <=> stateLock = t

FileBehind ==
  /\ \A t \in Threads : call[t].pc = "write" =>
       call[t].payload = Payload(reg) \/ \E s \in Threads : call[s].pc = "save"
  /\ drift = "none" => file = CacheFile(reg, history) \/ \E s \in Threads : Saving(call[s])

(* A manual call has a game, and a refresh never ends with "same".         *)
Named(c) ==
  /\ c.kind \in Manual => c.name \in Games
  /\ c.op = "refresh" /\ c.pc # "answer" => c.outcome # "same"

(* What is in the history, and in the file too as far as this backend can  *)
(* see to that.                                                            *)
Kept ==
  [g \in Games |->
     history[g] \cap IF drift = "overwritten" THEN history[g] ELSE file.history[g]]

OnRecord ==
  /\ \A r \in reported : r[1] \in Games /\ r[2] \in Kept[r[1]]
  /\ \A t \in Threads :
       /\ Named(call[t])
       /\ Tells(call[t]) =>
            /\ call[t].saving = "history" => call[t].field \in history[call[t].name]
            /\ call[t].pc \in {"target", "answer"} \/ call[t].saving = "target" =>
                 call[t].field \in Kept[call[t].name]

(* registries in memory, in the file, and about to be written *)
Copies ==
  {Payload(reg), file.saved} \cup
    {call[t].payload : t \in {s \in Threads : call[s].pc = "write"}}

(* What a call has read of Ludusavi.                                       *)
Knows(c) ==
  /\ c.marker <= config
  /\ c.preview # None => c.preview <= config
  /\ c.backups # None => c.backups \subseteq backed
  /\ c.pc \in {"scan", "apply"} /\ c.preview # None => c.preview >= c.marker
  /\ c.pc = "apply" /\ c.aliases \notin {None, Unknown} => c.aliases >= c.marker
  /\ c.pc = "apply" /\ c.aliases = None =>
       c.marker # Unknown /\ reg.aliasesMarker = c.marker
  /\ c.pc = "target" /\ c.preview # None => c.preview >= reg.marker \/ c.overtaken

Current ==
  /\ \A r \in Copies : GoodCopy(r)
  /\ reg.aliasesMarker # Unknown => reg.aliases >= reg.aliasesMarker
  /\ \A t \in Threads : Knows(call[t])

(* A call that has made a backup, and how its operation follows its kind.  *)
Works(c) ==
  /\ c.made => c.op = "backup" /\ c.pc \notin Early
  /\ c.pc \notin {"idle", "answer"} => c.kind # None
  /\ c.op \in {None, "refresh"} \/ c.op = OpOf(c.kind)
  /\ c.pc \in {"ensure", "match"} => c.op \in {None, "refresh"}
  /\ c.pc \in {"marker", "decide", "lock", "begin", "run", "finish", "unlock"} =>
      c.op # None
  /\ (c.pc = "record" \/ c.saving = "history") /\ c.outcome \in {"done", "same"} =>
       c.op = OpOf(c.kind)

HasBackup(g) == g \in backed \/ ~NeverLost(g)

(* The game a call operates on was found once, and has a backup after a    *)
(* restore or a backup.                                                    *)
Backs(c) ==
  /\ c.op = "backup" => \E v \in 1..config : c.name \in DOMAIN Tracked[v]
  /\ c.op = "restore" \/ (c.op = "backup" /\ c.outcome \in {"done", "same"}) =>
      HasBackup(c.name)
  /\ c.pc = "target" => HasBackup(c.name)
  /\ c.pc = "target" /\ c.backups # None => c.name \in c.backups \/ ~NeverLost(c.name)

Remembers(r, g) == NeverLost(g) /\ g \in DOMAIN r.games => r.games[g].backup
Placed(c) ==
  /\ c.placed => Remembers(reg, c.name)
  /\ c.placed /\ c.pc = "write" => Remembers(c.payload, c.name)

(* The backups calls have shown, and made.                                 *)
Shown ==
  known \cup
    {call[t].name : t \in {s \in Threads : call[s].pc = "answer" /\ call[s].placed}}
Made == known \cup {call[t].name : t \in {s \in Threads : call[s].made \/ call[s].placed}}

(* The copies that this backend has made.                                  *)
Own ==
  {Payload(reg)} \cup (IF drift = "overwritten" THEN {} ELSE {file.saved}) \cup
    {call[t].payload : t \in {s \in Threads : call[s].pc = "write"}}

Remembered ==
  /\ Made \subseteq backed
  /\ \A g \in Shown, r \in Own : Remembers(r, g)
  /\ \A t \in Threads :
       /\ Works(call[t]) /\ Backs(call[t]) /\ Placed(call[t])
       /\ call[t].pc \in {"scan", "apply"} /\ call[t].backups # None =>
           Made \subseteq call[t].backups

(* What CoordinatorAssumption says, for the provers.                       *)
LEMMA Assumed ==
  /\ None \notin Threads /\ None \notin Games /\ None \notin Nat /\ None \notin Kinds
      /\ None \notin Ops /\ None \notin Fields /\ None \notin Outs /\ None \notin Saves
  /\ NoId \notin Ids /\ Len(Tracked) \in Nat /\ Len(Tracked) > 0
  /\ \A v \in Versions : DOMAIN Tracked[v] \subseteq Games
      /\ \A g \in DOMAIN Tracked[v] : Tracked[v][g] \in Ids \cup {NoId}
  /\ Versions \subseteq Nat
BY CoordinatorAssumption DEF Versions

(* The maps of the registry, told by domain and range.                     *)
LEMMA GameMapsAre ==
  ASSUME NEW f PROVE f \in GameMaps <=> f \in [DOMAIN f -> Entries]
         /\ DOMAIN f \subseteq Games
BY DEF GameMaps

(* The same of the id index.                                               *)
LEMMA IdMapsAre ==
  ASSUME NEW f PROVE f \in IdMaps <=> f \in [DOMAIN f -> Games] /\ DOMAIN f \subseteq Ids
BY DEF IdMaps

(* The maps of an empty registry.                                          *)
LEMMA EmptyMaps == << >> \in GameMaps /\ << >> \in IdMaps
<1>1. << >> \in [{} -> Entries] /\ << >> \in [{} -> Games]
  OBVIOUS
<1>. QED BY <1>1 DEF GameMaps, IdMaps

(* The call of an idle thread has its type and shape.                      *)
LEMMA IdleTyped == Idle \in Calls /\ Shaped(Idle)
<1>1. "idle" \in Pcs /\ None \in KindOrNone /\ None \in Names /\ NoId \in Apps
      /\ None \in OpOrNone
      /\ Unknown \in Markers /\ None \in Previews /\ None \in Lists /\ None \in Aliases
      /\ None \in OutcomeOrNone /\ None \in FieldOrNone /\ None \in SaveOrNone
          /\ None \in Loads
  BY DEF Pcs, KindOrNone, Names, Apps, OpOrNone, Markers, Previews, Lists, Aliases,
      OutcomeOrNone, FieldOrNone, SaveOrNone, Loads
<1>2. Idle \in Calls
  BY <1>1 DEF Idle, Calls
<1>3. Shaped(Idle)
  BY Assumed DEF Idle, Shaped, Early, Saves
<1>. QED BY <1>2, <1>3

WellFormed(c) == c \in Calls /\ Shaped(c)

(* The fields of an idle call that proofs look at.                         *)
LEMMA IdleIs ==
  /\ Idle.pc = "idle" /\ Idle.kind = None /\ Idle.name = None /\ Idle.op = None
      /\ Idle.saving = None
  /\ Idle.preview = None /\ Idle.backups = None /\ ~Idle.overtaken /\ ~Idle.made
      /\ ~Idle.placed
  /\ Idle.outcome = None /\ Idle.marker = Unknown /\ Idle.aliases = None
BY DEF Idle

(* The kinds, one by one.                                                  *)
LEMMA KindsAre ==
  Kinds = {"force_backup", "force_restore", "restore_on_start", "keep_local", "check_start",
                           "check_exit", "backup_on_exit", "refresh_games", "list_backups"}
BY DEF Kinds, Manual, Lifecycle, Gated

(* A call that ends is well formed.                                        *)
LEMMA EndedTyped ==
  ASSUME NEW c \in Calls PROVE WellFormed(Ended(c))
<1>. DEFINE e == [Idle EXCEPT !.pc = "answer", !.kind = c.kind, !.name = c.name,
     !.field = c.field,
                    !.outcome = c.outcome, !.placed = c.placed]
<1>1. e \in Calls
  BY IdleTyped DEF Calls, Pcs
<1>2. /\ e.pc = "answer" /\ e.saving = None /\ e.preview = None /\ e.backups = None
         /\ ~e.overtaken
  BY DEF Idle
<1>3. Shaped(e)
  BY <1>2, Assumed DEF Shaped, Early, Saves
<1>. QED BY <1>1, <1>3, IdleTyped DEF Ended, WellFormed

(* Forgetting a refresh keeps the type.                                    *)
LEMMA RefreshedTyped ==
  ASSUME NEW c \in Calls PROVE Refreshed(c) \in Calls
BY DEF Refreshed, Calls, Markers, Unknown, Previews, Lists, Aliases

(* A call goes on from a save well formed, saved or not.                   *)
LEMMA AfterSaveTyped ==
  ASSUME NEW c \in Calls, NEW ok \in BOOLEAN, Shaped(c), c.pc \in {"save", "write"}
  PROVE  WellFormed(AfterSave(c, ok))
<1>. DEFINE o == CASE c.saving = "refresh" -> IF ok THEN "done" ELSE "failed"
                   [] c.saving = "history" -> IF ok \/ c.kind \notin Manual
                                              THEN c.outcome ELSE "failed"
                   [] OTHER -> c.outcome
             n == CASE c.saving = "refresh" -> "finish"
                [] c.saving = "history" -> IF Retargets(c.kind, o)
                                           THEN "target" ELSE "answer"
                [] OTHER -> "answer"
             d == [c EXCEPT !.pc = n, !.outcome = o, !.saving = None,
                     !.placed = c.placed /\ ok, !.payload = None]
<1>1. n \in {"finish", "target", "answer"} /\ o \in OutcomeOrNone
  BY DEF Outs, Calls, OutcomeOrNone
<1>2. d \in Calls
  BY <1>1 DEF Calls, Pcs, SaveOrNone, Loads
<1>3. d.pc = n /\ d.saving = None /\ d.op = c.op /\ d.outcome = o
      /\ d.placed = (c.placed /\ ok)
      /\ d.preview = c.preview /\ d.backups = c.backups /\ d.overtaken = c.overtaken
  BY DEF Calls
<1>4. n # "answer" => ~c.placed
  BY Assumed DEF Shaped, Saves
<1>5. Shaped(d)
  BY <1>1, <1>3, <1>4, Assumed DEF Shaped, Early, Saves
<1>. HIDE DEF n, o, d
<1>6. WellFormed(d) /\ WellFormed(Ended(d))
  BY <1>2, <1>5, EndedTyped DEF WellFormed
<1>. QED BY <1>6 DEF AfterSave, n, o, d

(* The backend starts well typed.                                          *)
LEMMA InitTyped == Init => Typed /\ \A t \in Threads : Shaped(call[t])
<1>. SUFFICES ASSUME Init PROVE Typed /\ \A t \in Threads : Shaped(call[t])
  OBVIOUS
<1>1. Unknown \in Markers /\ 1 \in Versions
  BY Assumed DEF Markers, Versions
<1>2. EmptyRegistry \in Registries /\ Payload(EmptyRegistry) \in Payloads
  BY <1>1, EmptyMaps DEF EmptyRegistry, Payload, Registries, Payloads
<1>3. NoHistory \in Histories
  BY DEF NoHistory, Histories
<1>4. call \in [Threads -> Calls] /\ \A t \in Threads : Shaped(call[t])
  BY IdleTyped DEF Init
<1>5. file \in [saved : Payloads, history : Histories]
  BY <1>2, <1>3 DEF Init, CacheFile
<1>6. backed \subseteq Games
  BY CoordinatorAssumption DEF Init
<1>. QED BY <1>1, <1>2, <1>3, <1>4, <1>5, <1>6 DEF Init, Typed, Drifts

Typing == Typed /\ \A t \in Threads : Shaped(call[t])

(* A step of one thread. *)
Step(t) == call' = [call EXCEPT ![t] = call'[t]] /\ WellFormed(call'[t])

(* Every step of a thread but ApplyRefresh changes its own call only,      *)
(* and leaves it well formed.                                              *)
LEMMA OwnSteps ==
  ASSUME Typing, NEW t \in Threads,
         StartRefresh(t) \/ StartHandler(t) \/ Operate(t), ~ApplyRefresh(t)
  PROVE  Step(t)
<1>. DEFINE c == call[t]
<1>0. WellFormed(c)
  BY DEF Typing, Typed, WellFormed
<1>f. ASSUME NEW d, WellFormed(d), call' = [call EXCEPT ![t] = d]
      PROVE  Step(t)
  BY <1>f DEF Step, Typing, Typed
<1>e. ASSUME End(t) PROVE Step(t)
  BY <1>e, <1>f, <1>0, EndedTyped DEF End, WellFormed
<1>1. CASE StartRefresh(t)
  <2>1. PICK force \in BOOLEAN :
       call' = [call EXCEPT ![t] = [Idle EXCEPT !.pc = "marker", !.kind = "refresh_games",
                                                !.force = force, !.op = "refresh"]]
    BY <1>1 DEF StartRefresh
  <2>2. WellFormed([Idle EXCEPT !.pc = "marker", !.kind = "refresh_games",
        !.force = force, !.op = "refresh"])
    <3>. DEFINE d == [Idle EXCEPT !.pc = "marker", !.kind = "refresh_games",
             !.force = force, !.op = "refresh"]
    <3>0. "marker" \in Pcs /\ "refresh_games" \in KindOrNone /\ "refresh" \in OpOrNone
      BY KindsAre DEF Pcs, Ops, OpOrNone, KindOrNone
    <3>1. d \in Calls
      BY <3>0, IdleTyped DEF Calls
    <3>2. /\ d.pc = "marker" /\ d.op = "refresh" /\ d.saving = None /\ d.outcome = None
          /\ d.preview = None /\ d.backups = None /\ ~d.overtaken /\ ~d.placed
      BY IdleTyped, IdleIs DEF Calls
    <3>. HIDE DEF d
    <3>3. Shaped(d)
      BY <3>2, Assumed DEF Shaped, Early, Saves
    <3>4. WellFormed(d)
      BY <3>1, <3>3 DEF WellFormed
    <3>. QED BY <3>4 DEF d
  <2>. QED BY <2>1, <2>2, <1>f
<1>2. CASE StartHandler(t)
  <2>1. PICK k \in Kinds, g \in Games, a \in Apps :
         call' = [call EXCEPT ![t] = [Idle EXCEPT !.pc = "ensure", !.kind = k, !.name = g,
             !.app = a]]
    <3>1. PICK k \in Used \ {"refresh_games"}, g \in Games : 
            \E a \in IF k \in Lifecycle THEN AppIds ELSE {NoId} :
              call' = [call EXCEPT ![t] = [Idle EXCEPT !.pc = "ensure", !.kind = k,
                  !.name = g, !.app = a]]
      BY <1>2 DEF StartHandler
    <3>. QED BY <3>1, CoordinatorAssumption DEF Apps
  <2>2. WellFormed([Idle EXCEPT !.pc = "ensure", !.kind = k, !.name = g, !.app = a])
    BY IdleTyped, IdleIs, Assumed DEF WellFormed, Calls, Shaped, Early, Saves, Pcs, Names,
        KindOrNone
  <2>. QED BY <2>1, <2>2, <1>f
<1>3. CASE EnsureRegistry(t)
  <2>1. WellFormed([c EXCEPT !.pc = "marker", !.op = "refresh"])
        /\ WellFormed([c EXCEPT !.pc = "match"])
    BY <1>0, <1>3, Assumed DEF EnsureRegistry, At, WellFormed, Calls, Shaped, Early,
        Saves, Pcs, Ops, OpOrNone
  <2>2. call' = [call EXCEPT ![t] = [c EXCEPT !.pc = "marker", !.op = "refresh"]]
        \/ call' = [call EXCEPT ![t] = [c EXCEPT !.pc = "match"]]
    BY <1>3 DEF EnsureRegistry, Goto, Typing, Typed
  <2>. QED BY <2>1, <2>2, <1>f
<1>4. CASE ReadMarker(t)
  <2>1. PICK m \in {config, Unknown}, p \in {"decide", "lock"} :
           call' = [call EXCEPT ![t] = [c EXCEPT !.marker = m, !.pc = p]]
    BY <1>4 DEF ReadMarker, Typing, Typed
  <2>2. WellFormed([c EXCEPT !.marker = m, !.pc = p])
    BY <1>0, <1>4, Assumed DEF ReadMarker, At, WellFormed, Calls, Shaped, Early, Saves,
        Pcs, Markers, Typing, Typed
  <2>. QED BY <2>1, <2>2, <1>f
<1>5. CASE Decide(t)
  <2>1. WellFormed([c EXCEPT !.pc = "lock"])
    BY <1>0, <1>5, Assumed DEF Decide, At, WellFormed, Calls, Shaped, Early, Saves, Pcs
  <2>. QED BY <1>5, <1>e, <1>f, <2>1 DEF Decide, Goto
<1>6. CASE TryLock(t)
  <2>1. WellFormed([c EXCEPT !.pc = "begin"])
    BY <1>0, <1>6, Assumed DEF TryLock, At, WellFormed, Calls, Shaped, Early, Saves, Pcs
  <2>. QED BY <1>6, <1>f, <2>1 DEF TryLock, Goto
<1>7. CASE Locked(t)
  BY <1>7, <1>e DEF Locked
<1>8. CASE Begin(t)
  <2>1. WellFormed([c EXCEPT !.pc = IF c.op = "refresh" THEN "scan" ELSE "run"])
    BY <1>0, <1>8, Assumed DEF Begin, At, WellFormed, Calls, Shaped, Early, Saves, Pcs
  <2>. QED BY <1>8, <1>f, <2>1 DEF Begin, Goto
<1>9. CASE Run(t)
  <2>1. PICK o \in Outs, b \in BOOLEAN :
          call' = [call EXCEPT ![t] = [c EXCEPT !.outcome = o, !.pc = "finish", !.made = b]]
    <3>1. Outcomes(c) \subseteq Outs
      BY DEF Outcomes, Outs
    <3>2. PICK o \in Outs, written \in {TRUE, FALSE} :
             call' = [call EXCEPT ![t].outcome = o, ![t].pc = "finish",
                 ![t].made = written /\ o = "done"]
      BY <3>1, <1>9 DEF Run
    <3>. QED BY <3>2 DEF Typing, Typed
  <2>2. WellFormed([c EXCEPT !.outcome = o, !.pc = "finish", !.made = b])
    BY <1>0, <1>9, Assumed DEF Run, At, WellFormed, Calls, Shaped, Early, Saves, Pcs,
        OutcomeOrNone
  <2>. QED BY <2>1, <2>2, <1>f
<1>10. CASE Finish(t)
  <2>1. WellFormed([c EXCEPT !.pc = "unlock"])
    BY <1>0, <1>10, Assumed DEF Finish, At, WellFormed, Calls, Shaped, Early, Saves, Pcs
  <2>. QED BY <1>10, <1>f, <2>1 DEF Finish, Goto
<1>11. CASE Unlock(t)
  <2>1. ASSUME NEW f \in FieldOrNone, RecordOrEnd(t, f) PROVE Step(t)
    <3>1. CASE f = None
      BY <3>1, <2>1, <1>e DEF RecordOrEnd
    <3>2. CASE f # None
      <4>1. WellFormed([c EXCEPT !.field = f, !.pc = "record"])
        BY <3>2, <1>0, <1>11, Assumed DEF Unlock, At, WellFormed, Calls, Shaped, Early,
            Saves, Pcs
      <4>2. call' = [call EXCEPT ![t] = [c EXCEPT !.field = f, !.pc = "record"]]
        BY <3>2, <2>1 DEF RecordOrEnd, Typing, Typed
      <4>. QED BY <4>1, <4>2, <1>f
    <3>. QED BY <3>1, <3>2
  <2>2. ASSUME call' = [call EXCEPT ![t].pc = "match", ![t].outcome = None] PROVE Step(t)
    <3>1. WellFormed([c EXCEPT !.pc = "match", !.outcome = None])
      BY <1>0, <1>11, Assumed DEF Unlock, At, WellFormed, Calls, Shaped, Early, Saves,
          Pcs, OutcomeOrNone
    <3>2. call' = [call EXCEPT ![t] = [c EXCEPT !.pc = "match", !.outcome = None]]
      BY <2>2 DEF Typing, Typed
    <3>. QED BY <3>1, <3>2, <1>f
  <2>3. RecordsUnmatched(c.kind, c.outcome) \in FieldOrNone /\ Records(c.kind,
        c.outcome) \subseteq FieldOrNone
    BY DEF RecordsUnmatched, Records, Fields, FieldOrNone
  <2>. QED BY <1>11, <1>e, <2>1, <2>2, <2>3 DEF Unlock
<1>12. CASE ScanPreview(t)
  <2>1. WellFormed([c EXCEPT !.preview = config])
    BY <1>0, <1>12, Assumed DEF ScanPreview, Scanning, WellFormed, Calls, Shaped, Early,
        Saves, Pcs, Previews, Typing, Typed
  <2>. QED BY <1>12, <1>f, <2>1 DEF ScanPreview
<1>13. CASE ScanBackups(t)
  <2>1. WellFormed([c EXCEPT !.backups = backed])
    BY <1>0, <1>13, Assumed DEF ScanBackups, Scanning, WellFormed, Calls, Shaped, Early,
        Saves, Pcs, Lists, Typing, Typed
  <2>. QED BY <1>13, <1>f, <2>1 DEF ScanBackups
<1>14. CASE ScanFails(t)
  <2>1. ASSUME At(t, "scan"), NEW o \in {"failed", "cancelled"}
        PROVE  WellFormed([Refreshed(c) EXCEPT !.outcome = o, !.pc = "finish"])
    <3>1. /\ Refreshed(c) \in Calls /\ Refreshed(c).saving = c.saving
             /\ Refreshed(c).preview = None
          /\ Refreshed(c).backups = None /\ ~Refreshed(c).overtaken
              /\ Refreshed(c).placed = c.placed
      BY <1>0, RefreshedTyped DEF WellFormed, Calls, Refreshed
    <3>. DEFINE d == [Refreshed(c) EXCEPT !.outcome = o, !.pc = "finish"]
    <3>2. c.saving = None /\ ~c.placed
      BY <1>0, <2>1, Assumed DEF At, WellFormed, Shaped, Saves
    <3>. HIDE DEF c
    <3>3. d \in Calls
      BY <3>1 DEF Calls, Pcs, OutcomeOrNone, Outs
    <3>4. /\ d.pc = "finish" /\ d.saving = None /\ d.preview = None /\ d.backups = None
          /\ ~d.overtaken /\ ~d.placed
      BY <3>1, <3>2 DEF Calls
    <3>. HIDE DEF d
    <3>5. Shaped(d)
      BY <3>4, Assumed DEF Shaped, Early, Saves
    <3>6. WellFormed(d)
      BY <3>3, <3>5 DEF WellFormed
    <3>. QED BY <3>6 DEF d
  <2>. QED BY <1>14, <1>e, <1>f, <2>1 DEF ScanFails
<1>15. CASE LoadAliases(t)
  <2>1. PICK a \in Aliases : call' = [call EXCEPT ![t] = [c EXCEPT !.aliases = a,
        !.pc = "apply"]]
    BY <1>15 DEF LoadAliases, Typing, Typed, Aliases, Markers
  <2>2. WellFormed([c EXCEPT !.aliases = a, !.pc = "apply"])
    <3>. DEFINE d == [c EXCEPT !.aliases = a, !.pc = "apply"]
    <3>1. c \in Calls /\ Shaped(c) /\ c.pc = "scan" /\ None \notin {c.preview, c.backups}
      BY <1>0, <1>15 DEF LoadAliases, Scanned, At, WellFormed
    <3>. HIDE DEF c
    <3>2. d \in Calls
      BY <3>1 DEF Calls, Pcs
    <3>3. /\ d.pc = "apply" /\ d.op = c.op /\ d.saving = c.saving /\ d.outcome = c.outcome
          /\ d.preview = c.preview /\ d.backups = c.backups /\ d.placed = c.placed
      BY <3>1 DEF Calls
    <3>. HIDE DEF d
    <3>4. Shaped(d)
      BY <3>1, <3>3, Assumed DEF Shaped, Early, Saves
    <3>5. WellFormed(d)
      BY <3>2, <3>4 DEF WellFormed
    <3>. QED BY <3>5 DEF d, c
  <2>. QED BY <2>1, <2>2, <1>f
<1>16. CASE ApplyTargeted(t)
  <2>1. WellFormed([Refreshed(c) EXCEPT !.pc = "save", !.saving = "target",
        !.placed = c.made])
    <3>1. /\ Refreshed(c) \in Calls /\ Refreshed(c).preview = None /\ Refreshed(c).op = c.op
          /\ Refreshed(c).backups = None /\ ~Refreshed(c).overtaken /\ c.made \in BOOLEAN
      BY <1>0, RefreshedTyped DEF WellFormed, Calls, Refreshed
    <3>. DEFINE d == [Refreshed(c) EXCEPT !.pc = "save", !.saving = "target",
             !.placed = c.made]
    <3>. HIDE DEF c
    <3>2. d \in Calls
      BY <3>1 DEF Calls, Pcs, Saves, SaveOrNone
    <3>3. /\ d.pc = "save" /\ d.saving = "target" /\ d.preview = None /\ d.backups = None
          /\ ~d.overtaken
      BY <3>1 DEF Calls
    <3>. HIDE DEF d
    <3>4. Shaped(d)
      BY <3>3, Assumed DEF Shaped, Early, Saves
    <3>5. WellFormed(d)
      BY <3>2, <3>4 DEF WellFormed
    <3>. QED BY <3>5 DEF d
  <2>. QED BY <1>16, <1>e, <1>f, <2>1 DEF ApplyTargeted
<1>17. CASE Match(t)
  <2>. DEFINE g == MatchingGame(c)
              m == [Refreshed(c) EXCEPT !.name = g, !.app = NoId]
  <2>1. g \in Names
    BY <1>0 DEF MatchingGame, ById, Typing, Typed, Registries, IdMaps, GameMaps, Names,
        WellFormed, Calls
  <2>2. /\ Refreshed(c) \in Calls /\ Refreshed(c).preview = None /\ Refreshed(c).op = c.op
        /\ Refreshed(c).backups = None /\ ~Refreshed(c).overtaken
            /\ Refreshed(c).saving = c.saving
        /\ Refreshed(c).placed = c.placed /\ Refreshed(c).outcome = c.outcome
    BY <1>0, RefreshedTyped DEF WellFormed, Calls, Refreshed
  <2>3. /\ m \in Calls /\ m.preview = None /\ m.backups = None /\ ~m.overtaken
           /\ m.saving = c.saving
        /\ m.placed = c.placed /\ m.outcome = c.outcome
    BY <2>1, <2>2 DEF Calls, Apps
  <2>. HIDE DEF m
  <2>m. Shaped(c) /\ c.pc = "match"
    BY <1>0, <1>17 DEF Match, At, WellFormed
  <2>c. c.saving = None /\ ~c.placed /\ c.outcome = None
    BY <2>m, Assumed DEF Shaped, Early, Saves
  <2>4. WellFormed([m EXCEPT !.field = "last_skip", !.pc = "record"])
    <3>. DEFINE d == [m EXCEPT !.field = "last_skip", !.pc = "record"]
    <3>1. d \in Calls
      BY <2>3 DEF Calls, Pcs, Fields, FieldOrNone
    <3>2. /\ d.pc = "record" /\ d.field = "last_skip" /\ d.saving = None
          /\ d.preview = None /\ d.backups = None /\ ~d.overtaken /\ ~d.placed
      BY <2>3, <2>c DEF Calls
    <3>. HIDE DEF d
    <3>3. Shaped(d)
      BY <3>2, Assumed DEF Shaped, Early, Fields, Saves
    <3>4. WellFormed(d)
      BY <3>1, <3>3 DEF WellFormed
    <3>. QED BY <3>4 DEF d
  <2>5. OpOf(c.kind) \in OpOrNone
    BY <1>0, KindsAre DEF OpOf, Ops, OpOrNone, Restores, Backups, KindOrNone, WellFormed,
        Calls
  <2>6. WellFormed([m EXCEPT !.op = OpOf(c.kind), !.pc = "lock"])
    <3>. DEFINE d == [m EXCEPT !.op = OpOf(c.kind), !.pc = "lock"]
    <3>1. d \in Calls
      BY <2>3, <2>5 DEF Calls, Pcs
    <3>2. /\ d.pc = "lock" /\ d.saving = None /\ d.outcome = None
          /\ d.preview = None /\ d.backups = None /\ ~d.overtaken /\ ~d.placed
      BY <2>3, <2>c DEF Calls
    <3>. HIDE DEF d
    <3>3. Shaped(d)
      BY <3>2, Assumed DEF Shaped, Early, Saves
    <3>4. WellFormed(d)
      BY <3>1, <3>3 DEF WellFormed
    <3>. QED BY <3>4 DEF d
  <2>. QED BY <1>17, <1>e, <1>f, <2>4, <2>6 DEF Match, m
<1>18. CASE Record(t)
  <2>1. WellFormed([c EXCEPT !.pc = "save", !.saving = "history"])
    BY <1>0, <1>18, Assumed DEF Record, At, WellFormed, Calls, Shaped, Early, Saves,
        SaveOrNone, Pcs
  <2>2. call' = [call EXCEPT ![t] = [c EXCEPT !.pc = "save", !.saving = "history"]]
    BY <1>18 DEF Record, Typing, Typed
  <2>. QED BY <2>1, <2>2, <1>f
<1>19. CASE LockState(t)
  <2>1. Payload(reg) \in Payloads
    BY DEF Payload, Typing, Typed, Payloads, Registries
  <2>2. WellFormed([c EXCEPT !.payload = Payload(reg), !.pc = "write"])
    BY <2>1, <1>0, <1>19, Assumed DEF LockState, At, WellFormed, Calls, Shaped, Early,
        Saves, Loads, Pcs
  <2>3. call' = [call EXCEPT ![t] = [c EXCEPT !.payload = Payload(reg), !.pc = "write"]]
    BY <1>19 DEF LockState, Typing, Typed
  <2>. QED BY <2>2, <2>3, <1>f
<1>20. CASE Write(t)
  BY <1>0, <1>20, <1>f, AfterSaveTyped DEF Write, At, WellFormed
<1>21. CASE SaveFails(t)
  BY <1>0, <1>21, <1>f, AfterSaveTyped DEF SaveFails, At, WellFormed
<1>22. CASE Answer(t)
  BY <1>22, <1>f, IdleTyped DEF Answer, WellFormed
<1>. QED BY <1>1, <1>2, <1>3, <1>4, <1>5, <1>6, <1>7, <1>8, <1>9, <1>10, <1>11, <1>12,
            <1>13, <1>14,
            <1>15, <1>16, <1>17, <1>18, <1>19, <1>20, <1>21, <1>22 DEF Operate

(* A result is recorded in a field of the history, or not at all.          *)
LEMMA RecordsTyped ==
  ASSUME NEW k, NEW o PROVE RecordsUnmatched(k, o) \in FieldOrNone /\ Records(k,
         o) \subseteq FieldOrNone
BY DEF RecordsUnmatched, Records, Fields, FieldOrNone

(* What is left of a call that ended: what it tells its caller.            *)
LEMMA EndedIs ==
  ASSUME NEW c \in Calls
  PROVE  /\ Ended(c).pc \in {"idle", "answer"} /\ Ended(c).saving = None
            /\ Ended(c).made = FALSE
         /\ Ended(c).preview = None /\ Ended(c).backups = None /\ Ended(c).op = None
         /\ Ended(c).marker = Unknown /\ Ended(c).aliases = None
             /\ Ended(c).outcome \in {None, c.outcome}
         /\ (Tells(Ended(c)) \/ Ended(c).placed) => 
              /\ Ended(c).pc = "answer" /\ Ended(c).name = c.name
                  /\ Ended(c).field = c.field
         /\ Ended(c).pc = "answer" => Ended(c).outcome = c.outcome
         /\ Ended(c).pc = "idle" => Ended(c).outcome = None
         /\ Tells(Ended(c)) => Tells(c)
         /\ Ended(c).placed => c.placed
         /\ Ended(c).kind # None => Ended(c).kind = c.kind /\ Ended(c).name = c.name
<1>1. CASE Tells(c) \/ c.placed
  <2>1. Ended(c) = [Idle EXCEPT !.pc = "answer", !.kind = c.kind, !.name = c.name,
        !.field = c.field,
                    !.outcome = c.outcome, !.placed = c.placed]
    BY <1>1 DEF Ended
  <2>. QED BY <2>1 DEF Idle, Tells
<1>2. CASE ~(Tells(c) \/ c.placed)
  <2>1. Ended(c) = Idle
    BY <1>2 DEF Ended
  <2>. QED BY <2>1, IdleIs, Assumed DEF Tells, Outs
<1>. QED BY <1>1, <1>2

(* What forgetting a refresh leaves alone.                                 *)
LEMMA RefreshedIs ==
  ASSUME NEW c \in Calls
  PROVE  /\ Refreshed(c) \in Calls
         /\ Refreshed(c).marker = Unknown /\ Refreshed(c).preview = None
             /\ Refreshed(c).backups = None
         /\ Refreshed(c).aliases = None /\ ~Refreshed(c).overtaken
         /\ Refreshed(c).pc = c.pc /\ Refreshed(c).op = c.op
             /\ Refreshed(c).saving = c.saving
         /\ Refreshed(c).name = c.name /\ Refreshed(c).kind = c.kind
             /\ Refreshed(c).outcome = c.outcome
         /\ Refreshed(c).field = c.field /\ Refreshed(c).made = c.made
             /\ Refreshed(c).placed = c.placed
         /\ Refreshed(c).payload = c.payload
BY RefreshedTyped DEF Refreshed, Calls

(* A step of one thread keeps every call well formed.                      *)
LEMMA StepKeepsCalls ==
  ASSUME Typing, NEW t \in Threads, Step(t)
  PROVE  call' \in [Threads -> Calls] /\ \A s \in Threads : Shaped(call'[s])
BY DEF Step, WellFormed, Typing, Typed

(* The registry read of one configuration is well typed, and its ids lead  *)
(* to games with that id.                                                  *)
LEMMA TrackedMaps ==
  ASSUME NEW v \in Versions, NEW backups \in SUBSET Games, NEW late \in BOOLEAN
  PROVE  /\ [g \in Listed(v) |-> [backup |-> g \in backups, from |-> v,
            late |-> late]] \in GameMaps
         /\ IdsOf(v) \in IdMaps
         /\ \A i \in DOMAIN IdsOf(v) : IdsOf(v)[i] \in Listed(v)
             /\ Tracked[v][IdsOf(v)[i]] = i
<1>1. Listed(v) \subseteq Games
      /\ \A g \in Listed(v) : Tracked[v][g] \in Ids \cup {NoId}
  BY Assumed DEF Listed
<1>2. [g \in Listed(v) |-> [backup |-> g \in backups, from |-> v,
      late |-> late]] \in [Listed(v) -> Entries]
  BY DEF Entries
<1>. DEFINE S == {Tracked[v][g] : g \in Listed(v)} \ {NoId}
<1>3. \A i \in S : \E g \in Listed(v) : Tracked[v][g] = i
  OBVIOUS
<1>4. \A i \in S : LET g == CHOOSE g \in Listed(v) : Tracked[v][g] = i
                   IN  g \in Listed(v) /\ Tracked[v][g] = i
  BY <1>3
<1>5. IdsOf(v) \in [S -> Games] /\ S \subseteq Ids
  BY <1>1, <1>4 DEF IdsOf
<1>6. \A i \in S : IdsOf(v)[i] = CHOOSE g \in Listed(v) : Tracked[v][g] = i
  BY DEF IdsOf
<1>. HIDE DEF S
<1>7. IdsOf(v) \in IdMaps
  BY <1>5 DEF IdMaps
<1>8. [g \in Listed(v) |-> [backup |-> g \in backups, from |-> v,
      late |-> late]] \in GameMaps
  BY <1>1, <1>2 DEF GameMaps
<1>9. DOMAIN IdsOf(v) = S
  BY <1>5
<1>. QED BY <1>4, <1>6, <1>7, <1>8, <1>9

(* A full refresh keeps registry and calls well typed.                     *)
LEMMA RefreshTypes ==
  ASSUME Typing, NEW t \in Threads, ApplyRefresh(t)
  PROVE  /\ reg' \in Registries
         /\ WellFormed(call'[t]) /\ \A s \in Threads : WellFormed(call'[s])
         /\ call' \in [Threads -> Calls]
<1>. DEFINE c == call[t]
<1>1. WellFormed(c) /\ c.pc = "apply" /\ \A s \in Threads : WellFormed(call[s])
  BY DEF Typing, Typed, ApplyRefresh, At, WellFormed
<1>2. c.preview \in Versions /\ c.backups \in SUBSET Games /\ c.overtaken \in BOOLEAN
      /\ c.marker \in Markers
      /\ c.aliases \in Aliases
  BY <1>1 DEF WellFormed, Shaped, Calls, Previews, Lists
<1>3. [g \in Listed(c.preview) |-> Entry(c, g)] \in GameMaps
      /\ IdsOf(c.preview) \in IdMaps
  BY <1>2, TrackedMaps DEF Entry
<1>4. AliasMarker(c) \in Markers
      /\ (IF c.aliases = None THEN reg.aliases ELSE c.aliases) \in Markers
  BY <1>2 DEF AliasMarker, Aliases, Typing, Typed, Registries, Markers
<1>5. reg' \in Registries
  BY <1>2, <1>3, <1>4 DEF ApplyRefresh, RefreshedRegistry, Replaced, Registries
<1>6. WellFormed([Refreshed(c) EXCEPT !.pc = "save", !.saving = "refresh"])
  <2>1. /\ Refreshed(c) \in Calls /\ Refreshed(c).preview = None /\ Refreshed(c).op = c.op
        /\ Refreshed(c).backups = None /\ ~Refreshed(c).overtaken
            /\ Refreshed(c).outcome = c.outcome
        /\ Refreshed(c).placed = c.placed
    BY <1>1, RefreshedTyped DEF WellFormed, Calls, Refreshed
  <2>. HIDE DEF c
  <2>. QED BY <1>1, <2>1, Assumed DEF WellFormed, Calls, Shaped, Early, Saves, SaveOrNone,
              Pcs
<1>7. ASSUME NEW s \in Threads
      PROVE WellFormed([call[s] EXCEPT !.overtaken = Overtaken(call[s])])
  BY <1>1, Assumed DEF WellFormed, Calls, Shaped, Early, Saves, Overtaken
<1>8. call' \in [Threads -> Calls] /\ \A s \in Threads : WellFormed(call'[s])
  BY <1>6, <1>7 DEF ApplyRefresh, WellFormed
<1>. QED BY <1>5, <1>8

(* A targeted refresh ends the call, or adds its game's entry to the       *)
(* registry.                                                               *)
LEMMA TargetTypes ==
  ASSUME Typing, NEW t \in Threads, ApplyTargeted(t)
  PROVE  /\ reg' \in Registries
         /\ End(t) => reg' = reg
         /\ ~End(t) =>
              LET c == call[t] IN
              /\ c.pc = "target" /\ c.preview \in Versions /\ c.backups \in SUBSET Games
              /\ c.name \in DOMAIN Tracked[c.preview]
              /\ reg' = [reg EXCEPT
                   !.games = [x \in DOMAIN reg.games \cup {c.name} |->
                                IF x = c.name THEN Entry(c, c.name) ELSE reg.games[x]],
                   !.ids = IdsWith(c)]
              /\ call'[t] = [Refreshed(c) EXCEPT !.pc = "save", !.saving = "target",
                  !.placed = c.made]
<1>. DEFINE c == call[t]  g == c.name
<1>1. c \in Calls /\ c.pc = "target" /\ c.preview \in Versions /\ c.backups \in SUBSET Games
  BY DEF Typing, Typed, ApplyTargeted, Scanned, At, Calls, Previews, Lists
<1>2. CASE End(t)
  <2>1. call'[t].pc # "save"
    BY <1>1, <1>2, EndedTyped, EndedIs DEF End, Typing, Typed
  <2>2. [Refreshed(c) EXCEPT !.pc = "save", !.saving = "target",
        !.placed = c.made].pc = "save"
    BY <1>1, RefreshedTyped DEF Calls
  <2>3. reg' = reg
    BY <1>1, <2>1, <2>2 DEF ApplyTargeted, Typing, Typed
  <2>. QED BY <1>2, <2>3 DEF Typing, Typed
<1>3. CASE ~End(t)
  <2>. DEFINE games == [x \in DOMAIN reg.games \cup {g} |-> IF x = g THEN Entry(c,
       g) ELSE reg.games[x]]
  <2>1. /\ g \in DOMAIN Tracked[c.preview]
        /\ reg' = [reg EXCEPT !.games = games, !.ids = IdsWith(c)]
        /\ call'[t] = [Refreshed(c) EXCEPT !.pc = "save", !.saving = "target",
            !.placed = c.made]
    BY <1>3 DEF ApplyTargeted, Typing, Typed
  <2>2. g \in Games /\ Tracked[c.preview][g] \in Ids \cup {NoId}
    BY <1>1, <2>1, Assumed
  <2>3. Entry(c, g) \in Entries
    BY <1>1 DEF Entry, Entries, Calls
  <2>4. reg.games \in [DOMAIN reg.games -> Entries] /\ DOMAIN reg.games \subseteq Games
        /\ reg.ids \in [DOMAIN reg.ids -> Games] /\ DOMAIN reg.ids \subseteq Ids
    BY GameMapsAre, IdMapsAre DEF Typing, Typed, Registries
  <2>5. games \in GameMaps
    BY <2>2, <2>3, <2>4, GameMapsAre
  <2>6. IdsWith(c) \in IdMaps
    <3>. DEFINE old == IF g \in DOMAIN reg.games THEN IdOf(g, reg.games[g]) ELSE NoId
                new == Tracked[c.preview][g]
    <3>. HIDE DEF old
    <3>1. IdsWith(c) = [i \in (DOMAIN reg.ids \ {old}) \cup ({new} \ {NoId}) |->
                          IF i = new THEN g ELSE Restrict(reg.ids,
                              DOMAIN reg.ids \ {old})[i]]
      BY DEF IdsWith, Restrict, old
    <3>2. \A i \in DOMAIN reg.ids \ {old} : Restrict(reg.ids,
          DOMAIN reg.ids \ {old})[i] \in Games
      BY <2>4 DEF Restrict
    <3>3. (DOMAIN reg.ids \ {old}) \cup ({new} \ {NoId}) \subseteq Ids
      BY <2>2, <2>4
    <3>4. IdsWith(c) \in [DOMAIN IdsWith(c) -> Games] /\ DOMAIN IdsWith(c) \subseteq Ids
      BY <3>1, <3>2, <3>3, <2>2
    <3>. QED BY <3>4, IdMapsAre
  <2>7. reg' \in Registries
    BY <2>1, <2>5, <2>6 DEF Typing, Typed, Registries
  <2>. QED BY <1>1, <1>3, <2>1, <2>7
<1>. QED BY <1>2, <1>3

(* Types and shapes are inductive.                                         *)
LEMMA TypingStep == Typing /\ [Next]_vars => Typing'
<1>. SUFFICES ASSUME Typing, [Next]_vars PROVE Typing'
  OBVIOUS
<1>1. ASSUME NEW t \in Threads, StartRefresh(t) \/ StartHandler(t)
             \/ Operate(t) PROVE Typing'
  <2>1. call' \in [Threads -> Calls] /\ \A s \in Threads : Shaped(call'[s])
    BY <1>1, RefreshTypes, OwnSteps, StepKeepsCalls DEF WellFormed
  <2>2. reg' \in Registries
    <3>1. CASE ApplyRefresh(t)
      BY <3>1, RefreshTypes
    <3>2. CASE ApplyTargeted(t)
      BY <3>2, TargetTypes
    <3>3. CASE ~ApplyRefresh(t) /\ ~ApplyTargeted(t)
      <4>1. reg' = reg
        BY <1>1, <3>3 DEF Operate, StartRefresh, StartHandler, EnsureRegistry, ReadMarker,
            Decide, Match,
          TryLock, Locked, Begin, Run, Finish, Unlock, ScanPreview, ScanBackups,
              ScanFails, LoadAliases,
          Record, LockState, Write, SaveFails, Answer
      <4>. QED BY <4>1 DEF Typing, Typed
    <3>. QED BY <3>1, <3>2, <3>3
  <2>3. config' = config /\ backed' \subseteq Games
    <3>1. CASE Run(t)
      <4>1. config' = config /\ (backed' = backed
            \/ (backed' = backed \cup {call[t].name}
            /\ call[t].name \in DOMAIN Tracked[config]))
        BY <3>1 DEF Run
      <4>. QED BY <4>1, Assumed DEF Typing, Typed
    <3>2. CASE ~Run(t)
      BY <1>1, <3>2 DEF Typing, Typed, world, Operate, StartRefresh, StartHandler,
          EnsureRegistry, ReadMarker, Decide, Match,
          TryLock, Locked, Begin, Finish, Unlock, ScanPreview, ScanBackups, ScanFails,
              LoadAliases,
          ApplyRefresh, ApplyTargeted, Record, LockState, Write, SaveFails, Answer
    <3>. QED BY <3>1, <3>2
  <2>4. history' \in Histories
    <3>1. CASE Record(t)
      <4>1. call[t].field \in Fields
        BY <3>1 DEF Record, At, Typing, Typed, Shaped, Calls, FieldOrNone
      <4>. QED BY <3>1, <4>1 DEF Record, Typing, Typed, Histories
    <3>2. CASE ~Record(t)
      <4>1. history' = history
        BY <1>1, <3>2 DEF Operate, StartRefresh, StartHandler, EnsureRegistry, ReadMarker,
            Decide, Match,
          TryLock, Locked, Begin, Run, Finish, Unlock, ScanPreview, ScanBackups,
              ScanFails, LoadAliases,
          ApplyRefresh, ApplyTargeted, LockState, Write, SaveFails, Answer
      <4>. QED BY <4>1 DEF Typing, Typed
    <3>. QED BY <3>1, <3>2
  <2>5. file' \in [saved : Payloads, history : Histories]
    <3>1. CASE Write(t)
      <4>1. call[t].payload \in Payloads
        BY <3>1 DEF Write, At, Typing, Shaped
      <4>. QED BY <3>1, <4>1 DEF Write, Typing, Typed
    <3>2. CASE ~Write(t)
      <4>1. file' = file
        BY <1>1, <3>2 DEF Operate, StartRefresh, StartHandler, EnsureRegistry, ReadMarker,
            Decide, Match,
          TryLock, Locked, Begin, Run, Finish, Unlock, ScanPreview, ScanBackups,
              ScanFails, LoadAliases,
          ApplyRefresh, ApplyTargeted, LockState, Record, SaveFails, Answer
      <4>. QED BY <4>1 DEF Typing, Typed
    <3>. QED BY <3>1, <3>2
  <2>6. opLock' \in Threads \cup {None} /\ stateLock' \in Threads \cup {None}
        /\ drift' \in Drifts
    BY <1>1 DEF Typing, Typed, Drifts, past, Operate, StartRefresh, StartHandler, EnsureRegistry,
        ReadMarker, Decide, Match,
          TryLock, Locked, Begin, Run, Finish, Unlock, ScanPreview, ScanBackups,
              ScanFails, LoadAliases,
          ApplyRefresh, ApplyTargeted, Record, LockState, Write, SaveFails, Answer
  <2>. QED BY <2>1, <2>2, <2>3, <2>4, <2>5, <2>6 DEF Typing, Typed
<1>2. CASE ConfigChanges
  BY <1>2, Assumed DEF ConfigChanges, past, Typing, Typed, Versions
<1>3. CASE Restart
  <2>1. Load(file) \in Registries
    BY DEF Load, Typing, Typed, Registries, Payloads, Markers
  <2>2. EmptyRegistry \in Registries /\ NoHistory \in Histories
    BY EmptyMaps DEF EmptyRegistry, Registries, Markers, NoHistory, Histories
  <2>3. reg' \in {Load(file), EmptyRegistry} /\ history' \in {file.history, NoHistory}
    BY <1>3 DEF Restart, StartLoaded, StartBlank
  <2>4. drift' \in Drifts /\ Starts
    BY <1>3 DEF Restart, StartLoaded, StartBlank, Drifts
  <2>. QED BY <2>1, <2>2, <2>3, <2>4, IdleTyped DEF Starts, world, Typing, Typed
<1>4. CASE UNCHANGED vars
  BY <1>4 DEF vars, world, past, Typing, Typed
<1>5. CASE OtherBackend
  <2>1. file' \in [saved : Payloads, history : Histories] /\ backed' \subseteq Games
        /\ drift' \in Drifts
    BY <1>5 DEF OtherBackend, OtherSaves, OtherBacksUp, world, past, Typing, Typed, Drifts
  <2>. QED BY <2>1, <1>5
         DEF OtherBackend, OtherSaves, OtherBacksUp, world, past, Typing, Typed
<1>. QED BY <1>1, <1>2, <1>3, <1>4, <1>5 DEF Next, Alone, Serve

(* Types and shapes hold in every reachable state.                         *)
THEOREM TypingInvariant == Spec => []Typing
<1>1. Init => Typing
  BY InitTyped DEF Typing
<1>. QED BY <1>1, TypingStep, PTL DEF Spec

(* TypeOK: registry, history, locks and file have the shapes that          *)
(* operations/mod.rs and service.rs keep, whatever threads interleave.       *)
THEOREM TypeCorrect == Spec => []TypeOK
<1>1. Typing => TypeOK
  <2>. SUFFICES ASSUME Typing PROVE TypeOK
    OBVIOUS
  <2>1. ASSUME NEW r \in {reg, file.saved} PROVE 
        /\ GameMap(r.games) /\ IdMap(r.ids)
        /\ r.marker \in Versions \cup {Unknown}
        /\ r.aliases \in Versions \cup {Unknown}
    <3>1. r.games \in GameMaps /\ r.ids \in IdMaps /\ r.marker \in Markers
          /\ r.aliases \in Markers
      BY DEF Typing, Typed, Registries, Payloads
    <3>. QED BY <3>1, GameMapsAre, IdMapsAre DEF GameMap, IdMap, Markers
  <2>. QED BY <2>1 DEF Typing, Typed, TypeOK, Registries, Histories, Markers, Calls, Names
<1>. QED BY <1>1, TypingInvariant, PTL

(* What a call is like after a save. *)
Saved(c, ok, d) ==
         /\ d.pc \in {"finish", "target", "answer", "idle"} /\ d.saving = None
         /\ d.pc = "finish" <=> c.saving = "refresh"
         /\ d.pc = "target" => c.saving = "history" /\ Retargets(c.kind, d.outcome)
         /\ d.pc \in {"finish", "target"} =>
              /\ d.op = c.op /\ d.name = c.name /\ d.made = c.made /\ d.kind = c.kind
              /\ d.field = c.field /\ d.marker = c.marker
         /\ d.pc = "target" => d.outcome = c.outcome \/ d.outcome = "failed"
         /\ d.pc \in {"answer", "idle"} => d.op = None /\ d.made = FALSE
             /\ d.marker = Unknown
         /\ d.preview = None /\ d.backups = None
         /\ d.kind # None => d.kind = c.kind /\ d.name = c.name
         /\ Tells(d) => c.kind \in Manual /\ c.name = d.name /\ c.field = d.field
         /\ Tells(d) => c.saving = "refresh" \/ (Tells(c) /\ (c.saving = "history" =>
             ok = TRUE))
         /\ d.placed => c.placed /\ ok = TRUE /\ d.pc = "answer" /\ c.name = d.name
         /\ c.saving # "refresh" /\ d.pc # "idle" => d.outcome = c.outcome
             \/ d.outcome = "failed"
         /\ c.saving = "refresh" => d.outcome \in {"done", "failed"}
         /\ d.pc = "idle" => d.outcome = None

(* How a call goes on after save_cache returned, told field by field.      *)
LEMMA AfterSaveIs ==
  ASSUME NEW c \in Calls, NEW ok \in BOOLEAN, Shaped(c), c.pc \in {"save", "write"}
  PROVE  Saved(c, ok, AfterSave(c, ok))
<1>. DEFINE d == AfterSave(c, ok)
<1>. DEFINE o == CASE c.saving = "refresh" -> IF ok THEN "done" ELSE "failed"
                   [] c.saving = "history" -> IF ok \/ c.kind \notin Manual
                                              THEN c.outcome ELSE "failed"
                   [] OTHER -> c.outcome
             n == CASE c.saving = "refresh" -> "finish"
                [] c.saving = "history" -> IF Retargets(c.kind, o)
                                           THEN "target" ELSE "answer"
                [] OTHER -> "answer"
             e == [c EXCEPT !.pc = n, !.outcome = o, !.saving = None,
                     !.placed = c.placed /\ ok, !.payload = None]
<1>1. n \in {"finish", "target", "answer"} /\ o \in OutcomeOrNone
      /\ (n = "finish" <=> c.saving = "refresh")
      /\ (n = "target" => c.saving = "history" /\ Retargets(c.kind, o))
      /\ (c.saving # "refresh" => o \in {c.outcome, "failed"})
      /\ (c.saving = "refresh" => o \in {"done", "failed"})
      /\ (c.saving = "history" /\ c.kind \in Manual =>
          o = IF ok THEN c.outcome ELSE "failed")
  BY DEF Outs, Calls, OutcomeOrNone
<1>2. e \in Calls
  BY <1>1 DEF Calls, Pcs, SaveOrNone, Loads
<1>3. e.pc = n /\ e.saving = None /\ e.op = c.op /\ e.outcome = o
      /\ e.placed = (c.placed /\ ok)
      /\ e.preview = c.preview /\ e.backups = c.backups /\ e.overtaken = c.overtaken
      /\ e.name = c.name /\ e.field = c.field /\ e.made = c.made /\ e.kind = c.kind
          /\ e.marker = c.marker
  BY DEF Calls
<1>4. n # "answer" => ~c.placed
  BY <1>1, Assumed DEF Shaped, Saves
<1>5. c.preview = None /\ c.backups = None
  BY DEF Shaped
<1>6. Tells(e) => c.kind \in Manual /\ (c.saving = "refresh" \/ (Tells(c)
      /\ (c.saving = "history" => ok)))
  BY <1>1, <1>3 DEF Tells
<1>7. d = IF n = "answer" THEN Ended(e) ELSE e
  BY DEF AfterSave
<1>. HIDE DEF n, o, e, d
<1>. SUFFICES Saved(c, ok, d)
  BY DEF d
<1>. USE DEF Saved
<1>8. CASE n = "answer"
  <2>1. d = Ended(e)
    BY <1>8, <1>7
  <2>2. c.saving # "refresh"
    BY <1>8, <1>1
  <2>3. Ended(e).outcome = e.outcome \/ (Ended(e).pc = "idle" /\ Ended(e).outcome = None)
    BY <1>2, EndedIs
  <2>4. Tells(Ended(e)) => Tells(e)
    BY <1>2, EndedIs
  <2>5. /\ Ended(e).pc \in {"idle", "answer"} /\ Ended(e).saving = None
           /\ Ended(e).made = FALSE
        /\ Ended(e).preview = None /\ Ended(e).backups = None /\ Ended(e).op = None
        /\ Ended(e).marker = Unknown
        /\ (Tells(Ended(e)) \/ Ended(e).placed) => 
              Ended(e).pc = "answer" /\ Ended(e).name = c.name /\ Ended(e).field = c.field
        /\ Ended(e).placed => c.placed /\ ok
        /\ Ended(e).kind # None => Ended(e).kind = c.kind /\ Ended(e).name = c.name
    BY <1>2, <1>3, EndedIs
  <2>6. Tells(Ended(e)) => c.kind \in Manual /\ (Tells(c) /\ (c.saving = "history" => ok))
    BY <2>2, <2>4, <1>6
  <2>7. /\ Ended(e).pc # "idle" => Ended(e).outcome = c.outcome
           \/ Ended(e).outcome = "failed"
        /\ Ended(e).pc = "idle" => Ended(e).outcome = None
    BY <2>2, <2>3, <1>1, <1>2, <1>3, EndedIs
  <2>. QED BY <2>1, <2>2, <2>5, <2>6, <2>7
<1>9. CASE n # "answer"
  BY <1>9, <1>1, <1>2, <1>3, <1>4, <1>5, <1>6, <1>7
<1>. QED BY <1>8, <1>9

(* A step of a thread leaves the calls of the others alone, except that a  *)
(* full refresh overtakes targeted ones.                                   *)
LEMMA OthersStay ==
  ASSUME Typing, NEW t \in Threads, StartRefresh(t) \/ StartHandler(t) \/ Operate(t),
         NEW s \in Threads, s # t
  PROVE  call'[s] = call[s] \/ (ApplyRefresh(t)
         /\ call'[s] = [call[s] EXCEPT !.overtaken = Overtaken(call[s])])
<1>1. CASE ApplyRefresh(t)
  BY <1>1 DEF ApplyRefresh
<1>2. CASE ~ApplyRefresh(t)
  BY <1>2, OwnSteps DEF Step, Typing, Typed
<1>. QED BY <1>1, <1>2

(* Every way into and out of an operation takes and drops the operation    *)
(* lock and sets the status, and likewise the state lock.                  *)
LEMMA HoldingStep == Typing /\ Holding /\ [Next]_vars => Holding'
<1>. SUFFICES ASSUME Typing, Holding, [Next]_vars PROVE Holding'
  OBVIOUS
<1>1. ASSUME NEW t \in Threads, StartRefresh(t) \/ StartHandler(t)
             \/ Operate(t) PROVE Holding'
  <2>. DEFINE c == call[t]  d == call'[t]
              Sits(x, y) == x.pc = y.pc /\ x.op = y.op /\ x.saving = y.saving
              Out == UNCHANGED <<opLock, status>> /\ ~InOperation(c) /\ ~InOperation(d)
              In == /\ opLock' = opLock /\ InOperation(c) /\ InOperation(d)
                    /\ status' = IF d.pc \in {"begin", "unlock"} THEN None ELSE d.op
              Still == stateLock' = stateLock /\ (c.pc = "write" <=> d.pc = "write")
  <2>c. c \in Calls /\ Shaped(c) /\ call \in [Threads -> Calls]
    BY DEF Typing, Typed
  <2>o. \A s \in Threads : s # t => Sits(call'[s], call[s])
    <3>. SUFFICES ASSUME NEW s \in Threads, s # t PROVE Sits(call'[s], call[s])
      OBVIOUS
    <3>1. call[s] \in Calls
      BY DEF Typing, Typed
    <3>. QED BY <3>1, <1>1, OthersStay DEF Calls
  <2>1. ASSUME Still \/ (c.pc = "save" /\ d.pc = "write" /\ stateLock = None
               /\ stateLock' = t)
                \/ (c.pc \in {"save", "write"} /\ d.pc \notin {"write"}
                    /\ stateLock \in {t, None} /\ stateLock' = None)
        PROVE  (\A s \in Threads : call[s].pc = "write" <=> stateLock = s)'
    BY <2>1, <2>o, Assumed DEF Holding
  <2>2. ASSUME Out \/ In
                \/ (~InOperation(c) /\ d.pc = "begin" /\ opLock = None /\ opLock' = t
                    /\ status' = status)
                \/ (c.pc = "unlock" /\ ~InOperation(d) /\ opLock' = None
                    /\ status' = status)
        PROVE  StatusTellsHolder'
    BY <2>2, <2>o, Assumed DEF Holding, StatusTellsHolder, InOperation
  <2>e. ASSUME End(t) PROVE d.pc \in {"idle", "answer"} /\ d.saving = None
    BY <2>e, <2>c, EndedIs DEF End
  <2>11. CASE StartRefresh(t)
    <3>1. Still /\ Out
      BY <2>11, <2>c, IdleIs, Assumed DEF StartRefresh, At, Calls, Shaped, InOperation,
          Saves
    <3>. QED BY <3>1, <2>1, <2>2 DEF Holding
  <2>12. CASE StartHandler(t)
    <3>1. Still /\ Out
      BY <2>12, <2>c, IdleIs, Assumed DEF StartHandler, At, Calls, Shaped, InOperation,
          Saves
    <3>. QED BY <3>1, <2>1, <2>2 DEF Holding
  <2>13. CASE EnsureRegistry(t)
    <3>1. Still /\ Out
      BY <2>13, <2>c, Assumed DEF EnsureRegistry, At, Calls, Shaped, InOperation, Saves,
          Goto
    <3>. QED BY <3>1, <2>1, <2>2 DEF Holding
  <2>14. CASE ReadMarker(t)
    <3>1. Still /\ Out
      BY <2>14, <2>c, Assumed DEF ReadMarker, At, Calls, Shaped, InOperation, Saves
    <3>. QED BY <3>1, <2>1, <2>2 DEF Holding
  <2>15. CASE Decide(t)
    <3>1. Still /\ Out
      BY <2>15, <2>c, Assumed, <2>e DEF Decide, At, Calls, Shaped, InOperation, Saves, Goto
    <3>. QED BY <3>1, <2>1, <2>2 DEF Holding
  <2>16. CASE Locked(t)
    <3>1. Still /\ Out
      BY <2>16, <2>c, Assumed, <2>e DEF Locked, At, Calls, Shaped, InOperation, Saves
    <3>. QED BY <3>1, <2>1, <2>2 DEF Holding
  <2>17. CASE Record(t)
    <3>1. Still /\ Out
      BY <2>17, <2>c, Assumed DEF Record, At, Calls, Shaped, InOperation, Saves
    <3>. QED BY <3>1, <2>1, <2>2 DEF Holding
  <2>18. CASE Answer(t)
    <3>1. Still /\ Out
      BY <2>18, <2>c, IdleIs, Assumed DEF Answer, At, Calls, Shaped, InOperation, Saves
    <3>. QED BY <3>1, <2>1, <2>2 DEF Holding
  <2>19. CASE Begin(t)
    <3>1. Still /\ In
      BY <2>19, <2>c, Assumed DEF Begin, At, Calls, Shaped, InOperation, Saves, Goto,
          Holding, StatusTellsHolder
    <3>. QED BY <3>1, <2>1, <2>2 DEF Holding
  <2>20. CASE Run(t)
    <3>1. Still /\ In
      BY <2>20, <2>c, Assumed DEF Run, At, Calls, Shaped, InOperation, Saves, Holding,
          StatusTellsHolder
    <3>. QED BY <3>1, <2>1, <2>2 DEF Holding
  <2>21. CASE Finish(t)
    <3>1. Still /\ In
      BY <2>21, <2>c, Assumed DEF Finish, At, Calls, Shaped, InOperation, Saves, Goto,
          Holding, StatusTellsHolder
    <3>. QED BY <3>1, <2>1, <2>2 DEF Holding
  <2>22. CASE LoadAliases(t)
    <3>1. Still /\ In
      BY <2>22, <2>c, Assumed DEF LoadAliases, At, Calls, Shaped, InOperation, Saves,
          Scanned, Holding, StatusTellsHolder
    <3>. QED BY <3>1, <2>1, <2>2 DEF Holding
  <2>23. CASE ScanPreview(t)
    <3>1. Still /\ (In \/ Out)
      BY <2>23, <2>c, Assumed DEF ScanPreview, At, Calls, Shaped, InOperation, Saves,
          Scanning, Holding, StatusTellsHolder
    <3>. QED BY <3>1, <2>1, <2>2 DEF Holding
  <2>24. CASE ScanBackups(t)
    <3>1. Still /\ (In \/ Out)
      BY <2>24, <2>c, Assumed DEF ScanBackups, At, Calls, Shaped, InOperation, Saves,
          Scanning, Holding, StatusTellsHolder
    <3>. QED BY <3>1, <2>1, <2>2 DEF Holding
  <2>25. CASE ScanFails(t)
    <3>1. CASE At(t, "scan")
      <4>1. PICK o \in {"failed", "cancelled"} : d = [Refreshed(c) EXCEPT !.outcome = o,
            !.pc = "finish"]
        BY <2>25, <3>1, <2>c DEF ScanFails, At
      <4>2. d.pc = "finish" /\ d.op = c.op /\ d.saving = c.saving
        BY <4>1, <2>c, RefreshedIs DEF Calls
      <4>3. Still /\ In
        BY <4>2, <3>1, <2>25 DEF ScanFails, At, InOperation, Holding, StatusTellsHolder
      <4>. QED BY <4>3, <2>1, <2>2 DEF Holding
    <3>2. CASE At(t, "target")
      <4>1. Still /\ Out
        BY <2>25, <3>2, <2>c, <2>e, Assumed DEF ScanFails, At, Shaped, InOperation, Saves
      <4>. QED BY <4>1, <2>1, <2>2 DEF Holding
    <3>. QED BY <2>25, <3>1, <3>2 DEF ScanFails
  <2>26. CASE Match(t)
    <3>1. d.pc \in {"idle", "answer", "record", "lock"} /\ d.saving = None
      <4>. DEFINE m == [Refreshed(c) EXCEPT !.name = MatchingGame(c), !.app = NoId]
      <4>1. c.pc = "match" /\ c.saving = None
        BY <2>26, <2>c, Assumed DEF Match, At, Shaped
      <4>2. m.saving = None
        BY <4>1, <2>c, RefreshedIs DEF Calls
      <4>3. \/ End(t)
            \/ d = [m EXCEPT !.field = "last_skip", !.pc = "record"]
            \/ d = [m EXCEPT !.op = OpOf(c.kind), !.pc = "lock"]
        BY <2>26, <2>c DEF Match
      <4>4. DOMAIN m = DOMAIN c /\ m = [x \in DOMAIN c |-> m[x]]
        BY <2>c DEF Calls, Refreshed
      <4>. HIDE DEF m
      <4>. QED BY <4>2, <4>3, <4>4, <2>e, <2>c DEF Calls
    <3>2. Still /\ Out
      BY <2>26, <3>1, <2>c, Assumed DEF Match, At, InOperation, Shaped, Saves
    <3>. QED BY <3>2, <2>1, <2>2 DEF Holding
  <2>27. CASE ApplyTargeted(t)
    <3>1. CASE d = [Refreshed(c) EXCEPT !.pc = "save", !.saving = "target",
          !.placed = c.made]
      <4>1. d.pc = "save" /\ d.saving = "target"
        BY <3>1, <2>c, RefreshedIs DEF Calls
      <4>2. Still /\ Out
        BY <4>1, <2>27, <2>c, Assumed DEF ApplyTargeted, Scanned, At, Shaped, InOperation,
            Saves
      <4>. QED BY <4>2, <2>1, <2>2 DEF Holding
    <3>2. CASE End(t)
      <4>1. Still /\ Out
        BY <2>27, <3>2, <2>c, <2>e, Assumed DEF ApplyTargeted, Scanned, At, Shaped,
            InOperation, Saves
      <4>. QED BY <4>1, <2>1, <2>2 DEF Holding
    <3>. QED BY <2>27, <3>1, <3>2, <2>c DEF ApplyTargeted
  <2>28. CASE ApplyRefresh(t)
    <3>1. Still /\ (In \/ Out)
      BY <2>28, <2>c, Assumed DEF ApplyRefresh, At, Calls, Shaped, InOperation, Saves,
          Refreshed, Holding, StatusTellsHolder
    <3>. QED BY <3>1, <2>1, <2>2 DEF Holding
  <2>29. CASE TryLock(t)
    <3>1. Still /\ ~InOperation(c) /\ d.pc = "begin" /\ opLock = None /\ opLock' = t
          /\ status' = status
      BY <2>29, <2>c, Assumed DEF TryLock, At, Calls, Shaped, InOperation, Saves, Goto, Free
    <3>. QED BY <3>1, <2>1, <2>2 DEF Holding
  <2>30. CASE Unlock(t)
    <3>1. c.pc = "unlock"
      BY <2>30 DEF Unlock, At
    <3>2. \/ End(t)
          \/ \E f \in FieldOrNone : call' = [call EXCEPT ![t] = [c EXCEPT !.field = f,
              !.pc = "record"]]
          \/ call' = [call EXCEPT ![t] = [c EXCEPT !.pc = "match", !.outcome = None]]
      BY <2>30, RecordsTyped, <2>c DEF Unlock, RecordOrEnd
    <3>3. d.pc \in {"idle", "answer", "record", "match"} /\ d.saving = None
      <4>1. CASE End(t)
        BY <4>1, <2>e
      <4>2. CASE ~End(t)
        <5>1. c.saving = None
          BY <3>1, <2>c, Assumed DEF Shaped
        <5>2. CASE \E f \in FieldOrNone : call' = [call EXCEPT ![t] = [c EXCEPT !.field = f, !.pc = "record"]]
          BY <5>1, <5>2, <2>c DEF Calls
        <5>3. CASE call' = [call EXCEPT ![t] = [c EXCEPT !.pc = "match", !.outcome = None]]
          BY <5>1, <5>3, <2>c DEF Calls
        <5>. QED BY <4>2, <3>2, <5>2, <5>3
      <4>. QED BY <4>1, <4>2
    <3>4. Still /\ ~InOperation(d) /\ opLock' = None /\ status' = status
      BY <2>30, <3>1, <3>3, Assumed DEF Unlock, InOperation, Saves
    <3>. QED BY <3>1, <3>4, <2>1, <2>2 DEF Holding
  <2>31. CASE LockState(t)
    <3>1. c.pc = "save" /\ d.pc = "write" /\ stateLock = None /\ stateLock' = t /\ (In
          \/ Out)
      BY <2>31, <2>c, Assumed DEF LockState, At, Calls, Shaped, InOperation, Saves,
          StateLockFree, Holding, StatusTellsHolder
    <3>. QED BY <3>1, <2>1, <2>2 DEF Holding
  <2>32. CASE Write(t)
    <3>. DEFINE e == AfterSave(c, TRUE)
    <3>1. c.pc \in {"save", "write"} /\ d = e /\ status' = status /\ opLock' = opLock
          /\ stateLock' = None
      BY <2>32, <2>c DEF Write, At
    <3>2. stateLock \in {t, None}
      BY <2>32 DEF Write, At, StateLockFree, Holding
    <3>3. /\ d.pc \in {"finish", "target", "answer", "idle"} /\ d.saving = None
          /\ d.pc = "finish" <=> c.saving = "refresh"
          /\ d.pc = "finish" => d.op = c.op
      <4>1. Saved(c, TRUE, e) \/ Saved(c, FALSE, e)
        BY <3>1, <2>c, AfterSaveIs
      <4>. HIDE DEF e, c
      <4>. QED BY <4>1, <3>1 DEF Saved
    <3>4. In \/ Out
      BY <3>1, <3>3, <2>c, Assumed DEF InOperation, Saves, Holding, StatusTellsHolder
    <3>. QED BY <3>1, <3>2, <3>3, <3>4, <2>1, <2>2 DEF Holding
  <2>33. CASE SaveFails(t)
    <3>. DEFINE e == AfterSave(c, FALSE)
    <3>1. c.pc \in {"save", "write"} /\ d = e /\ status' = status /\ opLock' = opLock
          /\ stateLock' = None
      BY <2>33, <2>c DEF SaveFails, At
    <3>2. stateLock \in {t, None}
      BY <2>33 DEF SaveFails, At, StateLockFree, Holding
    <3>3. /\ d.pc \in {"finish", "target", "answer", "idle"} /\ d.saving = None
          /\ d.pc = "finish" <=> c.saving = "refresh"
          /\ d.pc = "finish" => d.op = c.op
      <4>1. Saved(c, TRUE, e) \/ Saved(c, FALSE, e)
        BY <3>1, <2>c, AfterSaveIs
      <4>. HIDE DEF e, c
      <4>. QED BY <4>1, <3>1 DEF Saved
    <3>4. In \/ Out
      BY <3>1, <3>3, <2>c, Assumed DEF InOperation, Saves, Holding, StatusTellsHolder
    <3>. QED BY <3>1, <3>2, <3>3, <3>4, <2>1, <2>2 DEF Holding
  <2>. QED BY <1>1, <2>11, <2>12, <2>13, <2>14, <2>15, <2>16, <2>17, <2>18, <2>19, <2>20,
              <2>21, <2>22, <2>23, <2>24, <2>25, <2>26, <2>27, <2>28, <2>29, <2>30, <2>31,
              <2>32, <2>33 DEF Operate, Holding
<1>2. CASE ConfigChanges
  BY <1>2 DEF ConfigChanges, Holding, StatusTellsHolder, InOperation
<1>3. CASE Restart
  BY <1>3, IdleIs, Assumed DEF Restart, StartLoaded, StartBlank, Starts, Holding,
      StatusTellsHolder, InOperation, Saves
<1>4. CASE UNCHANGED vars
  BY <1>4 DEF vars, Holding, StatusTellsHolder, InOperation
<1>5. CASE OtherBackend
  BY <1>5 DEF OtherBackend, OtherSaves, OtherBacksUp, Holding, StatusTellsHolder,
      InOperation
<1>. QED BY <1>1, <1>2, <1>3, <1>4, <1>5 DEF Next, Alone, Serve

(* The steps that touch neither the registry nor what is kept of it.       *)
Plain(t) ==
  \/ StartRefresh(t) \/ StartHandler(t) \/ EnsureRegistry(t) \/ ReadMarker(t)
      \/ Decide(t) \/ Match(t)
  \/ TryLock(t) \/ Locked(t) \/ Begin(t) \/ Run(t) \/ Finish(t) \/ Unlock(t)
  \/ ScanPreview(t) \/ ScanBackups(t) \/ ScanFails(t) \/ LoadAliases(t)
  \/ (ApplyTargeted(t) /\ End(t)) \/ Answer(t)

(* A handler goes on with the game matching_game found.                    *)
LEMMA MatchIs ==
  ASSUME Typing, NEW t \in Threads, Match(t), ~End(t)
  PROVE  LET c == call[t] d == call'[t] IN
         /\ d.name = MatchingGame(c) /\ MatchingGame(c) # None
         /\ d.pc \in {"record", "lock"} /\ d.saving = c.saving /\ d.placed = c.placed
             /\ d.outcome = c.outcome
         /\ d.marker = Unknown /\ d.made = c.made
         /\ d.pc = "lock" => d.op = OpOf(c.kind) /\ ~LacksBackup(c, MatchingGame(c))
         /\ d.pc = "record" => d.op = c.op
         /\ d.kind = c.kind
<1>. DEFINE c == call[t]  d == call'[t]
            m == [Refreshed(c) EXCEPT !.name = MatchingGame(c), !.app = NoId]
<1>1. c \in Calls /\ call \in [Threads -> Calls]
  BY DEF Typing, Typed
<1>2. /\ DOMAIN m = DOMAIN c /\ m = [x \in DOMAIN c |-> m[x]]
      /\ m.name = MatchingGame(c) /\ m.pc = c.pc /\ m.saving = c.saving
          /\ m.placed = c.placed
      /\ m.outcome = c.outcome /\ m.marker = Unknown /\ m.made = c.made /\ m.op = c.op
          /\ m.kind = c.kind
  BY <1>1, RefreshedIs DEF Calls, Refreshed
<1>3. /\ MatchingGame(c) # None
      /\ \/ d = [m EXCEPT !.field = "last_skip", !.pc = "record"]
         \/ d = [m EXCEPT !.op = OpOf(c.kind), !.pc = "lock"] /\ ~LacksBackup(c,
             MatchingGame(c))
  BY <1>1 DEF Match
<1>. HIDE DEF m
<1>4. CASE d = [m EXCEPT !.field = "last_skip", !.pc = "record"]
  BY <1>1, <1>2, <1>3, <1>4 DEF Calls
<1>5. CASE d = [m EXCEPT !.op = OpOf(c.kind), !.pc = "lock"] /\ ~LacksBackup(c,
      MatchingGame(c))
  BY <1>1, <1>2, <1>3, <1>5 DEF Calls
<1>. QED BY <1>3, <1>4, <1>5

(* After the guard is dropped a call matches, records its result or ends.  *)
LEMMA UnlockIs ==
  ASSUME Typing, NEW t \in Threads, Unlock(t), ~End(t)
  PROVE  LET c == call[t] d == call'[t] IN
         \/ /\ c.op = "refresh" /\ c.outcome = "done"
            /\ d = [c EXCEPT !.pc = "match", !.outcome = None]
         \/ \E f \in Fields : /\ d = [c EXCEPT !.field = f, !.pc = "record"]
                              /\ \/ c.op = "refresh" /\ f = RecordsUnmatched(c.kind,
                                    c.outcome)
                                 \/ c.op # "refresh" /\ f \in Records(c.kind, c.outcome)
<1>1. call \in [Threads -> Calls]
  BY DEF Typing, Typed
<1>. QED BY <1>1, RecordsTyped DEF Unlock, RecordOrEnd, FieldOrNone

(* A plain step changes nothing that is saved, and is no part of a save.   *)
LEMMA PlainSteps ==
  ASSUME Typing, NEW t \in Threads, Plain(t)
  PROVE  /\ UNCHANGED <<reg, history, file, stateLock, drift>>
         /\ call[t].pc \notin {"save", "write"} /\ call'[t].pc \notin {"save", "write"}
         /\ call[t].saving = None /\ call'[t].saving = None
         /\ \A s \in Threads : s # t => call'[s] = call[s]
<1>. DEFINE c == call[t]  d == call'[t]
<1>1. c \in Calls /\ Shaped(c) /\ call \in [Threads -> Calls]
  BY DEF Typing, Typed
<1>2. UNCHANGED <<reg, history, file, stateLock, drift>>
  BY TargetTypes DEF Plain, past, StartRefresh, StartHandler, EnsureRegistry, ReadMarker,
      Decide, Match, TryLock, Locked,
     Begin, Run, Finish, Unlock, ScanPreview, ScanBackups, ScanFails, LoadAliases,
         ApplyTargeted, Answer
<1>3. c.pc \notin {"save", "write"}
  BY DEF Plain, At, Scanning, Scanned, StartRefresh, StartHandler, EnsureRegistry,
      ReadMarker, Decide, Match, TryLock, Locked,
     Begin, Run, Finish, Unlock, ScanPreview, ScanBackups, ScanFails, LoadAliases,
         ApplyTargeted, Answer
<1>4. c.saving = None
  BY <1>1, <1>3, Assumed DEF Shaped
<1>5. ~ApplyRefresh(t) /\ (StartRefresh(t) \/ StartHandler(t) \/ Operate(t))
  <2>1. c.pc = "apply" => FALSE
    BY DEF Plain, At, Scanning, Scanned, StartRefresh, StartHandler, EnsureRegistry,
        ReadMarker, Decide, Match, TryLock, Locked,
     Begin, Run, Finish, Unlock, ScanPreview, ScanBackups, ScanFails, LoadAliases,
         ApplyTargeted, Answer
  <2>. QED BY <2>1 DEF ApplyRefresh, At, Plain, Operate
<1>6. Step(t) /\ WellFormed(d)
  BY <1>5, OwnSteps DEF Step
<1>7. \A s \in Threads : s # t => call'[s] = call[s]
  BY <1>6, <1>1 DEF Step
<1>e. ASSUME End(t) PROVE d.pc \notin {"save", "write"}
  BY <1>e, <1>1, EndedIs DEF End
<1>8. d.pc \notin {"save", "write"}
  <2>1. CASE StartRefresh(t) \/ StartHandler(t) \/ Answer(t)
    <3>1. d.pc \in {"idle", "marker", "ensure"}
      <4>1. CASE StartRefresh(t)
        BY <4>1, <1>1, IdleTyped DEF StartRefresh, Calls
      <4>2. CASE StartHandler(t)
        BY <4>2, <1>1, IdleTyped DEF StartHandler, Calls
      <4>3. CASE Answer(t)
        BY <4>3, <1>1, IdleIs DEF Answer
      <4>. QED BY <2>1, <4>1, <4>2, <4>3
    <3>. QED BY <3>1
  <2>2. CASE EnsureRegistry(t) \/ ReadMarker(t) \/ Decide(t) \/ TryLock(t)
    BY <2>2, <1>1, <1>e DEF EnsureRegistry, ReadMarker, Decide, TryLock, Goto, Calls
  <2>8. CASE Locked(t) \/ Begin(t) \/ Finish(t)
    BY <2>8, <1>1, <1>e DEF Locked, Begin, Finish, Goto, Calls
  <2>9. CASE Run(t)
    <3>1. d.pc = "finish"
      BY <2>9, <1>1 DEF Run, Calls
    <3>. QED BY <3>1
  <2>3. CASE ScanPreview(t) \/ ScanBackups(t) \/ LoadAliases(t)
    <3>1. CASE ScanPreview(t)
      <4>1. d = [c EXCEPT !.preview = config]
        BY <3>1, <1>1 DEF ScanPreview
      <4>. QED BY <4>1, <1>1, <1>3 DEF Calls
    <3>2. CASE ScanBackups(t)
      <4>1. d = [c EXCEPT !.backups = backed]
        BY <3>2, <1>1 DEF ScanBackups
      <4>. QED BY <4>1, <1>1, <1>3 DEF Calls
    <3>3. CASE LoadAliases(t)
      <4>1. PICK a : d = [c EXCEPT !.aliases = a, !.pc = "apply"]
        BY <3>3, <1>1 DEF LoadAliases
      <4>. QED BY <4>1, <1>1 DEF Calls
    <3>. QED BY <2>3, <3>1, <3>2, <3>3
  <2>4. CASE ScanFails(t)
    <3>1. CASE End(t)
      BY <3>1, <1>e
    <3>2. CASE ~End(t)
      <4>1. PICK o \in {"failed", "cancelled"} : d = [Refreshed(c) EXCEPT !.outcome = o,
            !.pc = "finish"]
        BY <2>4, <3>2, <1>1 DEF ScanFails
      <4>. QED BY <4>1, <1>1, RefreshedIs DEF Calls
    <3>. QED BY <3>1, <3>2
  <2>5. CASE Match(t)
    BY <2>5, <1>e, MatchIs
  <2>6. CASE Unlock(t)
    BY <2>6, <1>e, <1>1, UnlockIs DEF Calls
  <2>7. CASE ApplyTargeted(t) /\ End(t)
    BY <2>7, <1>e
  <2>. QED BY <2>1, <2>2, <2>3, <2>4, <2>5, <2>6, <2>7, <2>8, <2>9 DEF Plain
<1>9. d.saving = None
  BY <1>6, <1>8, Assumed DEF Shaped, WellFormed
<1>. QED BY <1>2, <1>3, <1>4, <1>7, <1>8, <1>9

(* The file lags behind the memory only while somebody is about to save.   *)
LEMMA FileBehindStep == Typing /\ Holding /\ FileBehind /\ [Next]_vars => FileBehind'
<1>. SUFFICES ASSUME Typing, Holding, FileBehind, [Next]_vars PROVE FileBehind'
  OBVIOUS
<1>1. ASSUME NEW t \in Threads, StartRefresh(t) \/ StartHandler(t)
             \/ Operate(t) PROVE FileBehind'
  <2>. DEFINE c == call[t]  d == call'[t]
  <2>c. c \in Calls /\ Shaped(c) /\ call \in [Threads -> Calls]
        /\ \A s \in Threads : Shaped(call[s]) /\ call[s] \in Calls
    BY DEF Typing, Typed
  <2>o. \A s \in Threads : s # t => call'[s].pc = call[s].pc
        /\ call'[s].saving = call[s].saving
                                    /\ call'[s].payload = call[s].payload
    <3>. SUFFICES ASSUME NEW s \in Threads, s # t
         PROVE call'[s].pc = call[s].pc /\ call'[s].saving = call[s].saving
               /\ call'[s].payload = call[s].payload
      OBVIOUS
    <3>. QED BY <2>c, <1>1, OthersStay DEF Calls
  <2>s. \A s \in Threads : call[s].pc \in {"save", "write"} <=> Saving(call[s])
    BY <2>c DEF Shaped, Saving
  <2>1. CASE Plain(t)
    <3>1. Payload(reg)' = Payload(reg) /\ CacheFile(reg, history)' = CacheFile(reg,
          history) /\ file' = file /\ drift' = drift
      BY <2>1, PlainSteps DEF Payload, CacheFile
    <3>2. c.pc \notin {"save", "write"} /\ d.pc \notin {"save", "write"} /\ ~Saving(c)
          /\ ~Saving(d)
      BY <2>1, PlainSteps DEF Saving
    <3>3. \A s \in Threads : (call[s].pc = "save" => call'[s].pc = "save")
          /\ (Saving(call[s]) => Saving(call'[s]))
      BY <2>o, <3>2 DEF Saving
    <3>. QED BY <2>o, <3>1, <3>2, <3>3 DEF FileBehind
  <2>2. ASSUME d.pc = "save", d.saving # None PROVE FileBehind'
    BY <2>2 DEF FileBehind, Saving
  <2>3. CASE ApplyRefresh(t)
    <3>1. d = [Refreshed(c) EXCEPT !.pc = "save", !.saving = "refresh"]
      BY <2>3 DEF ApplyRefresh
    <3>2. d.pc = "save" /\ d.saving = "refresh"
      BY <2>c, <3>1, RefreshedIs DEF Calls
    <3>. QED BY <3>2, <2>2, Assumed DEF Saves
  <2>4. CASE ApplyTargeted(t) /\ ~End(t)
    <3>1. d = [Refreshed(c) EXCEPT !.pc = "save", !.saving = "target", !.placed = c.made]
      BY <2>4, TargetTypes
    <3>2. d.pc = "save" /\ d.saving = "target"
      BY <2>c, <3>1, RefreshedIs DEF Calls
    <3>. QED BY <3>2, <2>2, Assumed DEF Saves
  <2>5. CASE Record(t)
    <3>1. d.pc = "save" /\ d.saving = "history"
      BY <2>c, <2>5 DEF Record, Calls
    <3>. QED BY <3>1, <2>2, Assumed DEF Saves
  <2>6. CASE LockState(t)
    <3>1. d.pc = "write" /\ d.saving = c.saving /\ d.payload = Payload(reg) /\ c.pc = "save"
      BY <2>c, <2>6 DEF LockState, At, Calls
    <3>2. \A s \in Threads : s # t => call'[s].pc # "write"
      BY <2>o, <2>6, Assumed DEF Holding, LockState, StateLockFree
    <3>3. Payload(reg)' = Payload(reg) /\ Saving(d)
      BY <2>6, <3>1, <2>s DEF LockState, Payload, Saving
    <3>. QED BY <3>1, <3>2, <3>3 DEF FileBehind
  <2>w. ASSUME c.pc = "write" \/ stateLock = None,
               ~(d.pc = "write") PROVE \A s \in Threads : call'[s].pc # "write"
    BY <2>w, <2>o, Assumed DEF Holding
  <2>7. CASE Write(t)
    <3>1. c.pc = "write" /\ d = AfterSave(c, TRUE) /\ reg' = reg /\ history' = history
          /\ drift' = "none"
          /\ file' = [saved |-> c.payload, history |-> history]
      BY <2>c, <2>7 DEF Write, At
    <3>2. d.pc # "write"
      <4>1. Saved(c, TRUE, AfterSave(c, TRUE))
        BY <3>1, <2>c, AfterSaveIs
      <4>. QED BY <4>1, <3>1 DEF Saved
    <3>3. c.payload = Payload(reg) \/ \E s \in Threads : call[s].pc = "save"
      BY <3>1 DEF FileBehind
    <3>4. CASE c.payload = Payload(reg)
      <4>1. file' = CacheFile(reg, history)'
        BY <3>1, <3>4 DEF CacheFile, Payload
      <4>. QED BY <3>1, <3>2, <2>w, <4>1 DEF FileBehind
    <3>5. CASE \E s \in Threads : call[s].pc = "save"
      <4>1. PICK s \in Threads : call[s].pc = "save"
        BY <3>5
      <4>2. s # t /\ Saving(call'[s])
        BY <4>1, <3>1, <2>o, <2>s DEF Saving
      <4>. QED BY <3>1, <3>2, <2>w, <4>2 DEF FileBehind
    <3>. QED BY <3>3, <3>4, <3>5
  <2>8. CASE SaveFails(t)
    <3>1. c.pc = "write" \/ (c.pc = "save" /\ stateLock = None)
      BY <2>8 DEF SaveFails, At, StateLockFree
    <3>2. d = AfterSave(c, FALSE) /\ drift' \in {"failed", "overwritten"}
      BY <2>8, <2>c DEF SaveFails
    <3>3. d.pc # "write"
      <4>1. Saved(c, FALSE, AfterSave(c, FALSE))
        BY <3>1, <2>c, AfterSaveIs
      <4>. QED BY <4>1, <3>2 DEF Saved
    <3>. QED BY <3>1, <3>2, <3>3, <2>w DEF FileBehind
  <2>. QED BY <1>1, <2>1, <2>3, <2>4, <2>5, <2>6, <2>7, <2>8 DEF Operate, Plain
<1>2. CASE ConfigChanges
  BY <1>2 DEF ConfigChanges, past, FileBehind, Payload, CacheFile, Saving
<1>3. CASE Restart
  <2>1. file = [saved |-> file.saved, history |-> file.history] /\ file.saved \in Payloads
    BY DEF Typing, Typed
  <2>2. \A t \in Threads : call'[t].pc = "idle"
    BY <1>3, IdleIs DEF Restart, StartLoaded, StartBlank, Starts
  <2>3. CASE StartLoaded
    <3>1. Payload(reg)' = file.saved
      BY <2>3, <2>1 DEF StartLoaded, Load, Payload, Payloads
    <3>2. file' = CacheFile(reg, history)'
      BY <2>3, <2>1, <3>1 DEF StartLoaded, Starts, CacheFile
    <3>. QED BY <3>2, <2>2 DEF FileBehind
  <2>4. CASE StartBlank
    BY <2>4, <2>2 DEF StartBlank, FileBehind
  <2>. QED BY <1>3, <2>3, <2>4 DEF Restart
<1>4. CASE UNCHANGED vars
  BY <1>4 DEF vars, past, FileBehind, Payload, CacheFile, Saving
<1>5. CASE OtherBackend
  BY <1>5 DEF OtherBackend, OtherSaves, OtherBacksUp, past, FileBehind, Payload,
      CacheFile, Saving
<1>. QED BY <1>1, <1>2, <1>3, <1>4, <1>5 DEF Next, Alone, Serve

(* Nobody holds a lock at first.                                           *)
LEMMA InitHolding == Init => Holding /\ FileBehind
BY IdleIs, Assumed DEF Init, Holding, StatusTellsHolder, InOperation, FileBehind, Saves

(* Locks, status and file go together in every reachable state.            *)
THEOREM LockInvariant == Spec => [](Typing /\ Holding /\ FileBehind)
<1>1. Init => Typing
  BY InitTyped DEF Typing
<1>. QED BY <1>1, InitHolding, TypingStep, HoldingStep, FileBehindStep, PTL DEF Spec

(* StatusTellsHolder: with run_operation entered and left by any number of *)
(* threads, one operation runs at a time and the status is that one's.     *)
THEOREM StatusCorrect == Spec => []StatusTellsHolder
<1>1. Holding => StatusTellsHolder
  BY DEF Holding
<1>. QED BY <1>1, LockInvariant, PTL

(* FileFollowsMemory: with no save under way and the last one not failed,  *)
(* the file is the registry and the history, whatever order threads        *)
(* changed and saved them in.                                              *)
THEOREM FileCorrect == Spec => []FileFollowsMemory
<1>1. FileBehind => FileFollowsMemory
  BY DEF FileBehind, FileFollowsMemory
<1>. QED BY <1>1, LockInvariant, PTL

(* How a plain step changes what a call may tell its caller. *)
NamedAs(c, d) ==
  /\ Named(d)
  /\ Tells(d) /\ d.pc \in {"target", "answer"} =>
       Tells(c) /\ c.pc = "target" /\ d.name = c.name /\ d.field = c.field

(* A plain step lets a call tell its caller nothing new.                   *)
LEMMA NamedStep ==
  ASSUME Typing, NEW t \in Threads, Plain(t), Named(call[t])
  PROVE  NamedAs(call[t], call'[t])
<1>. DEFINE c == call[t]  d == call'[t]
<1>1. c \in Calls /\ Shaped(c) /\ call \in [Threads -> Calls]
  BY DEF Typing, Typed
<1>i. ASSUME c.pc \in Early PROVE ~Tells(c)
  BY <1>i, <1>1, Assumed DEF Shaped, Tells, Outs
<1>n. None \notin Manual
  BY Assumed DEF Kinds
<1>e. ASSUME End(t), c.pc = "target" \/ ~Tells(c) PROVE NamedAs(c, d)
  <2>1. d = Ended(c) /\ (Tells(d) => Tells(c)) /\ d.op = None
        /\ d.outcome \in {None, c.outcome}
        /\ (Tells(d) => d.name = c.name /\ d.field = c.field)
        /\ (d.kind # None => d.kind = c.kind /\ d.name = c.name)
    BY <1>e, <1>1, EndedIs DEF End
  <2>2. d.pc = "answer" \/ d.outcome # "same"
    BY <1>e, <1>1, IdleIs, Assumed DEF End, Ended, Outs
  <2>. QED BY <2>1, <2>2, <1>e, <1>n DEF Named, NamedAs
<1>k. ASSUME d.kind = c.kind, d.name = c.name, d.outcome = c.outcome, d.op = c.op,
             c.pc \notin {"target", "answer"},
             d.pc \notin {"target", "answer"}
      PROVE  NamedAs(c, d)
  BY <1>k DEF Named, NamedAs
<1>2. CASE StartRefresh(t)
  <2>1. d.kind = "refresh_games" /\ d.outcome = None /\ d.pc = "marker"
    BY <1>2, <1>1 DEF StartRefresh, Idle
  <2>. QED BY <2>1, Assumed DEF Named, NamedAs, Manual, Outs
<1>3. CASE StartHandler(t)
  <2>1. d.name \in Games /\ d.outcome = None /\ d.pc = "ensure"
    BY <1>3, <1>1 DEF StartHandler, Idle
  <2>. QED BY <2>1, Assumed DEF Named, NamedAs, Outs
<1>4. CASE EnsureRegistry(t)
  <2>1. d.kind = c.kind /\ d.name = c.name /\ d.outcome = c.outcome
        /\ d.pc \in {"marker", "match"} /\ c.pc = "ensure"
    BY <1>4, <1>1 DEF EnsureRegistry, Goto, At, Calls
  <2>. QED BY <2>1, <1>1, Assumed DEF Named, NamedAs, Shaped, Early, Outs
<1>5. CASE ReadMarker(t)
  BY <1>5, <1>1, <1>k DEF ReadMarker, At, Calls
<1>6. CASE Decide(t)
  BY <1>6, <1>1, <1>k, <1>e, <1>i DEF Decide, At, Calls, Goto, Early
<1>7. CASE TryLock(t)
  BY <1>7, <1>1, <1>k DEF TryLock, At, Calls, Goto
<1>8. CASE Locked(t)
  BY <1>8, <1>e, <1>i DEF Locked, At, Early
<1>9. CASE Begin(t)
  BY <1>9, <1>1, <1>k DEF Begin, At, Calls, Goto
<1>10. CASE Run(t)
  <2>1. d.kind = c.kind /\ d.name = c.name /\ d.op = c.op /\ c.op # "refresh"
        /\ d.pc = "finish"
    BY <1>10, <1>1 DEF Run, At, Calls, Shaped
  <2>. QED BY <2>1 DEF Named, NamedAs
<1>11. CASE Finish(t)
  BY <1>11, <1>1, <1>k DEF Finish, At, Calls, Goto
<1>12. CASE Unlock(t)
  <2>1. CASE End(t)
    <3>1. ~Tells(c)
      <4>1. d.pc \in {"idle", "answer"}
        BY <2>1, <1>1, EndedIs DEF End
      <4>2. c.pc = "unlock"
        BY <1>12 DEF Unlock, At
      <4>3. CASE c.kind = "refresh_games"
        BY <4>3 DEF Tells, Manual
      <4>4. CASE c.op = "refresh" /\ c.kind # "refresh_games"
        <5>1. c.outcome # "done"
          BY <1>12, <4>1, <4>4, <1>1 DEF Unlock, Calls
        <5>. QED BY <5>1, <4>2, <4>4 DEF Named, Tells
      <4>5. CASE c.op # "refresh" /\ c.kind # "refresh_games"
        <5>1. PICK f \in Records(c.kind, c.outcome) : RecordOrEnd(t, f)
          BY <1>12, <4>5 DEF Unlock
        <5>2. f = None
          BY <5>1, <4>1, <1>1 DEF RecordOrEnd, Calls
        <5>3. ASSUME Tells(c) PROVE Records(c.kind, c.outcome) \subseteq Fields
          BY <5>3 DEF Records, Tells, Manual, Fields
        <5>. QED BY <5>1, <5>2, <5>3, Assumed
      <4>. QED BY <4>3, <4>4, <4>5
    <3>. QED BY <3>1, <2>1, <1>e
  <2>2. CASE ~End(t)
    <3>1. d.kind = c.kind /\ d.name = c.name /\ d.op = c.op
          /\ d.outcome \in {None, c.outcome}
          /\ d.pc \in {"match", "record"}
      BY <1>12, <2>2, <1>1, UnlockIs DEF Calls
    <3>. QED BY <1>12, <3>1, Assumed DEF Named, NamedAs, Unlock, At, Outs
  <2>. QED BY <2>1, <2>2
<1>13. CASE ScanPreview(t)
  <2>1. d.kind = c.kind /\ d.name = c.name /\ d.outcome = c.outcome /\ d.op = c.op
        /\ d.pc = c.pc
        /\ d.field = c.field /\ c.pc # "answer"
    BY <1>13, <1>1 DEF ScanPreview, Scanning, Calls
  <2>. QED BY <2>1 DEF Named, NamedAs, Tells
<1>14. CASE ScanBackups(t)
  <2>1. d.kind = c.kind /\ d.name = c.name /\ d.outcome = c.outcome /\ d.op = c.op
        /\ d.pc = c.pc
        /\ d.field = c.field /\ c.pc # "answer"
    BY <1>14, <1>1 DEF ScanBackups, Scanning, Calls
  <2>. QED BY <2>1 DEF Named, NamedAs, Tells
<1>15. CASE ScanFails(t)
  <2>1. CASE End(t)
    <3>1. c.pc = "target" \/ c.pc \in Early
      BY <1>15 DEF ScanFails, Scanning, Early
    <3>. QED BY <3>1, <2>1, <1>e, <1>i
  <2>2. CASE ~End(t)
    <3>1. PICK o \in {"failed", "cancelled"} : d = [Refreshed(c) EXCEPT !.outcome = o,
          !.pc = "finish"]
      BY <1>15, <2>2, <1>1 DEF ScanFails
    <3>2. d.pc = "finish" /\ d.kind = c.kind /\ d.name = c.name /\ d.outcome # "same"
      BY <3>1, <1>1, RefreshedIs DEF Calls
    <3>. QED BY <3>2 DEF Named, NamedAs
  <2>. QED BY <2>1, <2>2
<1>16. CASE LoadAliases(t)
  BY <1>16, <1>1, <1>k DEF LoadAliases, Scanned, At, Calls
<1>17. CASE ApplyTargeted(t) /\ End(t)
  BY <1>17, <1>e DEF ApplyTargeted, Scanned, At
<1>18. CASE Answer(t)
  <2>1. d = Idle
    BY <1>18, <1>1 DEF Answer
  <2>. QED BY <2>1, IdleIs, <1>n, Assumed DEF Named, NamedAs, Outs
<1>19. CASE Match(t)
  <2>1. CASE End(t)
    BY <1>19, <2>1, <1>e, <1>i DEF Match, At, Early
  <2>2. CASE ~End(t)
    <3>1. /\ d.name = MatchingGame(c) /\ MatchingGame(c) # None
          /\ d.pc \in {"record", "lock"} /\ d.outcome = c.outcome /\ c.pc = "match"
      BY <1>19, <2>2, MatchIs DEF Match, At
    <3>2. MatchingGame(c) \in Games
      BY <3>1, <1>1 DEF MatchingGame, ById, Typing, Typed, Registries, IdMaps, GameMaps
    <3>3. d.outcome = None
      BY <3>1, <1>1 DEF Shaped, Early
    <3>. QED BY <3>1, <3>2, <3>3, Assumed DEF Named, NamedAs, Outs
  <2>. QED BY <2>1, <2>2
<1>. QED BY <1>2, <1>3, <1>4, <1>5, <1>6, <1>7, <1>8, <1>9, <1>10, <1>11, <1>12, <1>13,
            <1>14, <1>15,
            <1>16, <1>17, <1>18, <1>19 DEF Plain

(* What a caller is or will be told is in the history, and from its save   *)
(* on in the file.                                                         *)
LEMMA OnRecordStep == Typing /\ Holding /\ OnRecord /\ [Next]_vars => OnRecord'
<1>. SUFFICES ASSUME Typing, Holding, OnRecord, [Next]_vars PROVE OnRecord'
  OBVIOUS
<1>n. None \notin Manual /\ None \notin Saves
  BY Assumed DEF Kinds
<1>1. ASSUME NEW t \in Threads, StartRefresh(t) \/ StartHandler(t)
             \/ Operate(t) PROVE OnRecord'
  <2>. DEFINE c == call[t]  d == call'[t]
              Linked(x, h, f) ==
                Tells(x) =>
                  /\ x.saving = "history" => x.field \in h[x.name]
                  /\ x.pc \in {"target", "answer"} \/ x.saving = "target" =>
                      x.field \in f[x.name]
              Grow == \A g \in Games : /\ history[g] \subseteq history'[g]
                                       /\ Kept[g] \subseteq Kept'[g]
  <2>c. c \in Calls /\ Shaped(c) /\ call \in [Threads -> Calls] /\ Named(c) /\ Linked(c,
        history, Kept)
    BY DEF Typing, Typed, OnRecord
  <2>o. ASSUME NEW s \in Threads, s # t, Grow
        PROVE  Named(call'[s]) /\ Linked(call'[s], history', Kept')
    <3>1. /\ call'[s].kind = call[s].kind /\ call'[s].name = call[s].name
             /\ call'[s].pc = call[s].pc
          /\ call'[s].op = call[s].op /\ call'[s].outcome = call[s].outcome
          /\ call'[s].saving = call[s].saving /\ call'[s].field = call[s].field
      <4>1. call[s] \in Calls
        BY DEF Typing, Typed
      <4>2. call'[s] = call[s]
            \/ call'[s] = [call[s] EXCEPT !.overtaken = Overtaken(call[s])]
        BY <2>o, <1>1, OthersStay
      <4>. QED BY <4>1, <4>2 DEF Calls
    <3>2. Named(call[s]) /\ Linked(call[s], history, Kept)
      BY DEF OnRecord
    <3>. QED BY <2>o, <3>1, <3>2 DEF Named, Tells
  <2>g. ASSUME Grow, Named(d), Linked(d, history', Kept'),
               reported' \subseteq reported \cup {<<c.name, c.field>>},
               reported' = reported \/ (Tells(c) /\ c.pc = "answer")
        PROVE  OnRecord'
    <3>1. \A s \in Threads : Named(call'[s]) /\ Linked(call'[s], history', Kept')
      BY <2>g, <2>o
    <3>2. \A r \in reported' : r[1] \in Games /\ r[2] \in Kept'[r[1]]
      <4>. SUFFICES ASSUME NEW r \in reported' PROVE r[1] \in Games
                           /\ r[2] \in Kept'[r[1]]
        OBVIOUS
      <4>1. CASE r \in reported
        BY <4>1, <2>g DEF OnRecord
      <4>2. CASE r \notin reported
        <5>1. r = <<c.name, c.field>> /\ Tells(c) /\ c.pc = "answer"
          BY <4>2, <2>g
        <5>2. c.name \in Games /\ c.field \in Kept[c.name]
          BY <5>1, <2>c DEF Named, Tells
        <5>. QED BY <5>1, <5>2, <2>g
      <4>. QED BY <4>1, <4>2
    <3>. HIDE DEF c, d
    <3>. QED BY <3>1, <3>2 DEF OnRecord
  <2>k. ASSUME UNCHANGED <<history, file, drift>> PROVE Grow /\ Kept' = Kept
    BY <2>k DEF Kept
  <2>1. CASE Plain(t)
    <3>1. Grow
      BY <2>1, <2>k, PlainSteps
    <3>2. NamedAs(c, d)
      BY <2>1, <2>c, NamedStep
    <3>3. d.saving = None
      BY <2>1, PlainSteps
    <3>4. Linked(d, history', Kept')
      <4>1. Kept' = Kept
        BY <2>1, <2>k, PlainSteps
      <4>. QED BY <3>2, <3>3, <4>1, <1>n, <2>c DEF NamedAs, Saves
    <3>5. /\ reported' \subseteq reported \cup {<<c.name, c.field>>}
          /\ reported' = reported \/ (Tells(c) /\ c.pc = "answer")
      <4>1. CASE Answer(t)
        BY <4>1 DEF Answer, At
      <4>2. CASE ~Answer(t)
        <5>1. reported' = reported
          BY <4>2, <2>1 DEF Plain, past, StartRefresh, StartHandler, EnsureRegistry,
              ReadMarker, Decide, Match,
             TryLock, Locked, Begin, Run, Finish, Unlock, ScanPreview, ScanBackups,
                 ScanFails, LoadAliases, ApplyTargeted
        <5>. QED BY <5>1
      <4>. QED BY <4>1, <4>2
    <3>6. Named(d)
      BY <3>2 DEF NamedAs
    <3>. HIDE DEF c, d
    <3>. QED BY <3>1, <3>4, <3>5, <3>6, <2>g
  <2>2. CASE ApplyRefresh(t)
    <3>1. d = [Refreshed(c) EXCEPT !.pc = "save", !.saving = "refresh"]
          /\ Refreshed(c) \in Calls
      BY <2>2, <2>c, RefreshedIs DEF ApplyRefresh
    <3>2. d.kind = c.kind /\ d.name = c.name /\ d.outcome = c.outcome
          /\ d.saving = "refresh" /\ d.pc = "save"
      BY <2>c, <3>1, RefreshedIs DEF Calls
    <3>3. c.outcome = None
      BY <2>2, <2>c DEF ApplyRefresh, At, Shaped, Early
    <3>4. Named(d) /\ ~Tells(d)
      BY <2>c, <3>2, <3>3, Assumed DEF Named, Tells, Outs
    <3>5. UNCHANGED <<history, file, drift, reported>>
      BY <2>2 DEF ApplyRefresh, past
    <3>. HIDE DEF c, d
    <3>. QED BY <3>4, <3>5, <2>g, <2>k
  <2>3. CASE ApplyTargeted(t) /\ ~End(t)
    <3>1. d = [Refreshed(c) EXCEPT !.pc = "save", !.saving = "target",
          !.placed = c.made] /\ c.pc = "target"
      BY <2>3, TargetTypes
    <3>2. /\ d.kind = c.kind /\ d.name = c.name /\ d.outcome = c.outcome
             /\ d.saving = "target" /\ d.pc = "save"
          /\ d.op = c.op /\ d.field = c.field
      BY <2>c, <3>1, RefreshedIs DEF Calls
    <3>3. UNCHANGED <<history, file, drift, reported>>
      BY <2>3 DEF ApplyTargeted, past
    <3>4. Named(d) /\ Linked(d, history', Kept')
      BY <2>c, <2>k, <3>1, <3>2, <3>3 DEF Named, Tells
    <3>. HIDE DEF c, d
    <3>. QED BY <3>3, <3>4, <2>g, <2>k
  <2>4. CASE Record(t)
    <3>1. d = [c EXCEPT !.pc = "save", !.saving = "history"] /\ c.pc = "record"
      BY <2>c, <2>4 DEF Record, At
    <3>2. /\ d.kind = c.kind /\ d.name = c.name /\ d.outcome = c.outcome
             /\ d.saving = "history" /\ d.pc = "save"
          /\ d.op = c.op /\ d.field = c.field
      BY <2>c, <3>1 DEF Calls
    <3>3. history' = [history EXCEPT ![c.name] = @ \cup {c.field}] /\ UNCHANGED <<file, drift,
          reported>>
      BY <2>4 DEF Record, past
    <3>4. history \in [Games -> SUBSET Fields]
      BY DEF Typing, Typed, Histories
    <3>5. Grow
      BY <3>3, <3>4 DEF Kept
    <3>6. Named(d) /\ Linked(d, history', Kept')
      BY <2>c, <3>1, <3>2, <3>3, <3>4 DEF Named, Tells
    <3>. HIDE DEF c, d
    <3>. QED BY <3>3, <3>5, <3>6, <2>g
  <2>5. CASE LockState(t)
    <3>1. d = [c EXCEPT !.payload = Payload(reg), !.pc = "write"] /\ c.pc = "save"
      BY <2>c, <2>5 DEF LockState, At
    <3>2. /\ d.kind = c.kind /\ d.name = c.name /\ d.outcome = c.outcome
             /\ d.saving = c.saving /\ d.pc = "write"
          /\ d.op = c.op /\ d.field = c.field
      BY <2>c, <3>1 DEF Calls
    <3>3. UNCHANGED <<history, file, drift, reported>>
      BY <2>5 DEF LockState, past
    <3>4. Named(d) /\ Linked(d, history', Kept')
      BY <2>c, <2>k, <3>1, <3>2, <3>3 DEF Named, Tells
    <3>. HIDE DEF c, d
    <3>. QED BY <3>3, <3>4, <2>g, <2>k
  <2>n. ASSUME NEW ok \in BOOLEAN, d = AfterSave(c, ok), c.pc \in {"save", "write"}
        PROVE  Named(d) /\ Saved(c, ok, d)
    <3>1. Saved(c, ok, d)
      BY <2>n, <2>c, AfterSaveIs
    <3>2. d.kind \in Manual => d.name \in Games
      BY <3>1, <2>c, <1>n DEF Saved, Named
    <3>3. d.op = "refresh" /\ d.pc # "answer" => d.outcome # "same"
      <4>1. d.pc = "idle" => d.outcome # "same"
        BY <3>1, Assumed DEF Saved, Outs
      <4>2. d.pc = "finish" => d.outcome # "same"
        BY <3>1 DEF Saved
      <4>3. d.pc = "target" => d.op = c.op /\ d.outcome \in {c.outcome, "failed"}
        BY <3>1 DEF Saved
      <4>. QED BY <2>n, <2>c, <3>1, <4>1, <4>2, <4>3 DEF Named, Saved
    <3>. QED BY <3>1, <3>2, <3>3 DEF Named
  <2>6. CASE Write(t)
    <3>1. c.pc = "write" /\ d = AfterSave(c, TRUE) /\ history' = history
          /\ reported' = reported
          /\ file' = [saved |-> c.payload, history |-> history]
          /\ drift' = "none"
      BY <2>c, <2>6 DEF Write, At
    <3>2. Grow /\ \A g \in Games : Kept'[g] = history[g] /\ Kept[g] \subseteq history[g]
      BY <3>1 DEF Kept
    <3>3. Named(d) /\ Saved(c, TRUE, d)
      BY <3>1, <2>n
    <3>4. Linked(d, history', Kept')
      <4>. SUFFICES ASSUME Tells(d), d.pc \in {"target", "answer"}
           PROVE  d.field \in Kept'[d.name]
        BY <3>3, <1>n DEF Saved, Saves
      <4>1. c.name = d.name /\ c.field = d.field /\ Tells(c)
        BY <3>3 DEF Saved
      <4>2. c.saving \in {"history", "target"}
        BY <2>c, <3>1, <3>3 DEF Shaped, Calls, Saves, SaveOrNone, Saved
      <4>3. c.field \in history[c.name] \/ c.field \in Kept[c.name]
        BY <4>1, <4>2, <2>c
      <4>4. c.name \in Games
        BY <4>1, <2>c DEF Named, Tells
      <4>. QED BY <4>1, <4>3, <4>4, <3>2
    <3>. HIDE DEF c, d
    <3>. QED BY <3>1, <3>2, <3>3, <3>4, <2>g
  <2>7. CASE SaveFails(t)
    <3>1. c.pc \in {"save", "write"} /\ d = AfterSave(c, FALSE) /\ UNCHANGED <<history,
          file, reported>>
      BY <2>c, <2>7 DEF SaveFails, At
    <3>2. Grow /\ Kept' = Kept
      BY <3>1, <2>7 DEF SaveFails, Kept
    <3>3. Named(d) /\ Saved(c, FALSE, d)
      BY <3>1, <2>n
    <3>4. Linked(d, history', Kept')
      <4>. SUFFICES ASSUME Tells(d), d.pc \in {"target", "answer"}
           PROVE  d.field \in Kept'[d.name]
        BY <3>3, <1>n DEF Saved, Saves
      <4>1. c.name = d.name /\ c.field = d.field /\ Tells(c)
        BY <3>3 DEF Saved
      <4>2. c.saving = "target"
        BY <2>c, <3>1, <3>3 DEF Shaped, Calls, Saves, SaveOrNone, Saved
      <4>. QED BY <4>1, <4>2, <2>c, <3>2
    <3>. HIDE DEF c, d
    <3>. QED BY <3>1, <3>2, <3>3, <3>4, <2>g
  <2>. QED BY <1>1, <2>1, <2>2, <2>3, <2>4, <2>5, <2>6, <2>7 DEF Operate, Plain
<1>2. CASE ConfigChanges
  BY <1>2 DEF ConfigChanges, past, OnRecord, Kept
<1>3. CASE Restart
  <2>1. \A t \in Threads : Named(call'[t]) /\ ~Tells(call'[t])
    BY <1>3, <1>n, IdleIs, Assumed DEF Restart, StartLoaded, StartBlank, Starts, Named,
        Tells, Outs
  <2>2. reported' = {} \/ (reported' = reported /\ Kept' = file.history
                             /\ \A g \in Games : Kept[g] \subseteq file.history[g])
    <3>1. reported' = {} \/ (StartLoaded /\ reported' = reported /\ drift # "overwritten")
      BY <1>3 DEF Restart, StartLoaded, StartBlank
    <3>2. file.history = [g \in Games |-> file.history[g]]
      BY DEF Typing, Typed, Histories
    <3>. QED BY <3>1, <3>2 DEF StartLoaded, Starts, Kept
  <2>. QED BY <2>1, <2>2 DEF OnRecord
<1>4. CASE UNCHANGED vars
  BY <1>4 DEF vars, past, OnRecord, Kept
<1>5. CASE OtherBackend
  <2>1. UNCHANGED <<reported, call, history>>
        /\ (drift' = "overwritten" \/ UNCHANGED <<drift, file>>)
    BY <1>5 DEF OtherBackend, OtherSaves, OtherBacksUp, past
  <2>2. \A g \in Games : Kept[g] \subseteq Kept'[g]
    BY <2>1 DEF Kept
  <2>3. \A t \in Threads : Tells(call[t]) => call[t].name \in Games
    BY DEF OnRecord, Named, Tells
  <2>. QED BY <2>1, <2>2, <2>3 DEF OnRecord
<1>. QED BY <1>1, <1>2, <1>3, <1>4, <1>5 DEF Next, Alone, Serve

(* Nobody has been told anything at first.                                 *)
LEMMA InitOnRecord == Init => OnRecord
<1>1. None \notin Manual
  BY Assumed DEF Kinds
<1>. QED BY <1>1, IdleIs, Assumed DEF Init, OnRecord, Named,
            Tells, Outs

(* ReportedIsSaved: a manual operation that was reported as done is in     *)
(* this backend's history, and on disk unless another backend has saved    *)
(* over the file since, after any later saves, failures and restarts.      *)
THEOREM ReportedCorrect == Spec => []ReportedIsSaved
<1>1. OnRecord => ReportedIsSaved
  BY DEF OnRecord, ReportedIsSaved, Kept
<1>2. OnRecord /\ (Typing /\ Holding /\ FileBehind) /\ [Next]_vars => OnRecord'
  BY OnRecordStep
<1>. QED BY <1>1, <1>2, InitOnRecord, LockInvariant, PTL DEF Spec

(* What a call has read of Ludusavi stays true of it over a plain step.    *)
LEMMA KnowsStep ==
  ASSUME Typing, NEW t \in Threads, Plain(t), Knows(call[t]), reg.marker <= config
  PROVE  Knows(call[t])' /\ config' = config /\ backed \subseteq backed'
<1>. DEFINE c == call[t]  d == call'[t]
            KnowsMore(x) ==
              /\ x.marker <= config
              /\ x.preview # None => x.preview <= config
              /\ x.backups # None => x.backups \subseteq backed'
              /\ x.pc \in {"scan", "apply"} /\ x.preview # None => x.preview >= x.marker
              /\ x.pc = "apply" /\ x.aliases \notin {None, Unknown} => x.aliases >= x.marker
              /\ x.pc = "apply" /\ x.aliases = None =>
                  x.marker # Unknown /\ reg.aliasesMarker = x.marker
              /\ x.pc = "target" /\ x.preview # None => x.preview >= reg.marker
                  \/ x.overtaken
<1>1. c \in Calls /\ Shaped(c) /\ call \in [Threads -> Calls] /\ reg.marker \in Markers
  BY DEF Typing, Typed, Registries
<1>2. config' = config /\ backed \subseteq backed' /\ reg' = reg
  <2>1. CASE Run(t)
    BY <2>1 DEF Run
  <2>2. CASE ~Run(t)
    BY <2>2, PlainSteps DEF world, Plain, StartRefresh, StartHandler, EnsureRegistry,
        ReadMarker, Decide, Match, TryLock, Locked,
     Begin, Finish, Unlock, ScanPreview, ScanBackups, ScanFails, LoadAliases,
         ApplyTargeted, Answer
  <2>. QED BY <2>1, <2>2
<1>u. Unknown <= config /\ config \in Nat /\ config >= config /\ c.marker \in Nat
      /\ reg.marker \in Nat /\ None \notin Nat
  BY <1>1, Assumed DEF Unknown, Typing, Typed, Versions, Markers, Calls
<1>3. SUFFICES KnowsMore(d)
  BY <1>2 DEF Knows
<1>k. ASSUME d.marker = c.marker, d.preview = c.preview, d.backups = c.backups,
             d.pc \notin {"scan", "apply", "target"}
      PROVE  KnowsMore(d)
  BY <1>k, <1>2 DEF Knows
<1>e. ASSUME d.pc # "apply", d.marker = Unknown, d.preview = None, d.backups = None,
             d.aliases = None PROVE KnowsMore(d)
  BY <1>e, <1>u
<1>f. ASSUME End(t) PROVE KnowsMore(d)
  BY <1>f, <1>1, <1>e, EndedIs DEF End
<1>4. CASE StartRefresh(t)
  BY <1>4, <1>1, <1>e DEF StartRefresh, Idle
<1>5. CASE StartHandler(t)
  BY <1>5, <1>1, <1>e DEF StartHandler, Idle
<1>6. CASE EnsureRegistry(t)
  BY <1>6, <1>1, <1>k DEF EnsureRegistry, Goto, Calls
<1>7. CASE ReadMarker(t)
  <2>1. d.marker \in {config, Unknown} /\ d.preview = c.preview /\ d.backups = c.backups
        /\ d.pc \in {"decide", "lock"}
    BY <1>7, <1>1 DEF ReadMarker, Calls
  <2>. QED BY <2>1, <1>u, <1>2 DEF Knows
<1>8. CASE Decide(t)
  BY <1>8, <1>1, <1>k, <1>f DEF Decide, Goto, Calls
<1>9. CASE TryLock(t) \/ Finish(t)
  BY <1>9, <1>1, <1>k DEF TryLock, Finish, Goto, Calls
<1>10. CASE Locked(t)
  BY <1>10, <1>f DEF Locked
<1>11. CASE Begin(t)
  <2>1. d.marker = c.marker /\ d.preview = None /\ d.backups = None
        /\ d.pc \in {"scan", "run"}
    <3>1. c.pc = "begin" /\ c.preview = None /\ c.backups = None
      BY <1>11, <1>1 DEF Begin, At, Shaped
    <3>2. PICK p \in {"scan", "run"} : d = [c EXCEPT !.pc = p]
      BY <1>11, <1>1 DEF Begin, Goto
    <3>. HIDE DEF c, d
    <3>. QED BY <3>1, <3>2, <1>1 DEF Calls
  <2>. QED BY <2>1, <1>u, <1>2 DEF Knows
<1>12. CASE Run(t)
  BY <1>12, <1>1, <1>k DEF Run, Calls
<1>13. CASE Unlock(t)
  <2>1. CASE ~End(t)
    <3>1. \/ d = [c EXCEPT !.pc = "match", !.outcome = None]
          \/ \E f \in Fields : d = [c EXCEPT !.field = f, !.pc = "record"]
      BY <1>13, <2>1, UnlockIs
    <3>2. CASE d = [c EXCEPT !.pc = "match", !.outcome = None]
      BY <3>2, <1>1, <1>k DEF Calls
    <3>3. CASE \E f \in Fields : d = [c EXCEPT !.field = f, !.pc = "record"]
      BY <3>3, <1>1, <1>k DEF Calls
    <3>. QED BY <3>1, <3>2, <3>3
  <2>. QED BY <2>1, <1>f
<1>14. CASE ScanPreview(t)
  <2>1. d.marker = c.marker /\ d.preview = config /\ d.backups = c.backups
        /\ d.pc = c.pc /\ d.pc # "apply"
    BY <1>14, <1>1 DEF ScanPreview, Scanning, Calls
  <2>. QED BY <2>1, <1>u, <1>2 DEF Knows
<1>15. CASE ScanBackups(t)
  <2>1. d.marker = c.marker /\ d.preview = c.preview /\ d.backups = backed
        /\ d.pc = c.pc /\ d.aliases = c.aliases
        /\ d.overtaken = c.overtaken /\ d.pc # "apply"
    BY <1>15, <1>1 DEF ScanBackups, Scanning, Calls
  <2>. QED BY <2>1, <1>u, <1>2 DEF Knows
<1>16. CASE ScanFails(t)
  <2>1. CASE ~End(t)
    <3>1. PICK o \in {"failed", "cancelled"} : d = [Refreshed(c) EXCEPT !.outcome = o,
          !.pc = "finish"]
      BY <1>16, <2>1, <1>1 DEF ScanFails
    <3>2. d.marker = Unknown /\ d.preview = None /\ d.backups = None /\ d.aliases = None
          /\ d.pc = "finish"
      BY <3>1, <1>1, RefreshedIs DEF Calls
    <3>. QED BY <3>2, <1>e
  <2>. QED BY <2>1, <1>f
<1>17. CASE LoadAliases(t)
  <2>1. /\ d.marker = c.marker /\ d.preview = c.preview /\ d.backups = c.backups
           /\ d.pc = "apply" /\ c.pc = "scan"
        /\ d.aliases \in {config, Unknown, None}
        /\ d.aliases = None => c.marker # Unknown /\ reg.aliasesMarker = c.marker
    <3>1. PICK a \in (IF c.marker = Unknown \/ reg.aliasesMarker # c.marker
                      THEN {config, Unknown} ELSE {None}) :
             call' = [call EXCEPT ![t].aliases = a, ![t].pc = "apply"]
      BY <1>17 DEF LoadAliases
    <3>2. a \in {config, Unknown, None}
          /\ (a = None => c.marker # Unknown /\ reg.aliasesMarker = c.marker)
      BY <1>u DEF Unknown
    <3>3. c.pc = "scan"
      BY <1>17 DEF LoadAliases, Scanned, At
    <3>4. d = [c EXCEPT !.aliases = a, !.pc = "apply"]
      BY <3>1, <1>1
    <3>. HIDE DEF c, d
    <3>. QED BY <3>2, <3>3, <3>4, <1>1 DEF Calls
  <2>. QED BY <2>1, <1>u, <1>2 DEF Knows
<1>18. CASE Match(t)
  <2>1. CASE ~End(t)
    <3>1. d.marker = Unknown /\ d.pc \in {"record", "lock"} /\ Step(t)
      BY <1>18, <2>1, MatchIs, OwnSteps DEF Operate, Match, ApplyRefresh, At
    <3>2. d.preview = None /\ d.backups = None
      BY <3>1, Assumed DEF Step, WellFormed, Shaped
    <3>. QED BY <3>1, <3>2, <1>u
  <2>. QED BY <2>1, <1>f
<1>19. CASE Answer(t)
  BY <1>19, <1>1, <1>e, IdleIs DEF Answer
<1>. QED BY <1>4, <1>5, <1>6, <1>7, <1>8, <1>9, <1>10, <1>11, <1>12, <1>13, <1>14, <1>15,
            <1>16, <1>17, <1>18,
            <1>19, <1>f DEF Plain

(* A step adds no copy of the registry but the registry itself.            *)
LEMMA CopiesStep ==
  ASSUME Typing, NEW t \in Threads, StartRefresh(t) \/ StartHandler(t) \/ Operate(t)
  PROVE  /\ Copies' \subseteq Copies \cup {Payload(reg)'}
         /\ Own' \subseteq Own \cup {Payload(reg)'}
<1>. DEFINE c == call[t]  d == call'[t]
            Stays == file' = file /\ (drift = "overwritten" => drift' = "overwritten")
<1>c. c \in Calls /\ Shaped(c) /\ call \in [Threads -> Calls]
  BY DEF Typing, Typed
<1>o. \A s \in Threads : s # t => call'[s].pc = call[s].pc
      /\ call'[s].payload = call[s].payload
  <2>. SUFFICES ASSUME NEW s \in Threads, s # t PROVE call'[s].pc = call[s].pc
                       /\ call'[s].payload = call[s].payload
    OBVIOUS
  <2>1. call[s] \in Calls
    BY DEF Typing, Typed
  <2>2. call'[s] = call[s] \/ call'[s] = [call[s] EXCEPT !.overtaken = Overtaken(call[s])]
    BY OthersStay
  <2>. QED BY <2>1, <2>2 DEF Calls
<1>1. ASSUME Stays \/ (file'.saved = c.payload /\ c.pc = "write"),
             d.pc = "write" => d.payload = Payload(reg)'
      PROVE  /\ Copies' \subseteq Copies \cup {Payload(reg)'}
             /\ Own' \subseteq Own \cup {Payload(reg)'}
  <2>1. Copies' \subseteq Copies \cup {Payload(reg)'}
    BY <1>1, <1>o DEF Copies
  <2>2. Own' \subseteq Own \cup {Payload(reg)'}
    BY <1>1, <1>o DEF Own
  <2>. QED BY <2>1, <2>2
<1>2. CASE Plain(t)
  BY <1>1, <1>2, PlainSteps
<1>3. CASE ApplyRefresh(t)
  <2>1. d.pc = "save" /\ Stays
    BY <1>3, <1>c, RefreshedIs DEF ApplyRefresh, past, Calls
  <2>. QED BY <1>1, <2>1
<1>4. CASE ApplyTargeted(t) /\ ~End(t)
  <2>1. d.pc = "save" /\ Stays
    <3>1. d = [Refreshed(c) EXCEPT !.pc = "save", !.saving = "target",
          !.placed = c.made] /\ Stays
      BY <1>4, TargetTypes DEF ApplyTargeted, past
    <3>. QED BY <3>1, <1>c, RefreshedIs DEF Calls
  <2>. QED BY <1>1, <2>1
<1>5. CASE Record(t)
  <2>1. d.pc = "save" /\ Stays
    BY <1>5, <1>c DEF Record, past, Calls
  <2>. QED BY <1>1, <2>1
<1>6. CASE LockState(t)
  <2>1. d.payload = Payload(reg) /\ Stays /\ reg' = reg
    BY <1>6, <1>c DEF LockState, past, Calls
  <2>. QED BY <1>1, <2>1 DEF Payload
<1>7. CASE Write(t)
  <2>1. d = AfterSave(c, TRUE) /\ file'.saved = c.payload /\ c.pc = "write"
    BY <1>7, <1>c DEF Write, At
  <2>2. d.pc # "write"
    <3>1. Saved(c, TRUE, AfterSave(c, TRUE))
      BY <2>1, <1>c, AfterSaveIs
    <3>. QED BY <2>1, <3>1 DEF Saved
  <2>. QED BY <1>1, <2>1, <2>2
<1>8. CASE SaveFails(t)
  <2>1. d = AfterSave(c, FALSE) /\ Stays /\ c.pc \in {"save", "write"}
    BY <1>8, <1>c DEF SaveFails, At
  <2>2. d.pc # "write"
    <3>1. Saved(c, FALSE, AfterSave(c, FALSE))
      BY <2>1, <1>c, AfterSaveIs
    <3>. QED BY <2>1, <3>1 DEF Saved
  <2>. QED BY <1>1, <2>1, <2>2
<1>. QED BY <1>2, <1>3, <1>4, <1>5, <1>6, <1>7, <1>8 DEF Operate, Plain

(* The entry of a game, field by field.                                    *)
LEMMA EntryIs ==
  ASSUME NEW c, NEW g
  PROVE  /\ Entry(c, g).from = c.preview /\ Entry(c, g).late = c.overtaken
         /\ Entry(c, g).backup => g \in c.backups
         /\ g \in c.backups => Entry(c, g).backup
BY DEF Entry

(* A full refresh leaves a registry that is fresh, found and indexed.      *)
LEMMA RefreshedIsGood ==
  ASSUME Typing, NEW t \in Threads, ApplyRefresh(t), Knows(call[t]),
         reg.aliasesMarker # Unknown => reg.aliases >= reg.aliasesMarker
  PROVE  /\ GoodCopy(Payload(reg'))
         /\ reg'.aliasesMarker # Unknown => reg'.aliases >= reg'.aliasesMarker
<1>. DEFINE c == call[t]  v == c.preview  r == Payload(reg')
<1>1. /\ c \in Calls /\ c.pc = "apply" /\ v \in Versions /\ c.backups \in SUBSET Games
         /\ c.overtaken \in BOOLEAN
  BY DEF Typing, Typed, ApplyRefresh, At, Shaped, Calls, Previews, Lists
<1>2. v <= config /\ v >= c.marker /\ c.marker <= config /\ c.backups \subseteq backed
      /\ (c.aliases \notin {None, Unknown} => c.aliases >= c.marker)
      /\ (c.aliases = None => c.marker # Unknown /\ reg.aliasesMarker = c.marker)
  BY <1>1, Assumed DEF Knows, ApplyRefresh, At, Typing, Shaped
<1>3. /\ r.games = [g \in Listed(v) |-> Entry(c, g)]
      /\ r.ids = IdsOf(v) /\ r.marker = c.marker
  BY DEF ApplyRefresh, RefreshedRegistry, Replaced, Payload
<1>4. /\ DOMAIN r.games = Listed(v) /\ Listed(v) \subseteq DOMAIN Tracked[v]
      /\ \A g \in DOMAIN r.games : r.games[g].from = v /\ (r.games[g].backup =>
          g \in c.backups)
  <2>. HIDE DEF r, v, c
  <2>1. DOMAIN r.games = Listed(v) /\ Listed(v) \subseteq DOMAIN Tracked[v]
    BY <1>3 DEF Listed
  <2>2. ASSUME NEW g \in DOMAIN r.games
        PROVE  r.games[g] = Entry(c, g)
    BY <1>3, <2>1
  <2>. QED BY <2>1, <2>2, EntryIs DEF v
<1>5. \A i \in DOMAIN r.ids : r.ids[i] \in Listed(v) /\ Tracked[v][r.ids[i]] = i
  BY <1>1, <1>3, TrackedMaps
<1>. HIDE DEF r
<1>6. r.aliases = Unknown \/ r.aliases >= c.marker
  <2>1. r.aliases = IF c.aliases = None THEN reg.aliases ELSE c.aliases
    BY DEF ApplyRefresh, RefreshedRegistry, Replaced, Payload, r
  <2>. QED BY <1>2, <2>1
<1>7. FreshCopy(r)
  <2>1. c.marker = config => v = config
    BY <1>1, <1>2, Assumed DEF Typing, Typed, Versions
  <2>. HIDE DEF c, v
  <2>. QED BY <1>2, <1>3, <1>4, <1>6, <2>1 DEF FreshCopy
<1>8. FoundCopy(r)
  BY <1>2, <1>4 DEF FoundCopy
<1>9. IndexedCopy(r)
  BY <1>4, <1>5 DEF IndexedCopy, IdOf
<1>10. /\ reg'.aliases = IF c.aliases = None THEN reg.aliases ELSE c.aliases
       /\ reg'.aliasesMarker = AliasMarker(c)
  BY DEF ApplyRefresh, RefreshedRegistry, Replaced
<1>11. reg'.aliasesMarker # Unknown => reg'.aliases >= reg'.aliasesMarker
  BY <1>2, <1>10 DEF AliasMarker
<1>. QED BY <1>7, <1>8, <1>9, <1>11 DEF GoodCopy, r

(* So does a targeted refresh when the registry was such a one.            *)
LEMMA TargetedIsGood ==
  ASSUME Typing, NEW t \in Threads, ApplyTargeted(t), ~End(t), Knows(call[t]),
         GoodCopy(Payload(reg))
  PROVE  GoodCopy(Payload(reg'))
<1>. DEFINE c == call[t]  g == c.name  v == c.preview  r == Payload(reg) n == Payload(reg')
            new == Tracked[v][g]
            old == IF g \in DOMAIN reg.games THEN IdOf(g, reg.games[g]) ELSE NoId
<1>1. /\ c \in Calls /\ c.pc = "target" /\ v \in Versions /\ c.backups \in SUBSET Games
      /\ g \in DOMAIN Tracked[v]
      /\ reg' = [reg EXCEPT
           !.games = [x \in DOMAIN reg.games \cup {g} |-> IF x = g THEN Entry(c,
               g) ELSE reg.games[x]],
           !.ids = IdsWith(c)]
  BY TargetTypes DEF Typing, Typed
<1>2. v <= config /\ c.backups \subseteq backed /\ (v >= reg.marker \/ c.overtaken)
  <2>1. v # None /\ c.backups # None
    <3>1. v # None /\ c.backups # None
      BY DEF ApplyTargeted, Scanned
    <3>. QED BY <3>1
  <2>. QED BY <1>1, <2>1 DEF Knows
<1>3. /\ n.games = [x \in DOMAIN r.games \cup {g} |-> IF x = g THEN Entry(c,
         g) ELSE r.games[x]]
      /\ n.ids = IdsWith(c) /\ n.marker = r.marker /\ r.marker = reg.marker
          /\ n.aliases = r.aliases
          /\ r.games = reg.games /\ r.ids = reg.ids
  <2>1. reg \in Registries
    BY DEF Typing, Typed
  <2>. QED BY <1>1, <2>1 DEF Payload, Registries
<1>4. /\ DOMAIN n.games = DOMAIN r.games \cup {g}
      /\ n.games[g].from = v /\ (n.games[g].backup => g \in c.backups)
          /\ n.games[g].late = c.overtaken
      /\ \A x \in DOMAIN r.games : x # g => n.games[x] = r.games[x]
  <2>1. Entry(c, g).from = v /\ Entry(c, g).late = c.overtaken /\ (Entry(c, g).backup =>
        g \in c.backups)
    BY EntryIs
  <2>. HIDE DEF n, r, g, v, c
  <2>2. n.games[g] = Entry(c, g)
    BY <1>3
  <2>. QED BY <1>3, <2>1, <2>2
<1>5. IdsWith(c) = [i \in (DOMAIN r.ids \ {old}) \cup ({new} \ {NoId}) |->
                          IF i = new THEN g ELSE Restrict(r.ids, DOMAIN r.ids \ {old})[i]]
  BY <1>3 DEF IdsWith, Restrict
<1>6. old = IF g \in DOMAIN r.games THEN IdOf(g, r.games[g]) ELSE NoId
  BY <1>3
<1>. HIDE DEF n, r, new, old, g, v
<1>7. /\ DOMAIN n.ids = (DOMAIN r.ids \ {old}) \cup ({new} \ {NoId})
      /\ \A i \in DOMAIN n.ids : n.ids[i] = IF i = new THEN g ELSE r.ids[i]
  BY <1>3, <1>5 DEF Restrict
<1>8. FreshCopy(n)
  BY <1>2, <1>3, <1>4 DEF GoodCopy, FreshCopy, r
<1>9. FoundCopy(n)
  BY <1>1, <1>2, <1>4 DEF GoodCopy, FoundCopy, r
<1>10. IndexedCopy(n)
  <2>. SUFFICES ASSUME NEW i \in DOMAIN n.ids
       PROVE  n.ids[i] \in DOMAIN n.games /\ IdOf(n.ids[i], n.games[n.ids[i]]) = i
    BY DEF IndexedCopy
  <2>1. CASE i = new
    <3>1. n.ids[i] = g
      BY <2>1, <1>7
    <3>. QED BY <2>1, <3>1, <1>4 DEF IdOf, new
  <2>2. CASE i # new
    <3>1. i \in DOMAIN r.ids /\ i # old /\ n.ids[i] = r.ids[i]
      BY <2>2, <1>7
    <3>2. r.ids[i] \in DOMAIN r.games /\ IdOf(r.ids[i], r.games[r.ids[i]]) = i
      BY <3>1 DEF GoodCopy, IndexedCopy, r
    <3>3. r.ids[i] # g
      BY <3>1, <3>2, <1>6
    <3>. QED BY <3>1, <3>2, <3>3, <1>4
  <2>. QED BY <2>1, <2>2
<1>. QED BY <1>8, <1>9, <1>10 DEF GoodCopy, n

(* Configurations are numbers, and nobody is none.                         *)
LEMMA Numbers == Markers \subseteq Nat /\ Versions \subseteq Nat /\ None \notin Nat
BY Assumed DEF Markers, Unknown

(* Every copy of the registry is well typed.                               *)
LEMMA CopiesTyped == Typing => Copies \subseteq Payloads
BY DEF Typing, Typed, Shaped, Copies, Payload, Payloads, Registries

(* A restart leaves the file, and what the new backend begins with.        *)
LEMMA RestartIs ==
  ASSUME Typing, Restart
  PROVE  /\ Copies' = {Payload(reg'), file.saved} /\ UNCHANGED <<config, backed, file>>
         /\ Payload(reg') \in {file.saved, Payload(EmptyRegistry)}
         /\ reg'.aliasesMarker = Unknown
         /\ \A t \in Threads : call'[t] = Idle
<1>1. file.saved \in Payloads
  BY DEF Typing, Typed
<1>2. Payload(Load(file)) = file.saved /\ Load(file).aliasesMarker = Unknown
      /\ EmptyRegistry.aliasesMarker = Unknown
  BY <1>1 DEF Load, Payload, Payloads, EmptyRegistry
<1>3. reg' \in {Load(file), EmptyRegistry} /\ UNCHANGED <<config, backed, file>>
      /\ \A t \in Threads : call'[t] = Idle
  BY DEF Restart, StartLoaded, StartBlank, Starts, world
<1>. QED BY <1>2, <1>3, IdleIs DEF Copies, Payload

(* A registry with nothing in it is good.                                  *)
LEMMA EmptyIsGood == Typing => GoodCopy(Payload(EmptyRegistry))
<1>1. LET e == Payload(EmptyRegistry) IN
      e.games = << >> /\ e.ids = << >> /\ e.marker = Unknown /\ e.aliases = Unknown
  BY DEF Payload, EmptyRegistry
<1>2. DOMAIN << >> = {}
  OBVIOUS
<1>3. Typing => config \in Nat /\ config > 0
  BY Assumed DEF Typing, Typed, Versions
<1>. QED BY <1>1, <1>2, <1>3 DEF GoodCopy, FreshCopy, FoundCopy, IndexedCopy, Unknown

(* What is not a plain step starts, does or ends a save.                   *)
LEMMA SavingSteps ==
  ASSUME Typing, NEW t \in Threads, StartRefresh(t) \/ StartHandler(t) \/ Operate(t),
         ~Plain(t)
  PROVE  LET c == call[t] d == call'[t] IN
         /\ UNCHANGED <<world, known, reported>>
         /\ d.preview = None /\ d.backups = None /\ d.marker \in {c.marker, Unknown}
         /\ d.pc \notin {"scan", "apply"}
         /\ d.op \in {c.op, None}
<1>. DEFINE c == call[t]  d == call'[t]
            Goal == /\ d.preview = None /\ d.backups = None
                       /\ d.marker \in {c.marker, Unknown}
                    /\ d.pc \notin {"scan", "apply"} /\ d.op \in {c.op, None}
<1>c. c \in Calls /\ Shaped(c) /\ call \in [Threads -> Calls]
  BY DEF Typing, Typed
<1>w. UNCHANGED <<world, known, reported>>
  BY DEF Plain, Operate, world, past, ApplyRefresh, ApplyTargeted, Record, LockState,
      Write, SaveFails
<1>1. CASE ApplyRefresh(t)
  <2>1. d = [Refreshed(c) EXCEPT !.pc = "save", !.saving = "refresh"]
    BY <1>1 DEF ApplyRefresh
  <2>2. Goal
    BY <2>1, <1>c, RefreshedIs DEF Calls
  <2>. QED BY <2>2, <1>w
<1>2. CASE ApplyTargeted(t)
  <2>1. d = [Refreshed(c) EXCEPT !.pc = "save", !.saving = "target", !.placed = c.made]
    BY <1>2, TargetTypes DEF Plain
  <2>2. Goal
    BY <2>1, <1>c, RefreshedIs DEF Calls
  <2>. QED BY <2>2, <1>w
<1>3. CASE Record(t)
  <2>1. Goal
    BY <1>3, <1>c, Assumed DEF Record, At, Calls, Shaped
  <2>. QED BY <2>1, <1>w
<1>4. CASE LockState(t)
  <2>1. Goal
    BY <1>4, <1>c, Assumed DEF LockState, At, Calls, Shaped
  <2>. QED BY <2>1, <1>w
<1>5. ASSUME NEW ok \in BOOLEAN, c.pc \in {"save", "write"}, d = AfterSave(c, ok) PROVE Goal
  <2>1. Saved(c, ok, AfterSave(c, ok))
    BY <1>5, <1>c, AfterSaveIs
  <2>. QED BY <1>5, <2>1 DEF Saved
<1>6. CASE Write(t)
  <2>1. c.pc \in {"save", "write"} /\ d = AfterSave(c, TRUE)
    BY <1>6, <1>c DEF Write, At
  <2>2. Goal
    BY <2>1, <1>5
  <2>. QED BY <2>2, <1>w
<1>7. CASE SaveFails(t)
  <2>1. c.pc \in {"save", "write"} /\ d = AfterSave(c, FALSE)
    BY <1>7, <1>c DEF SaveFails, At
  <2>2. Goal
    BY <2>1, <1>5
  <2>. QED BY <2>2, <1>w
<1>. QED BY <1>1, <1>2, <1>3, <1>4, <1>6, <1>7 DEF Operate, Plain

(* Every copy of the registry stays good, and calls know no more of        *)
(* Ludusavi than it had.                                                   *)
LEMMA CurrentStep == Typing /\ Holding /\ Current /\ [Next]_vars => Current'
<1>. SUFFICES ASSUME Typing, Holding, Current, [Next]_vars PROVE Current'
  OBVIOUS
<1>g. ASSUME NEW r, GoodCopy(r), config' = config,
             backed \subseteq backed' PROVE GoodCopy(r)'
  BY <1>g DEF GoodCopy, FreshCopy, FoundCopy, IndexedCopy, IdOf
<1>m. Payload(reg) \in Copies /\ GoodCopy(Payload(reg)) /\ reg.marker <= config
      /\ reg.marker \in Nat /\ config \in Nat /\ Unknown <= config
  <2>1. Payload(reg) \in Copies /\ GoodCopy(Payload(reg))
    BY DEF Copies, Current
  <2>2. Payload(reg).marker = reg.marker
    BY DEF Payload
  <2>3. reg.marker <= config
    BY <2>1, <2>2 DEF GoodCopy, FreshCopy
  <2>4. reg.marker \in Nat /\ config \in Nat
    BY Numbers DEF Typing, Typed, Registries
  <2>. QED BY <2>1, <2>3, <2>4 DEF Unknown
<1>1. ASSUME NEW t \in Threads, StartRefresh(t) \/ StartHandler(t)
             \/ Operate(t) PROVE Current'
  <2>. DEFINE c == call[t]  d == call'[t]
  <2>c. c \in Calls /\ Knows(c)
    BY DEF Typing, Typed, Current
  <2>1. config' = config /\ backed \subseteq backed'
    BY <1>1, <1>m, <2>c, KnowsStep, SavingSteps DEF world
  <2>2. Knows(call[t])'
    <3>1. CASE Plain(t)
      BY <3>1, <1>m, <2>c, KnowsStep
    <3>2. CASE ~Plain(t)
      <4>1. d.preview = None /\ d.backups = None /\ d.marker \in {c.marker, Unknown}
            /\ d.pc \notin {"scan", "apply"}
        BY <3>2, <1>1, SavingSteps
      <4>. QED BY <4>1, <2>1, <2>c, <1>m DEF Knows
    <3>. QED BY <3>1, <3>2
  <2>3. ASSUME NEW s \in Threads, s # t PROVE Knows(call[s])'
    <3>1. Knows(call[s]) /\ call[s] \in Calls
      BY DEF Current, Typing, Typed
    <3>2. CASE ApplyRefresh(t)
      <4>1. call'[s] = [call[s] EXCEPT !.overtaken = Overtaken(call[s])]
        BY <3>2, <2>3 DEF ApplyRefresh
      <4>2. /\ call'[s].marker = call[s].marker /\ call'[s].preview = call[s].preview
            /\ call'[s].backups = call[s].backups /\ call'[s].pc = call[s].pc
                /\ call'[s].aliases = call[s].aliases
            /\ call'[s].overtaken = Overtaken(call[s])
        BY <4>1, <3>1 DEF Calls
      <4>3. call[s].pc # "apply"
        <5>1. call[t].pc = "apply"
          BY <3>2 DEF ApplyRefresh, At
        <5>. QED BY <5>1, <2>3 DEF Holding, StatusTellsHolder, InOperation
      <4>. QED BY <3>1, <4>2, <4>3, <2>1 DEF Knows, Overtaken
    <3>3. CASE ~ApplyRefresh(t)
      <4>1. call'[s] = call[s]
        BY <3>3, <2>3, <1>1, OthersStay
      <4>2. reg'.marker = reg.marker /\ reg'.aliasesMarker = reg.aliasesMarker
        <5>1. CASE ApplyTargeted(t) /\ ~End(t)
          BY <5>1, TargetTypes DEF Typing, Typed, Registries
        <5>2. CASE Plain(t)
          BY <5>2, PlainSteps
        <5>3. CASE ~Plain(t) /\ ~ApplyTargeted(t)
          BY <5>3, <3>3, <1>1 DEF Operate, Plain, Record, LockState, Write, SaveFails
        <5>. QED BY <5>1, <5>2, <5>3 DEF Plain
      <4>. QED BY <3>1, <4>1, <4>2, <2>1 DEF Knows
    <3>. QED BY <3>2, <3>3
  <2>4. GoodCopy(Payload(reg')) /\ (reg'.aliasesMarker # Unknown =>
        reg'.aliases >= reg'.aliasesMarker)
    <3>1. CASE ApplyRefresh(t)
      BY <3>1, <2>c, RefreshedIsGood DEF Current
    <3>2. CASE ApplyTargeted(t) /\ ~End(t)
      <4>1. reg'.aliases = reg.aliases /\ reg'.aliasesMarker = reg.aliasesMarker
        BY <3>2, TargetTypes DEF Typing, Typed, Registries
      <4>. QED BY <3>2, <4>1, <2>c, <1>m, TargetedIsGood DEF Current
    <3>3. CASE ~ApplyRefresh(t) /\ ~(ApplyTargeted(t) /\ ~End(t))
      <4>1. reg' = reg
        <5>1. CASE Plain(t)
          BY <5>1, PlainSteps
        <5>2. CASE ~Plain(t)
          BY <5>2, <3>3, <1>1 DEF Operate, Plain, Record, LockState, Write, SaveFails
        <5>. QED BY <5>1, <5>2
      <4>. QED BY <4>1, <1>m DEF Current
    <3>. QED BY <3>1, <3>2, <3>3
  <2>5. ASSUME NEW r \in Copies' PROVE GoodCopy(r)'
    <3>1. r \in Copies \/ r = Payload(reg')
      BY <1>1, CopiesStep DEF Payload
    <3>2. GoodCopy(r)
      BY <3>1, <2>4 DEF Current
    <3>. QED BY <3>2, <2>1, <1>g
  <2>. QED BY <2>2, <2>3, <2>4, <2>5 DEF Current
<1>2. CASE ConfigChanges
  <2>1. config' = config + 1 /\ backed' = backed /\ reg' = reg /\ call' = call
        /\ file' = file
    BY <1>2 DEF ConfigChanges
  <2>2. Copies' = Copies
    BY <2>1 DEF Copies, Payload
  <2>3. ASSUME NEW r \in Copies PROVE GoodCopy(r)'
    <3>1. GoodCopy(r) /\ r.marker \in Nat /\ r.games \in [DOMAIN r.games -> Entries]
      BY CopiesTyped, GameMapsAre, Assumed DEF Current, Payloads, Markers, Unknown
    <3>2. FreshCopy(r)'
      BY <3>1, <2>1, <1>m DEF GoodCopy, FreshCopy
    <3>3. \A g \in DOMAIN r.games : r.games[g].from \in Nat
      BY <3>1, Assumed DEF Entries
    <3>4. FoundCopy(r)'
      BY <3>1, <3>3, <2>1, <1>m DEF GoodCopy, FoundCopy
    <3>. QED BY <3>1, <3>2, <3>4 DEF GoodCopy, IndexedCopy, IdOf
  <2>4. ASSUME NEW t \in Threads PROVE Knows(call[t])'
    <3>1. Knows(call[t]) /\ call[t].marker \in Nat /\ (call[t].preview # None =>
          call[t].preview \in Nat)
      <4>1. call[t].marker \in Markers /\ call[t].preview \in Previews
        BY DEF Typing, Typed, Calls
      <4>. QED BY <4>1, Numbers DEF Current, Previews
    <3>. QED BY <3>1, <2>1, <1>m DEF Knows
  <2>. QED BY <2>1, <2>2, <2>3, <2>4 DEF Current
<1>3. CASE Restart
  <2>1. /\ Copies' \subseteq {file.saved, Payload(EmptyRegistry)}
        /\ file.saved \in Copies /\ config' = config /\ backed' = backed
        /\ \A t \in Threads : call'[t] = Idle
    BY <1>3, RestartIs DEF Copies
  <2>2. ASSUME NEW r \in Copies' PROVE GoodCopy(r)'
    BY <2>1, <2>2, <1>g, EmptyIsGood DEF Current
  <2>3. reg'.aliasesMarker = Unknown
    BY <1>3, RestartIs
  <2>4. \A t \in Threads : Knows(call[t])'
    BY <2>1, <1>m, IdleIs DEF Knows
  <2>. QED BY <2>2, <2>3, <2>4 DEF Current
<1>4. CASE UNCHANGED vars
  <2>1. config' = config /\ backed' = backed /\ reg' = reg /\ call' = call /\ file' = file
    BY <1>4 DEF vars, world
  <2>2. Copies' = Copies
    BY <2>1 DEF Copies, Payload
  <2>3. \A t \in Threads : Knows(call[t])'
    BY <2>1 DEF Current, Knows
  <2>. QED BY <2>1, <2>2, <2>3, <1>g DEF Current
<1>5. CASE OtherBackend
  <2>1. /\ config' = config /\ backed \subseteq backed' /\ reg' = reg /\ call' = call
        /\ file'.saved = file.saved \/ GoodCopy(file'.saved)
    BY <1>5 DEF OtherBackend, OtherSaves, OtherBacksUp, world
  <2>2. Copies' \subseteq Copies \cup {file'.saved}
    BY <2>1 DEF Copies, Payload
  <2>3. file.saved \in Copies
    BY DEF Copies
  <2>4. \A r \in Copies' : GoodCopy(r)'
    BY <2>1, <2>2, <2>3, <1>g DEF Current
  <2>5. \A t \in Threads : Knows(call[t])'
    BY <2>1 DEF Current, Knows
  <2>. QED BY <2>1, <2>4, <2>5 DEF Current
<1>. QED BY <1>1, <1>2, <1>3, <1>4, <1>5 DEF Next, Alone, Serve

(* The empty registry is good.                                             *)
LEMMA InitCurrent == Init => Current
<1>. SUFFICES ASSUME Init PROVE Current
  OBVIOUS
<1>1. Copies = {Payload(EmptyRegistry)}
  BY IdleIs DEF Init, Copies, CacheFile
<1>2. \A r \in Copies : GoodCopy(r)
  BY <1>1, InitTyped, EmptyIsGood DEF Typing
<1>3. \A t \in Threads : Knows(call[t])
  BY IdleIs DEF Init, Knows, Unknown
<1>. QED BY <1>2, <1>3 DEF Init, Current, EmptyRegistry

(* Every copy of the registry is good in every reachable state.            *)
THEOREM CurrentInvariant == Spec => [](Typing /\ Current)
<1>1. Current /\ (Typing /\ Holding /\ FileBehind) /\ [Next]_vars => Current'
  BY CurrentStep
<1>. QED BY <1>1, InitCurrent, LockInvariant, PTL DEF Spec

(* CurrentIsFresh: a registry whose marker is the configuration's lists    *)
(* every game listed there, holds neither entries nor aliases older than   *)
(* the marker, and asks again for aliases that could not be read, also     *)
(* when the configuration changes during scans and threads refresh at once. *)
THEOREM CurrentCorrect == Spec => []CurrentIsFresh
<1>1. Typing /\ Current => CurrentIsFresh
  <2>. SUFFICES ASSUME Typing, Current PROVE CurrentIsFresh
    OBVIOUS
  <2>1. Payload(reg) \in Copies /\ Payload(reg).games = reg.games
        /\ Payload(reg).marker = reg.marker
    BY DEF Payload, Copies
  <2>2. Payload(reg).aliases = reg.aliases
    BY DEF Payload
  <2>3. reg.aliases = Unknown => reg.aliasesMarker = Unknown
    <3>1. reg.aliasesMarker \in Nat /\ reg.aliases \in Nat
      BY Numbers DEF Typing, Typed, Registries
    <3>2. reg.aliasesMarker # Unknown => reg.aliases >= reg.aliasesMarker
      BY DEF Current
    <3>. QED BY <3>1, <3>2 DEF Unknown
  <2>. QED BY <2>1, <2>2, <2>3
         DEF Current, GoodCopy, FreshCopy, CurrentIsFresh, FreshEntry
<1>. QED BY <1>1, CurrentInvariant, PTL

(* IdsPointBack: matching by Steam app id never finds another game's       *)
(* entry, after any mix of full and targeted refreshes and restarts.       *)
THEOREM IdsCorrect == Spec => []IdsPointBack
<1>1. Current => IdsPointBack
  <2>1. Payload(reg) \in Copies /\ Payload(reg).games = reg.games
        /\ Payload(reg).ids = reg.ids
    BY DEF Payload, Copies
  <2>. QED BY <2>1 DEF Current, GoodCopy, IndexedCopy, IdsPointBack
<1>. QED BY <1>1, CurrentInvariant, PTL

(* Games are lost, and get backups, for good.                              *)
LEMMA HasBackupStays ==
  ASSUME Typing, NEW g, config' \in {config, config + 1}, backed \subseteq backed'
  PROVE  /\ NeverLost(g)' => NeverLost(g)
         /\ HasBackup(g) => HasBackup(g)'
<1>1. 1..config \subseteq 1..config'
  BY Numbers DEF Typing, Typed
<1>2. NeverLost(g)' => NeverLost(g)
  BY <1>1 DEF NeverLost
<1>. QED BY <1>2 DEF HasBackup

(* What a plain step makes of its call.                                    *)
Carries(c, d) ==
  /\ Works(d) /\ d.placed = FALSE
  /\ d.made => d.name = c.name
  /\ d.pc \in {"scan", "apply"} /\ d.backups # None =>
       d.backups = backed \/ (c.pc \in {"scan", "apply"} /\ c.backups = d.backups)

(* A plain step makes a backup only by running one, and the game of every  *)
(* operation was found by Ludusavi.                                        *)
LEMMA CarriesStep ==
  ASSUME Typing, NEW t \in Threads, Plain(t), config' = config, backed \subseteq backed',
         GoodCopy(Payload(reg)), Named(call[t]), Works(call[t]), Backs(call[t])
  PROVE  /\ Carries(call[t], call'[t]) /\ Backs(call[t])'
         /\ call'[t].made => call[t].made \/ (Run(t) /\ call[t].name \in backed')
<1>. DEFINE c == call[t]  d == call'[t]
            Goal == Carries(c, d) /\ Backs(call[t])' /\ (d.made => c.made \/ (Run(t)
                /\ c.name \in backed'))
<1>1. /\ c \in Calls /\ Shaped(c) /\ call \in [Threads -> Calls]
      /\ c.saving = None /\ d.saving = None /\ reg' = reg
      /\ \A g : HasBackup(g) => HasBackup(g)'
  BY PlainSteps, HasBackupStays DEF Typing, Typed
<1>n. None \notin Saves /\ None \notin Ops /\ None \notin Outs /\ OpOf(None) = None
      /\ None \notin Kinds
      /\ "backup" # None /\ "restore" # None /\ "refresh" # None /\ "history" # None
          /\ "target" # None
      /\ "refresh_games" # None /\ "done" # None /\ "same" # None
  <2>1. None \notin Saves /\ None \notin Ops /\ None \notin Outs /\ None \notin Kinds
    BY Assumed
  <2>2. OpOf(None) = None
    BY <2>1, KindsAre DEF OpOf, Restores, Backups
  <2>. QED BY <2>1, <2>2 DEF Ops, Saves, Kinds, Outs
<1>p. c.pc # "answer" => c.placed = FALSE
  BY <1>1, <1>n DEF Shaped, Calls
<1>q. ASSUME d.op \in {None, "refresh"}, d.made = FALSE, d.placed = FALSE,
             d.pc \notin {"scan", "apply", "target", "record"},
             d.pc \in {"idle", "answer"} \/ d.kind # None,
             d.pc \in {"marker", "decide", "lock", "begin", "run", "finish", "unlock"} =>
                 d.op = "refresh"
      PROVE  Goal
  BY <1>q, <1>1, <1>n DEF Carries, Works, Backs
<1>k. ASSUME d.op = c.op, d.kind = c.kind, d.name = c.name, d.outcome = c.outcome,
             d.made = c.made, d.placed = FALSE,
             d.pc \notin {"scan", "apply", "target", "record", "ensure", "match"},
                 c.pc \notin {"idle", "answer"}, c.made => d.pc \notin Early,
             d.pc \in {"marker", "decide", "lock", "begin", "run", "finish", "unlock"} =>
                 d.op # None
      PROVE  Goal
  BY <1>k, <1>1, <1>n DEF Carries, Works, Backs
<1>e. ASSUME End(t), c.pc # "answer" PROVE Goal
  <2>1. /\ d.pc \in {"idle", "answer"} /\ d.op = None /\ d.made = FALSE /\ (d.placed =>
           c.placed)
        /\ d.placed \in BOOLEAN
    <3>1. d = Ended(c) /\ Ended(c) \in Calls
      BY <1>e, <1>1, EndedTyped DEF End, WellFormed
    <3>2. d.placed \in BOOLEAN
      BY <3>1 DEF Calls
    <3>3. /\ Ended(c).pc \in {"idle", "answer"} /\ Ended(c).op = None
             /\ Ended(c).made = FALSE
          /\ Ended(c).placed => c.placed
      BY <1>1, EndedIs
    <3>. QED BY <3>1, <3>2, <3>3
  <2>. QED BY <2>1, <1>e, <1>p, <1>q
<1>2. CASE StartRefresh(t)
  <2>1. d.op = "refresh" /\ d.made = FALSE /\ d.placed = FALSE /\ d.pc = "marker"
        /\ d.kind = "refresh_games"
    BY <1>2, <1>1 DEF StartRefresh, Idle
  <2>. QED BY <2>1, <1>q, <1>n
<1>3. CASE StartHandler(t)
  <2>1. d.op = None /\ d.made = FALSE /\ d.placed = FALSE /\ d.pc = "ensure"
        /\ d.kind \in Used
    BY <1>3, <1>1 DEF StartHandler, Idle
  <2>. QED BY <2>1, <1>q, <1>n, CoordinatorAssumption
<1>4. CASE Answer(t)
  <2>1. d.op = None /\ d.made = FALSE /\ d.placed = FALSE /\ d.pc = "idle"
    BY <1>4, <1>1 DEF Answer, Idle
  <2>. QED BY <2>1, <1>q
<1>5. CASE EnsureRegistry(t)
  <2>1. c.pc = "ensure" /\ c.made = FALSE /\ c.placed = FALSE /\ c.kind # None
        /\ c.op \in {None, "refresh"}
    BY <1>5, <1>1, <1>p DEF EnsureRegistry, At, Works, Early, Calls
  <2>2. CASE reg.games = << >>
    <3>1. d.op = "refresh" /\ d.made = FALSE /\ d.placed = FALSE /\ d.pc = "marker"
          /\ d.kind = c.kind
      BY <1>5, <1>1, <2>1, <2>2 DEF EnsureRegistry, Calls
    <3>. QED BY <3>1, <2>1, <1>q
  <2>3. CASE reg.games # << >>
    <3>1. /\ d.op = c.op /\ d.kind = c.kind /\ d.name = c.name /\ d.outcome = c.outcome
             /\ d.made = c.made
          /\ d.placed = FALSE /\ d.pc = "match"
      BY <1>5, <1>1, <2>1, <2>3 DEF EnsureRegistry, Goto, Calls
    <3>. QED BY <3>1, <2>1, <1>q
  <2>. QED BY <2>2, <2>3
<1>6. CASE ReadMarker(t)
  <2>1. /\ d.op = c.op /\ d.kind = c.kind /\ d.name = c.name /\ d.outcome = c.outcome
           /\ d.made = c.made
        /\ d.placed = c.placed /\ d.pc \in {"decide", "lock"} /\ c.pc = "marker"
    BY <1>6, <1>1 DEF ReadMarker, At, Calls
  <2>. QED BY <2>1, <1>k, <1>p DEF Works, Early
<1>7. CASE Decide(t)
  <2>1. CASE ~End(t)
    <3>1. /\ d.op = c.op /\ d.kind = c.kind /\ d.name = c.name /\ d.outcome = c.outcome
             /\ d.made = c.made
          /\ d.placed = c.placed /\ d.pc = "lock" /\ c.pc = "decide"
      BY <1>7, <2>1, <1>1 DEF Decide, Goto, At, Calls
    <3>. QED BY <3>1, <1>k, <1>p DEF Works, Early
  <2>. QED BY <2>1, <1>7, <1>e DEF Decide, At
<1>8. CASE TryLock(t)
  <2>1. /\ d.op = c.op /\ d.kind = c.kind /\ d.name = c.name /\ d.outcome = c.outcome
           /\ d.made = c.made
        /\ d.placed = c.placed /\ d.pc = "begin" /\ c.pc = "lock"
    BY <1>8, <1>1 DEF TryLock, Goto, At, Calls
  <2>. QED BY <2>1, <1>k, <1>p DEF Works, Early
<1>9. CASE Locked(t)
  BY <1>9, <1>e DEF Locked, At
<1>10. CASE Begin(t)
  <2>1. /\ d.op = c.op /\ d.kind = c.kind /\ d.name = c.name /\ d.outcome = c.outcome
           /\ d.made = c.made
        /\ d.placed = c.placed /\ d.pc \in {"scan", "run"} /\ c.pc = "begin"
            /\ d.backups = None
    BY <1>10, <1>1, Assumed DEF Begin, Goto, At, Calls, Shaped
  <2>2. d.placed = FALSE /\ d.made = FALSE
    BY <2>1, <1>1, <1>p DEF Works, Early, Calls
  <2>. QED BY <2>1, <2>2, <1>1, <1>n DEF Carries, Works, Backs
<1>11. CASE Finish(t)
  <2>1. /\ d.op = c.op /\ d.kind = c.kind /\ d.name = c.name /\ d.outcome = c.outcome
           /\ d.made = c.made
        /\ d.placed = c.placed /\ d.pc = "unlock" /\ c.pc = "finish"
    BY <1>11, <1>1 DEF Finish, Goto, At, Calls
  <2>. QED BY <2>1, <1>k, <1>p DEF Works, Early
<1>12. CASE ScanPreview(t) \/ ScanBackups(t)
  <2>1. /\ d.op = c.op /\ d.kind = c.kind /\ d.name = c.name /\ d.outcome = c.outcome
           /\ d.made = c.made
        /\ d.placed = c.placed /\ d.pc = c.pc /\ c.pc \in {"scan", "target"}
        /\ d.backups = c.backups \/ d.backups = backed
    BY <1>12, <1>1 DEF ScanPreview, ScanBackups, Scanning, Calls
  <2>2. d.placed = FALSE
    BY <2>1, <1>p
  <2>3. d.backups # None /\ c.pc = "target" => c.name \in d.backups \/ ~NeverLost(c.name)'
    BY <2>1, HasBackupStays DEF Backs, HasBackup
  <2>. QED BY <2>1, <2>2, <2>3, <1>1, <1>n DEF Carries, Works, Backs
<1>13. CASE LoadAliases(t)
  <2>1. /\ d.op = c.op /\ d.kind = c.kind /\ d.name = c.name /\ d.outcome = c.outcome
           /\ d.made = c.made
        /\ d.placed = c.placed /\ d.pc = "apply" /\ c.pc = "scan" /\ d.backups = c.backups
    BY <1>13, <1>1 DEF LoadAliases, Scanned, At, Calls
  <2>. QED BY <2>1, <1>1, <1>n, <1>p DEF Carries, Works, Backs, Early
<1>14. CASE ScanFails(t)
  <2>1. CASE ~End(t)
    <3>1. PICK o \in {"failed", "cancelled"} : d = [Refreshed(c) EXCEPT !.outcome = o,
          !.pc = "finish"]
      BY <1>14, <2>1, <1>1 DEF ScanFails
    <3>2. /\ d.pc = "finish" /\ d.op = c.op /\ d.made = c.made /\ d.placed = c.placed
             /\ d.kind = c.kind
      BY <3>1, <1>1, RefreshedIs DEF Calls
    <3>3. c.pc = "scan"
      BY <1>14, <2>1 DEF ScanFails, At
    <3>4. c.op = "refresh" /\ c.made = FALSE /\ c.kind # None
      BY <3>3, <1>1 DEF Shaped, Works, Early, Calls
    <3>. QED BY <3>2, <3>3, <3>4, <1>q, <1>p
  <2>. QED BY <2>1, <1>14, <1>e DEF ScanFails, Scanning
<1>15. CASE ApplyTargeted(t) /\ End(t)
  BY <1>15, <1>e DEF ApplyTargeted, Scanned, At
<1>16. CASE Run(t)
  <2>1. PICK o \in Outcomes(c), written \in {TRUE, FALSE} :
          /\ written => /\ c.op = "backup" /\ c.name \in DOMAIN Tracked[config]
          /\ (c.op = "backup" /\ o = "done" /\ c.name \in Listed(config)) => written
          /\ backed' = IF written THEN backed \cup {c.name} ELSE backed
          /\ call' = [call EXCEPT ![t].outcome = o, ![t].pc = "finish",
              ![t].made = written /\ o = "done"]
    BY <1>16 DEF Run
  <2>2. /\ d.op = c.op /\ d.kind = c.kind /\ d.name = c.name /\ d.outcome = o
           /\ d.pc = "finish"
        /\ d.placed = c.placed /\ (d.made => written) /\ c.pc = "run"
    BY <2>1, <1>16, <1>1 DEF Run, At, Calls
  <2>3. ASSUME c.op = "backup", o \in {"done", "same"} PROVE HasBackup(c.name)'
    <3>1. CASE o = "same"
      BY <2>1, <3>1, <2>2 DEF Outcomes, HasBackup
    <3>2. CASE o = "done" /\ c.name \in Listed(config)
      BY <2>1, <2>3, <3>2, <2>2 DEF HasBackup
    <3>3. CASE c.name \notin Listed(config)
      <4>1. PICK v \in 1..config : c.name \in DOMAIN Tracked[v]
        BY <2>3 DEF Backs
      <4>2. v <= config /\ config \in 1..config
        BY <4>1, Numbers DEF Typing, Typed, Versions
      <4>3. ~NeverLost(c.name)
        BY <3>3, <4>1, <4>2 DEF NeverLost
      <4>. QED BY <4>3, HasBackupStays, <2>2 DEF HasBackup
    <3>. QED BY <2>3, <3>1, <3>2, <3>3
  <2>4. Backs(call[t])'
    BY <2>2, <2>3, <1>1 DEF Backs
  <2>5. Works(d)
    BY <2>1, <2>2, <1>1, <1>n DEF Works, Early
  <2>. QED BY <2>1, <2>2, <2>4, <2>5, <1>16, <1>p DEF Carries
<1>17. CASE Unlock(t)
  <2>1. CASE ~End(t)
    <3>1. /\ d.op = c.op /\ d.kind = c.kind /\ d.name = c.name /\ d.made = c.made
          /\ d.placed = c.placed /\ c.pc = "unlock" /\ d.pc \in {"match", "record"}
      <4>1. CASE d = [c EXCEPT !.pc = "match", !.outcome = None]
        BY <4>1, <1>17, <1>1 DEF Unlock, At, Calls
      <4>2. CASE \E f \in Fields : d = [c EXCEPT !.field = f, !.pc = "record"]
        BY <4>2, <1>17, <1>1 DEF Unlock, At, Calls
      <4>. QED BY <4>1, <4>2, <1>17, <2>1, UnlockIs
    <3>2. c.op # None /\ c.placed = FALSE /\ (c.made => c.op = "backup") /\ c.kind # None
      BY <3>1, <1>p DEF Works
    <3>3. CASE d.pc = "match"
      <4>1. c.op = "refresh"
        BY <3>3, <1>17, <2>1, <1>1, UnlockIs DEF Calls
      <4>2. c.made = FALSE
        BY <4>1, <1>1 DEF Works, Calls
      <4>. QED BY <3>1, <3>2, <3>3, <4>1, <4>2, <1>q
    <3>4. CASE d.pc = "record"
      <4>1. d.outcome = c.outcome /\ (c.op # "refresh" \/ c.outcome # "done")
        <5>1. PICK f \in Fields : d = [c EXCEPT !.field = f, !.pc = "record"]
          BY <3>4, <1>17, <2>1, <1>1, UnlockIs DEF Calls
        <5>2. d.outcome = c.outcome
          BY <5>1, <1>1 DEF Calls
        <5>3. c.op = "refresh" => c.outcome # "done"
          <6>. SUFFICES ASSUME c.op = "refresh", c.outcome = "done" PROVE FALSE
            OBVIOUS
          <6>1. \/ End(t) \/ d.pc = "match"
            BY <1>17, <1>1 DEF Unlock, Calls
          <6>. QED BY <6>1, <2>1, <3>4
        <5>. QED BY <5>2, <5>3
      <4>2. c.outcome \in {"done", "same"} => c.op = OpOf(c.kind)
        BY <3>1, <3>2, <4>1 DEF Named, Works
      <4>. QED BY <3>1, <3>2, <3>4, <4>1, <4>2, <1>1, <1>n DEF Carries, Works, Backs, Early
    <3>. QED BY <3>1, <3>3, <3>4
  <2>. QED BY <2>1, <1>17, <1>e DEF Unlock, At
<1>18. CASE Match(t)
  <2>1. CASE ~End(t)
    <3>. DEFINE g == MatchingGame(c)
    <3>1. /\ d.name = g /\ g # None
          /\ d.pc \in {"record", "lock"} /\ d.placed = c.placed /\ d.outcome = c.outcome
          /\ d.made = c.made /\ d.kind = c.kind
          /\ d.pc = "lock" => d.op = OpOf(c.kind) /\ ~LacksBackup(c, g)
          /\ d.pc = "record" => d.op = c.op
      BY <1>18, <2>1, MatchIs
    <3>2. c.pc = "match" /\ c.outcome = None /\ c.made = FALSE /\ c.placed = FALSE
          /\ c.kind # None
          /\ c.op \in {None, "refresh"}
      BY <1>18, <1>1, <1>p DEF Match, At, Shaped, Early, Works, Calls
    <3>3. g \in DOMAIN reg.games
      BY <3>1 DEF MatchingGame, ById
    <3>4. /\ \E v \in 1..config : g \in DOMAIN Tracked[v]
          /\ reg.games[g].backup => g \in backed
      <4>1. Payload(reg).games = reg.games
        BY DEF Payload
      <4>2. reg.games[g].from <= config /\ g \in DOMAIN Tracked[reg.games[g].from]
            /\ (reg.games[g].backup => g \in backed)
        BY <3>3, <4>1 DEF GoodCopy, FoundCopy
      <4>3. reg.games[g].from \in Versions
        BY <3>3, GameMapsAre DEF Typing, Typed, Registries, Entries
      <4>4. reg.games[g].from \in 1..config
        BY <4>2, <4>3, Assumed DEF Typing, Typed, Versions
      <4>. QED BY <4>2, <4>4
    <3>5. CASE d.pc = "lock"
      <4>1. OpOf(c.kind) = "restore" => c.kind \in Restores
        BY <1>1, <1>n, KindsAre DEF OpOf, Calls, KindOrNone, Restores, Backups
      <4>2. d.op = "restore" => g \in backed
        BY <3>1, <3>4, <3>5, <4>1 DEF LacksBackup
      <4>3. OpOf(c.kind) # None
        BY <3>2, <1>1, <1>n, KindsAre DEF OpOf, Calls, KindOrNone
      <4>. QED BY <3>1, <3>2, <3>4, <3>5, <4>2, <4>3, <1>1, <1>n DEF Carries, Works,
                  Backs, HasBackup
    <3>6. CASE d.pc = "record"
      <4>. QED BY <3>1, <3>2, <3>4, <3>6, <1>1, <1>n DEF Carries, Works, Backs, HasBackup
    <3>. QED BY <3>1, <3>5, <3>6
  <2>. QED BY <2>1, <1>18, <1>e DEF Match, At
<1>. QED BY <1>2, <1>3, <1>4, <1>5, <1>6, <1>7, <1>8, <1>9, <1>10, <1>11, <1>12, <1>13,
            <1>14, <1>15, <1>16,
            <1>17, <1>18 DEF Plain

(* What a step that starts, does or ends a save makes of its call.         *)
LEMMA SavingCarries ==
  ASSUME Typing, NEW t \in Threads, StartRefresh(t) \/ StartHandler(t) \/ Operate(t),
         ~Plain(t),
         Works(call[t]), Backs(call[t])
  PROVE  /\ Works(call'[t]) /\ Backs(call[t])'
         /\ call'[t].made => call[t].made /\ call'[t].name = call[t].name
         /\ call'[t].placed => (call[t].made \/ call[t].placed)
             /\ call'[t].name = call[t].name
         /\ call'[t].pc = "answer" /\ call'[t].placed =>
              Write(t) /\ call[t].placed /\ call[t].pc = "write"
<1>. DEFINE c == call[t]  d == call'[t]
            Goal == /\ Works(d) /\ Backs(call[t])'
                    /\ d.made => c.made /\ d.name = c.name
                    /\ d.placed => (c.made \/ c.placed) /\ d.name = c.name
                    /\ d.pc = "answer" /\ d.placed => Write(t) /\ c.placed /\ c.pc = "write"
<1>1. /\ c \in Calls /\ Shaped(c) /\ call \in [Threads -> Calls]
      /\ config' = config /\ \A g : HasBackup(g) => HasBackup(g)'
  <2>1. UNCHANGED world
    BY SavingSteps
  <2>. QED BY <2>1, HasBackupStays DEF world, Typing, Typed
<1>n. None \notin Ops /\ None \notin Saves /\ OpOf(None) = None
      /\ "backup" # None /\ "restore" # None /\ "refresh" # None /\ "history" # None
          /\ "target" # None
  <2>1. None \notin Saves /\ None \notin Ops /\ None \notin Kinds
    BY Assumed
  <2>2. OpOf(None) = None
    BY <2>1, KindsAre DEF OpOf, Restores, Backups
  <2>. QED BY <2>1, <2>2 DEF Ops, Saves
<1>k. ASSUME d.op = c.op, d.kind = c.kind, d.name = c.name, d.outcome = c.outcome,
             d.made = c.made,
             d.pc \in {"save", "write"}, c.pc \notin {"idle", "answer"},
             d.saving = c.saving \/ d.saving \in {"refresh", "target"}
                 \/ (c.pc = "record" /\ d.saving = "history"),
             d.placed => c.made \/ c.placed
      PROVE  Goal
  BY <1>k, <1>1, <1>n DEF Works, Backs, Early
<1>2. CASE ApplyRefresh(t)
  <2>1. d = [Refreshed(c) EXCEPT !.pc = "save", !.saving = "refresh"] /\ c.pc = "apply"
    BY <1>2 DEF ApplyRefresh, At
  <2>2. /\ d.op = c.op /\ d.kind = c.kind /\ d.name = c.name /\ d.outcome = c.outcome
           /\ d.made = c.made
        /\ d.pc = "save" /\ d.saving = "refresh" /\ d.placed = c.placed
    BY <2>1, <1>1, RefreshedIs DEF Calls
  <2>. QED BY <2>1, <2>2, <1>k
<1>3. CASE ApplyTargeted(t)
  <2>1. d = [Refreshed(c) EXCEPT !.pc = "save", !.saving = "target", !.placed = c.made]
        /\ c.pc = "target"
    BY <1>3, TargetTypes DEF Plain
  <2>2. /\ d.op = c.op /\ d.kind = c.kind /\ d.name = c.name /\ d.outcome = c.outcome
           /\ d.made = c.made
        /\ d.pc = "save" /\ d.saving = "target" /\ d.placed = c.made
    BY <2>1, <1>1, RefreshedIs DEF Calls
  <2>. QED BY <2>1, <2>2, <1>k
<1>4. CASE Record(t)
  <2>1. /\ d.op = c.op /\ d.kind = c.kind /\ d.name = c.name /\ d.outcome = c.outcome
           /\ d.made = c.made
        /\ d.pc = "save" /\ d.saving = "history" /\ d.placed = c.placed /\ c.pc = "record"
    BY <1>4, <1>1 DEF Record, At, Calls
  <2>. QED BY <2>1, <1>k
<1>5. CASE LockState(t)
  <2>1. /\ d.op = c.op /\ d.kind = c.kind /\ d.name = c.name /\ d.outcome = c.outcome
           /\ d.made = c.made
        /\ d.pc = "write" /\ d.saving = c.saving /\ d.placed = c.placed /\ c.pc = "save"
    BY <1>5, <1>1 DEF LockState, At, Calls
  <2>. QED BY <2>1, <1>k
<1>6. ASSUME NEW ok \in BOOLEAN, c.pc \in {"save", "write"}, d = AfterSave(c, ok),
             ok = TRUE => Write(t) /\ c.pc = "write"
      PROVE  Goal
  <2>1. Saved(c, ok, d)
    BY <1>1, <1>6, AfterSaveIs
  <2>2. /\ d.pc \in {"finish", "target", "answer", "idle"} /\ d.saving = None
        /\ d.pc = "finish" => c.saving = "refresh"
        /\ d.pc = "target" => c.saving = "history" /\ Retargets(c.kind, d.outcome)
        /\ d.pc \in {"finish", "target"} => d.op = c.op /\ d.name = c.name
            /\ d.made = c.made /\ d.kind = c.kind
        /\ d.pc = "target" => d.outcome = c.outcome \/ d.outcome = "failed"
        /\ d.pc \in {"answer", "idle"} => d.op = None /\ d.made = FALSE
        /\ d.backups = None
        /\ d.placed => c.placed /\ ok = TRUE /\ d.pc = "answer" /\ d.name = c.name
    BY <2>1 DEF Saved
  <2>3. CASE d.pc \in {"answer", "idle"}
    BY <2>2, <2>3, <1>6, <1>n DEF Works, Backs
  <2>4. CASE d.pc = "finish"
    <3>1. c.op = "refresh" /\ d.op = "refresh" /\ d.made = c.made /\ ~c.made
          /\ d.kind = c.kind /\ d.name = c.name /\ c.kind # None
      BY <2>2, <2>4, <1>1, <1>6 DEF Shaped, Works
    <3>. QED BY <2>2, <2>4, <3>1, <1>n DEF Works, Backs
  <2>5. CASE d.pc = "target"
    <3>1. /\ d.outcome = c.outcome /\ c.outcome \in {"done", "same"}
          /\ c.kind \in {"force_backup", "force_restore", "backup_on_exit"}
      BY <2>2, <2>5 DEF Retargets, Manual
    <3>2. c.op = OpOf(c.kind)
      BY <2>2, <2>5, <3>1 DEF Works
    <3>3. c.op \in {"restore", "backup"}
      BY <3>1, <3>2 DEF OpOf, Restores, Backups
    <3>4. HasBackup(c.name)
      BY <3>1, <3>3 DEF Backs
    <3>5. d.op = c.op /\ d.name = c.name /\ d.made = c.made /\ d.kind = c.kind /\ ~d.placed
      BY <2>2, <2>5
    <3>6. Works(d)
      BY <2>2, <2>5, <3>2, <3>5, <1>6, <1>n DEF Works, Early
    <3>7. Backs(call[t])'
      BY <2>2, <2>5, <3>1, <3>4, <3>5, <1>1 DEF Backs
    <3>. QED BY <2>5, <3>5, <3>6, <3>7
  <2>. QED BY <2>2, <2>3, <2>4, <2>5
<1>7. CASE Write(t)
  <2>1. c.pc = "write" /\ d = AfterSave(c, TRUE)
    BY <1>7, <1>1 DEF Write, At
  <2>. QED BY <2>1, <1>6, <1>7
<1>8. CASE SaveFails(t)
  <2>1. c.pc \in {"save", "write"} /\ d = AfterSave(c, FALSE)
    BY <1>8, <1>1 DEF SaveFails, At
  <2>. QED BY <2>1, <1>6
<1>. QED BY <1>2, <1>3, <1>4, <1>5, <1>7, <1>8 DEF Operate, Plain

(* A step of one thread leaves the registry remembering what it did, as    *)
(* far as the backups made are concerned.                                  *)
LEMMA RegistryRemembers ==
  ASSUME Typing, NEW t \in Threads, StartRefresh(t) \/ StartHandler(t) \/ Operate(t),
         Backs(call[t]),
         call[t].pc = "apply" => Made \subseteq call[t].backups
  PROVE  /\ \A g \in Made : Remembers(reg, g) => Remembers(reg', g)
         /\ ApplyTargeted(t) /\ ~End(t) => Remembers(reg', call[t].name)
<1>. DEFINE c == call[t]
<1>1. CASE ApplyRefresh(t)
  <2>1. reg'.games = [g \in Listed(c.preview) |-> Entry(c, g)] /\ c.pc = "apply"
    BY <1>1 DEF ApplyRefresh, RefreshedRegistry, Replaced, At
  <2>2. \A g \in DOMAIN reg'.games : g \in c.backups => reg'.games[g].backup
    BY <2>1, EntryIs
  <2>3. \A g \in Made : Remembers(reg', g)
    BY <2>1, <2>2 DEF Remembers
  <2>. QED BY <1>1, <2>1, <2>3 DEF ApplyTargeted, Scanned, At
<1>2. CASE ApplyTargeted(t) /\ ~End(t)
  <2>. DEFINE n == c.name
  <2>1. /\ reg'.games = [x \in DOMAIN reg.games \cup {n} |-> IF x = n THEN Entry(c,
           n) ELSE reg.games[x]]
        /\ c.pc = "target" /\ c.backups # None
    BY <1>2, TargetTypes DEF Typing, Typed, Registries, ApplyTargeted, Scanned
  <2>2. NeverLost(n) => n \in c.backups
    BY <2>1 DEF Backs
  <2>. HIDE DEF c, n
  <2>3. \A g \in DOMAIN reg'.games : g # n => g \in DOMAIN reg.games
        /\ reg'.games[g] = reg.games[g]
    BY <2>1
  <2>4. n \in c.backups => reg'.games[n].backup
    BY <2>1, EntryIs
  <2>5. Remembers(reg', n)
    BY <2>2, <2>4 DEF Remembers
  <2>6. \A g : Remembers(reg, g) => Remembers(reg', g)
    BY <2>3, <2>5 DEF Remembers
  <2>. QED BY <2>5, <2>6 DEF n, c
<1>3. CASE ~ApplyRefresh(t) /\ ~(ApplyTargeted(t) /\ ~End(t))
  <2>1. CASE Plain(t)
    BY <1>3, <2>1, PlainSteps
  <2>2. CASE ~Plain(t)
    <3>1. reg' = reg
      BY <1>3, <2>2 DEF Operate, Plain, Record, LockState, Write, SaveFails
    <3>. QED BY <1>3, <3>1
  <2>. QED BY <2>1, <2>2
<1>. QED BY <1>1, <1>2, <1>3

(* No refresh puts a list of backups that is older than a backup over it:  *)
(* a full one holds the operation lock while it scans, so that no backup   *)
(* is made meanwhile, and a targeted one scans after its backup.           *)
LEMMA RememberedStep ==
  Typing /\ Holding /\ Current /\ OnRecord /\ Remembered /\ [Next]_vars => Remembered'
<1>. SUFFICES ASSUME Typing, Holding, Current, OnRecord, Remembered,
                     [Next]_vars PROVE Remembered'
  OBVIOUS
<1>g. GoodCopy(Payload(reg)) /\ reg.marker <= config /\ Payload(reg) \in Own
  <2>1. GoodCopy(Payload(reg)) /\ Payload(reg) \in Own
    BY DEF Current, Copies, Own
  <2>. QED BY <2>1 DEF GoodCopy, FreshCopy, Payload
<1>1. ASSUME NEW t \in Threads, StartRefresh(t) \/ StartHandler(t)
             \/ Operate(t) PROVE Remembered'
  <2>. DEFINE c == call[t]  d == call'[t]
  <2>c. /\ c \in Calls /\ Shaped(c) /\ call \in [Threads -> Calls]
        /\ Knows(c) /\ Named(c) /\ Works(c) /\ Backs(c) /\ Placed(c)
    BY DEF Typing, Typed, Current, OnRecord, Remembered
  <2>w. config' = config /\ backed \subseteq backed'
    BY <1>1, <1>g, <2>c, KnowsStep, SavingSteps DEF world
  <2>r. \A r, g : Remembers(r, g)' <=> Remembers(r, g)
    BY <2>w DEF Remembers, NeverLost
  <2>o. ASSUME NEW s \in Threads, s # t
        PROVE  /\ call'[s].pc = call[s].pc /\ call'[s].op = call[s].op
                  /\ call'[s].kind = call[s].kind
               /\ call'[s].name = call[s].name /\ call'[s].outcome = call[s].outcome
               /\ call'[s].made = call[s].made /\ call'[s].placed = call[s].placed
               /\ call'[s].backups = call[s].backups /\ call'[s].payload = call[s].payload
               /\ call'[s].saving = call[s].saving
    <3>1. call[s] \in Calls
      BY <2>c
    <3>2. call'[s] = call[s] \/ call'[s] = [call[s] EXCEPT !.overtaken = Overtaken(call[s])]
      BY <2>o, <1>1, OthersStay
    <3>. QED BY <3>1, <3>2 DEF Calls
  <2>d. /\ Works(d) /\ Backs(call[t])'
        /\ d.made \/ d.placed => d.name = c.name /\ (c.made \/ c.placed \/ (Run(t)
            /\ c.name \in backed'))
        /\ d.pc = "answer" /\ d.placed => Write(t) /\ c.placed /\ c.pc = "write"
            /\ d.name = c.name
    <3>1. CASE Plain(t)
      BY <3>1, <1>g, <2>c, <2>w, CarriesStep DEF Carries
    <3>2. CASE ~Plain(t)
      BY <3>2, <1>1, <2>c, SavingCarries
    <3>. QED BY <3>1, <3>2
  <2>k. known' = known \/ (known' = known \cup {c.name} /\ c.placed /\ c.pc = "answer")
    <3>1. CASE Answer(t)
      BY <3>1 DEF Answer, At
    <3>2. CASE ~Answer(t)
      BY <3>2, <1>1 DEF past, Operate, StartRefresh, StartHandler, EnsureRegistry,
          ReadMarker, Decide, Match,
         TryLock, Locked, Begin, Run, Finish, Unlock, ScanPreview, ScanBackups, ScanFails,
             LoadAliases,
         ApplyRefresh, ApplyTargeted, Record, LockState, Write, SaveFails
    <3>. QED BY <3>1, <3>2
  <2>m. /\ \A g \in Made' : g \in Made \/ (Run(t) /\ g \in backed')
        /\ Made' \subseteq backed'
    <3>1. ASSUME NEW g \in Made' PROVE g \in Made \/ (Run(t) /\ g \in backed')
      <4>1. CASE g \in known'
        BY <4>1, <2>k DEF Made
      <4>2. CASE g \notin known'
        <5>1. PICK s \in Threads : g = call'[s].name /\ (call'[s].made \/ call'[s].placed)
          BY <4>2 DEF Made
        <5>2. CASE s = t
          BY <5>1, <5>2, <2>d DEF Made
        <5>3. CASE s # t
          BY <5>1, <5>3, <2>o DEF Made
        <5>. QED BY <5>2, <5>3
      <4>. QED BY <4>1, <4>2
    <3>2. Made \subseteq backed
      BY DEF Remembered
    <3>. QED BY <3>1, <3>2, <2>w
  <2>1. ASSUME NEW s \in Threads, call'[s].pc \in {"scan", "apply"}, call'[s].backups # None
        PROVE  Made' \subseteq call'[s].backups
    <3>1. CASE s # t
      <4>1. call[s].pc \in {"scan", "apply"} /\ call[s].backups = call'[s].backups
            /\ call[s].backups # None
        BY <2>1, <3>1, <2>o
      <4>2. ~Run(t)
        <5>1. opLock = s
          BY <4>1 DEF Holding, StatusTellsHolder, InOperation
        <5>2. Run(t) => opLock = t
          BY DEF Run, At, Holding, StatusTellsHolder, InOperation
        <5>. QED BY <3>1, <5>1, <5>2
      <4>3. Made \subseteq call[s].backups
        BY <4>1 DEF Remembered
      <4>. QED BY <4>1, <4>2, <4>3, <2>m
    <3>2. CASE s = t /\ Plain(t)
      <4>1. Carries(c, d)
        BY <3>2, <1>g, <2>c, <2>w, CarriesStep
      <4>2. d.backups = backed \/ (c.pc \in {"scan", "apply"} /\ c.backups = d.backups)
        BY <2>1, <3>2, <4>1 DEF Carries
      <4>3. ~Run(t)
        <5>1. Run(t) => d.pc = "finish"
          BY <2>c DEF Run, Calls
        <5>. QED BY <2>1, <3>2, <5>1
      <4>4. Made \subseteq d.backups
        BY <2>1, <3>2, <4>2 DEF Remembered
      <4>. QED BY <3>2, <4>3, <4>4, <2>m
    <3>3. CASE s = t /\ ~Plain(t)
      BY <2>1, <3>3, <1>1, SavingSteps
    <3>. QED BY <3>1, <3>2, <3>3
  <2>2. /\ \A g \in Made : Remembers(reg, g) => Remembers(reg', g)
        /\ ApplyTargeted(t) /\ ~End(t) => Remembers(reg', c.name)
    <3>1. c.pc = "apply" => Made \subseteq c.backups
      BY <2>c DEF Remembered, Shaped
    <3>. QED BY <3>1, <1>1, <2>c, RegistryRemembers
  <2>3. ASSUME NEW s \in Threads PROVE Placed(call[s])'
    <3>1. CASE s # t
      <4>1. Placed(call[s]) /\ (call[s].placed => call[s].name \in Made)
        BY DEF Remembered, Made
      <4>. QED BY <3>1, <4>1, <2>o, <2>2, <2>r DEF Placed
    <3>2. CASE s = t /\ Plain(t)
      <4>1. d.placed = FALSE
        BY <3>2, <1>g, <2>c, <2>w, CarriesStep DEF Carries
      <4>. QED BY <3>2, <4>1 DEF Placed
    <3>3. CASE s = t /\ ~Plain(t)
      <4>. SUFFICES ASSUME d.placed
           PROVE  Remembers(reg', d.name) /\ (d.pc = "write" => Remembers(d.payload,
                  d.name))
        BY <3>3, <2>r DEF Placed
      <4>1. d.name = c.name /\ (c.placed => c.name \in Made)
        BY <2>d DEF Made
      <4>2. c.placed => Remembers(reg', c.name)
        BY <4>1, <2>2, <2>c DEF Placed
      <4>3. CASE ApplyTargeted(t)
        <5>1. d = [Refreshed(c) EXCEPT !.pc = "save", !.saving = "target",
              !.placed = c.made] /\ ~End(t)
          BY <4>3, <3>3, TargetTypes DEF Plain
        <5>2. d.pc = "save"
          <6>1. Refreshed(c) \in Calls
            BY <2>c, RefreshedIs
          <6>. QED BY <5>1, <6>1 DEF Calls
        <5>. QED BY <4>1, <4>3, <5>1, <5>2, <2>2
      <4>4. CASE LockState(t)
        <5>1. d.payload = Payload(reg) /\ d.placed = c.placed
          BY <4>4, <2>c DEF LockState, Calls
        <5>2. Remembers(Payload(reg), c.name)
          BY <5>1, <2>c DEF Placed, Remembers, Payload
        <5>. QED BY <4>1, <4>2, <5>1, <5>2
      <4>5. CASE ApplyRefresh(t)
        <5>1. d = [Refreshed(c) EXCEPT !.pc = "save", !.saving = "refresh"]
          BY <4>5 DEF ApplyRefresh
        <5>2. Refreshed(c) \in Calls /\ Refreshed(c).placed = c.placed
          BY <2>c, RefreshedIs
        <5>3. d.pc = "save" /\ d.placed = c.placed
          <6>. HIDE DEF c, d
          <6>. QED BY <5>1, <5>2 DEF Calls
        <5>. QED BY <4>1, <4>2, <5>3
      <4>6. CASE Record(t)
        <5>1. d.pc = "save" /\ d.placed = c.placed
          BY <4>6, <2>c DEF Record, Calls
        <5>. QED BY <4>1, <4>2, <5>1
      <4>7. ASSUME NEW ok \in BOOLEAN, d = AfterSave(c, ok), c.pc \in {"save", "write"}
            PROVE  d.pc # "write" /\ c.placed
        <5>1. Saved(c, ok, d)
          BY <4>7, <2>c, AfterSaveIs
        <5>. QED BY <5>1 DEF Saved
      <4>8. CASE Write(t)
        <5>1. d = AfterSave(c, TRUE) /\ c.pc = "write"
          BY <4>8, <2>c DEF Write, At
        <5>2. d.pc # "write" /\ c.placed
          BY <5>1, <4>7
        <5>. QED BY <5>2, <4>1, <4>2
      <4>9. CASE SaveFails(t)
        <5>1. d = AfterSave(c, FALSE) /\ c.pc \in {"save", "write"}
          BY <4>9, <2>c DEF SaveFails, At
        <5>2. d.pc # "write" /\ c.placed
          BY <5>1, <4>7
        <5>. QED BY <5>2, <4>1, <4>2
      <4>. QED BY <3>3, <1>1, <4>3, <4>4, <4>5, <4>6, <4>8, <4>9 DEF Operate, Plain
    <3>. QED BY <3>1, <3>2, <3>3
  <2>4. \A g \in Shown' : g \in Shown \/ (g = c.name /\ Write(t) /\ c.placed
        /\ c.pc = "write")
    <3>. SUFFICES ASSUME NEW g \in Shown'
         PROVE  g \in Shown \/ (g = c.name /\ Write(t) /\ c.placed /\ c.pc = "write")
      OBVIOUS
    <3>1. CASE g \in known'
      BY <3>1, <2>k DEF Shown
    <3>2. CASE g \notin known'
      <4>1. PICK s \in Threads : g = call'[s].name /\ call'[s].pc = "answer"
            /\ call'[s].placed
        BY <3>2 DEF Shown
      <4>2. CASE s = t
        BY <4>1, <4>2, <2>d
      <4>3. CASE s # t
        BY <4>1, <4>3, <2>o DEF Shown
      <4>. QED BY <4>2, <4>3
    <3>. QED BY <3>1, <3>2
  <2>5. Shown \subseteq Made
    BY DEF Shown, Made
  <2>6. ASSUME NEW g \in Shown', NEW r \in Own' PROVE Remembers(r, g)
    <3>1. r \in Own \/ r = Payload(reg')
      BY <1>1, CopiesStep DEF Payload
    <3>2. \A h : Remembers(Payload(reg'), h) <=> Remembers(reg', h)
      BY DEF Remembers, Payload
    <3>3. CASE g \in Shown
      <4>1. r \in Own => Remembers(r, g)
        BY <3>3 DEF Remembered
      <4>2. Remembers(reg, g)
        <5>1. Remembers(Payload(reg), g)
          BY <3>3, <1>g DEF Remembered
        <5>. QED BY <5>1 DEF Remembers, Payload
      <4>3. Remembers(reg', g)
        BY <4>2, <3>3, <2>2, <2>5
      <4>. QED BY <3>1, <3>2, <4>1, <4>3
    <3>4. CASE g = c.name /\ Write(t) /\ c.placed /\ c.pc = "write"
      <4>1. file'.saved = c.payload /\ reg' = reg /\ d = AfterSave(c, TRUE)
        BY <3>4, <2>c DEF Write
      <4>2. d.pc # "write"
        <5>1. Saved(c, TRUE, AfterSave(c, TRUE))
          BY <3>4, <2>c, AfterSaveIs
        <5>. QED BY <5>1, <4>1 DEF Saved
      <4>3. \A s \in Threads : call'[s].pc # "write"
        BY <3>4, <4>2, <2>o DEF Holding
      <4>4. r \in {Payload(reg'), c.payload}
        BY <4>1, <4>3 DEF Own, Payload
      <4>5. Remembers(reg, c.name) /\ Remembers(c.payload, c.name)
        BY <3>4, <2>c DEF Placed
      <4>. QED BY <3>2, <3>4, <4>1, <4>4, <4>5
    <3>. QED BY <3>3, <3>4, <2>4
  <2>7. ASSUME NEW s \in Threads PROVE Works(call'[s]) /\ Backs(call[s])'
    <3>1. CASE s # t
      <4>1. Works(call[s]) /\ Backs(call[s])
        BY DEF Remembered
      <4>2. Works(call'[s])
        BY <4>1, <3>1, <2>o DEF Works
      <4>3. \A h : /\ HasBackup(h) => HasBackup(h)'
                   /\ NeverLost(h)' => NeverLost(h)
        BY <2>w, HasBackupStays
      <4>4. Backs(call[s])'
        BY <4>1, <4>3, <3>1, <2>o, <2>w DEF Backs
      <4>. QED BY <4>2, <4>4
    <3>. QED BY <3>1, <2>d
  <2>8. \A s \in Threads :
          /\ Works(call[s])' /\ Backs(call[s])' /\ Placed(call[s])'
          /\ (call[s].pc \in {"scan", "apply"} /\ call[s].backups # None =>
              Made \subseteq call[s].backups)'
    <3>1. \A s \in Threads : Works(call[s])' <=> Works(call'[s])
      BY DEF Works
    <3>. QED BY <3>1, <2>1, <2>3, <2>7
  <2>9. \A g \in Shown', r \in Own' : Remembers(r, g)'
    BY <2>6, <2>r
  <2>. QED BY <2>m, <2>8, <2>9 DEF Remembered
<1>2. CASE ConfigChanges
  <2>1. config' = config + 1 /\ backed' = backed /\ reg' = reg /\ call' = call
        /\ file' = file /\ known' = known /\ drift' = drift
    BY <1>2 DEF ConfigChanges, past
  <2>2. Own' = Own /\ Made' = Made /\ Shown' = Shown
    BY <2>1 DEF Own, Payload, Made, Shown
  <2>3. \A h : (HasBackup(h) => HasBackup(h)') /\ (NeverLost(h)' => NeverLost(h))
    BY <2>1, HasBackupStays
  <2>4. \A r, g : Remembers(r, g) => Remembers(r, g)'
    BY <2>3 DEF Remembers
  <2>5. ASSUME NEW t \in Threads PROVE Works(call[t])' /\ Backs(call[t])'
               /\ Placed(call[t])'
    <3>1. Works(call[t]) /\ Backs(call[t]) /\ Placed(call[t])
      BY DEF Remembered
    <3>2. Works(call[t])'
      BY <3>1, <2>1 DEF Works
    <3>3. 1..config \subseteq 1..config'
      BY <2>1, Numbers DEF Typing, Typed
    <3>4. Backs(call[t])'
      BY <3>1, <3>3, <2>1, <2>3 DEF Backs
    <3>5. Placed(call[t])'
      BY <3>1, <2>1, <2>4 DEF Placed
    <3>. QED BY <3>2, <3>4, <3>5
  <2>. QED BY <2>1, <2>2, <2>4, <2>5 DEF Remembered
<1>3. CASE Restart
  <2>1. /\ config' = config /\ backed' = backed
        /\ \A t \in Threads : call'[t] = Idle
    BY <1>3, RestartIs
  <2>2. \A t \in Threads : call'[t].pc = "idle" /\ ~call'[t].made /\ ~call'[t].placed
        /\ call'[t].op = None
                           /\ call'[t].saving = None
    BY <2>1, IdleIs
  <2>3. Made' = known' /\ Shown' = known'
    BY <2>1, <2>2 DEF Made, Shown
  <2>4. /\ known \subseteq Made /\ known \subseteq Shown
        /\ Own' \subseteq {Payload(reg'), file.saved}
    BY <1>3, RestartIs, <2>2 DEF Made, Shown, Own, Payload
  <2>5. \A r, g : Remembers(r, g) => Remembers(r, g)'
    BY <2>1 DEF Remembers, NeverLost
  <2>6. None \notin Ops /\ None \notin Saves
    BY Assumed
  <2>7. \A t \in Threads : Works(call[t])' /\ Backs(call[t])' /\ Placed(call[t])'
    BY <2>2, <2>6 DEF Works, Backs, Placed, Ops, Saves
  <2>8. Made' \subseteq backed'
        /\ \A g \in Shown', r \in Own' : Remembers(r, g)'
    <3>1. CASE known' = {}
      BY <3>1, <2>3
    <3>2. CASE known' # {}
      <4>1. known' = known /\ drift # "overwritten" /\ Payload(reg') = file.saved
        <5>1. StartLoaded /\ known' = known /\ drift # "overwritten"
          BY <1>3, <3>2 DEF Restart, StartLoaded, StartBlank
        <5>2. file.saved \in Payloads
          BY DEF Typing, Typed
        <5>. QED BY <5>1, <5>2 DEF StartLoaded, Load, Payload, Payloads
      <4>2. file.saved \in Own
        BY <4>1 DEF Own
      <4>. QED BY <4>1, <4>2, <2>1, <2>3, <2>4, <2>5 DEF Remembered
    <3>. QED BY <3>1, <3>2
  <2>. QED BY <2>2, <2>7, <2>8 DEF Remembered
<1>4. CASE UNCHANGED vars
  <2>1. config' = config /\ backed' = backed /\ reg' = reg /\ call' = call
        /\ file' = file /\ known' = known /\ drift' = drift
    BY <1>4 DEF vars, world, past
  <2>2. Own' = Own /\ Made' = Made /\ Shown' = Shown
    BY <2>1 DEF Own, Payload, Made, Shown
  <2>3. \A r, g : Remembers(r, g) <=> Remembers(r, g)'
    BY <2>1 DEF Remembers, NeverLost
  <2>4. \A t \in Threads : Works(call[t])' /\ Backs(call[t])' /\ Placed(call[t])'
    BY <2>1, <2>3 DEF Remembered, Works, Backs, Placed, HasBackup, NeverLost
  <2>. QED BY <2>1, <2>2, <2>3, <2>4 DEF Remembered
<1>5. CASE OtherBackend
  <2>1. /\ config' = config /\ backed \subseteq backed' /\ reg' = reg /\ call' = call
        /\ known' = known
        /\ (file' = file /\ drift' = drift) \/ drift' = "overwritten"
    BY <1>5 DEF OtherBackend, OtherSaves, OtherBacksUp, world, past
  <2>2. Own' \subseteq Own /\ Made' = Made /\ Shown' = Shown
    BY <2>1 DEF Own, Payload, Made, Shown
  <2>3. \A r, g : Remembers(r, g) <=> Remembers(r, g)'
    BY <2>1 DEF Remembers, NeverLost
  <2>4. \A t \in Threads : Works(call[t])' /\ Backs(call[t])' /\ Placed(call[t])'
    BY <2>1, <2>3 DEF Remembered, Works, Backs, Placed, HasBackup, NeverLost
  <2>. QED BY <2>1, <2>2, <2>3, <2>4 DEF Remembered
<1>. QED BY <1>1, <1>2, <1>3, <1>4, <1>5 DEF Next, Alone, Serve

(* No backup has been made at first.                                       *)
LEMMA InitRemembered == Init => Remembered
<1>. SUFFICES ASSUME Init PROVE Remembered
  OBVIOUS
<1>1. \A t \in Threads : call[t].pc = "idle" /\ ~call[t].made /\ ~call[t].placed
      /\ call[t].op = None
                         /\ call[t].saving = None
  BY IdleIs DEF Init
<1>2. Made = {} /\ Shown = {}
  BY <1>1 DEF Init, Made, Shown
<1>3. None \notin Ops /\ None \notin Saves
  BY Assumed
<1>4. \A t \in Threads : Works(call[t]) /\ Backs(call[t]) /\ Placed(call[t])
  BY <1>1, <1>3 DEF Works, Backs, Placed, Ops, Saves
<1>. QED BY <1>1, <1>2, <1>4 DEF Remembered

(* BackupRemembered: a backup that a call has made and shown is not        *)
(* forgotten, in memory or in the file, unless Ludusavi had lost the game. *)
THEOREM BackupsCorrect == Spec => []BackupRemembered
<1>1. Init => OnRecord
  BY InitOnRecord
<1>2. Remembered => BackupRemembered
  <2>1. Payload(reg) \in Own /\ (drift # "overwritten" => file.saved \in Own)
        /\ Payload(reg).games = reg.games /\ known \subseteq Shown
    BY DEF Own, Payload, Shown
  <2>. QED BY <2>1 DEF Remembered, Remembers, BackupRemembered
<1>3. OnRecord /\ (Typing /\ Holding /\ FileBehind) /\ [Next]_vars => OnRecord'
  BY OnRecordStep
<1>4. Remembered /\ OnRecord /\ (Typing /\ Holding /\ FileBehind) /\ (Typing /\ Current)
      /\ [Next]_vars => Remembered'
  BY RememberedStep
<1>. QED BY <1>1, <1>2, <1>3, <1>4, InitRemembered, LockInvariant, CurrentInvariant,
            PTL DEF Spec
=============================================================================
