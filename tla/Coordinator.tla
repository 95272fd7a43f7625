---------------------------- MODULE Coordinator ----------------------------
(***************************************************************************)
(* LudusaviOperations and the service handlers that drive it: the global   *)
(* operation lock, the game registry with its config markers, the history  *)
(* and the cache file they are saved to.  Every call runs on a thread of   *)
(* its own and goes on step by step: a step is one critical section of the *)
(* registry, history, status or state lock, one Ludusavi command, or one   *)
(* read of the config marker.                                              *)
(*                                                                         *)
(* Ludusavi's answer is a function of the configuration (a version number, *)
(* told apart by its marker) and of the backups that exist.  The fields    *)
(* `from' and `late' of an entry are history: the configuration it was     *)
(* read at, and whether a refresh replaced the registry between that read  *)
(* and the insertion.  A fail-fast call that finds the operation lock held *)
(* and one that polls for it until its deadline differ only in when they   *)
(* look, which no step of the model depends on.                            *)
(*                                                                         *)
(* Backends follow one another, and one that should be gone may live on    *)
(* for a while: what such a backend does to the file and to the backups is *)
(* OtherBackend, any good file at any time.  Module Backends has two       *)
(* backends and shows that the second does no more than that.              *)
(***************************************************************************)
EXTENDS Naturals, Sequences, FiniteSets, Functions

CONSTANTS
  Threads,      \* RPC worker threads
  Used,         \* the kinds of calls that are made
  Games, Ids,   \* game names and Steam app ids
  AppIds,       \* the ids lifecycle calls may carry, NoId among them or not
  NoId, None,   \* no app id, nobody
  Existing,     \* the sets of games that may have a backup at first
  Tracked,      \* the games Ludusavi knows at each configuration: game |-> id
  Skipped,      \* of these, the ones without files or ignored by the user
  MaxCalls, MaxCrashes      \* bounds of the checked instance

Fields == {"last_backup", "last_restore", "last_skip", "last_failure"}
Outs == {"done", "failed", "cancelled", "same", "gate_lost"}
Saves == {"refresh", "target", "history"}

Manual == {"force_backup", "force_restore"}
Gated == {"restore_on_start", "keep_local"}
Lifecycle == Gated \cup {"check_start", "check_exit", "backup_on_exit"}
Kinds == Manual \cup Lifecycle \cup {"refresh_games", "list_backups"}
Ops == {"refresh", "restore", "backup", "check_start", "check_exit", "list_backups"}

ASSUME CoordinatorAssumption ==
  /\ None \notin Threads \cup Games \cup Nat
  /\ None \notin Kinds \cup Ops \cup Fields \cup Outs \cup Saves
  /\ NoId \notin Ids
  /\ Used \subseteq Kinds /\ AppIds \subseteq Ids \cup {NoId}
  /\ Existing \subseteq SUBSET Games
  /\ Len(Tracked) \in Nat \ {0}
  /\ \A v \in 1..Len(Tracked) :
        /\ DOMAIN Tracked[v] \subseteq Games
        /\ \A g \in DOMAIN Tracked[v] : Tracked[v][g] \in Ids \cup {NoId}
  /\ Skipped \in [1..Len(Tracked) -> SUBSET Games]
  /\ MaxCalls \in Nat /\ MaxCrashes \in Nat

VARIABLES
  config, backed,       \* Ludusavi's configuration and the games with a backup
  reg,                  \* registry
  history,              \* the fields of game_history that are set
  file,                 \* the cache file
  opLock, status,       \* operation_lock, and the name the status shows
  stateLock,            \* StateLock
  call,                 \* the call each thread is in
  calls, crashes,       \* how many there have been (bounds)
  drift,                \* why the file may differ from the memory (history)
  known,                \* backups a call has made and then refreshed (history)
  reported              \* history entries a call has told its caller of (history)

world == <<config, backed>>
past == <<drift, known, reported>>
bounds == <<calls, crashes>>
vars == <<world, reg, history, file, opLock, status, stateLock, call, bounds, past>>

Versions == 1..Len(Tracked)
Unknown == 0                    \* no marker, no aliases: they could not be read

(* The games of an unfiltered preview that refresh_statuses lists.         *)
Listed(v) == DOMAIN Tracked[v] \ Skipped[v]

Restores == {"force_restore", "restore_on_start"}
Backups == {"force_backup", "keep_local", "backup_on_exit"}

OpOf(k) ==
  CASE k \in Restores -> "restore"
    [] k \in Backups -> "backup"
    [] k = "refresh_games" -> "refresh"
    [] OTHER -> k

(* What a call leaves in the history once its command has ended so: a      *)
(* field, or None.                                                         *)
Records(k, outcome) ==
  CASE k \in {"refresh_games", "list_backups"} -> {None}
    [] k = "check_start" -> IF outcome = "done" THEN {None, "last_skip"}
                            ELSE IF outcome = "cancelled" THEN {"last_skip"} ELSE {None}
    [] k = "check_exit" -> IF outcome = "done" THEN {None, "last_skip"} ELSE {"last_skip"}
    [] outcome = "done" -> {IF k \in Restores THEN "last_restore" ELSE "last_backup"}
    [] outcome = "failed" -> {"last_failure"}
    [] OTHER -> {"last_skip"}           \* cancelled, unchanged, launch_gate_lost

(* The result of a handler whose ensure_registry refresh did not succeed,  *)
(* before any game was matched.                                            *)
RecordsUnmatched(k, outcome) ==
  IF \/ k \in Lifecycle /\ outcome = "cancelled"
     \/ k = "check_exit" /\ outcome = "failed"
  THEN "last_skip" ELSE None

Retargets(k, outcome) ==
  \/ k \in Manual /\ outcome \in {"done", "same"}
  \/ k = "backup_on_exit" /\ outcome = "done"

Idle == [pc |-> "idle", kind |-> None, name |-> None, app |-> NoId, force |-> FALSE,
         op |-> None, marker |-> Unknown, preview |-> None, backups |-> None,
         aliases |-> None, outcome |-> None, field |-> None,
         saving |-> None, payload |-> None,
         overtaken |-> FALSE, made |-> FALSE, placed |-> FALSE]

EmptyRegistry == [games |-> << >>, ids |-> << >>, marker |-> Unknown,
                  aliases |-> Unknown, aliasesMarker |-> Unknown]
NoHistory == [g \in Games |-> {}]

(* cache_payload: what of the registry is saved.                           *)
Payload(r) == [games |-> r.games, ids |-> r.ids, marker |-> r.marker, aliases |-> r.aliases]
CacheFile(r, h) == [saved |-> Payload(r), history |-> h]

Init ==
  /\ config = 1 /\ backed \in Existing
  /\ reg = EmptyRegistry /\ history = NoHistory
  /\ file = CacheFile(EmptyRegistry, NoHistory)
  /\ opLock = None /\ status = None /\ stateLock = None
  /\ call = [t \in Threads |-> Idle]
  /\ calls = 0 /\ crashes = 0
  /\ drift = "none" /\ known = {} /\ reported = {}

(* What a call knows of a refresh is dead once that refresh is over, and   *)
(* of everything else only what it tells its caller survives its end.      *)
Refreshed(c) == [c EXCEPT !.force = FALSE, !.marker = Unknown, !.preview = None,
                          !.backups = None, !.aliases = None, !.overtaken = FALSE]
Tells(c) == c.kind \in Manual /\ c.outcome \in {"done", "same"}
Ended(c) ==
  IF Tells(c) \/ c.placed
  THEN [Idle EXCEPT !.pc = "answer", !.kind = c.kind, !.name = c.name, !.field = c.field,
                    !.outcome = c.outcome, !.placed = c.placed]
  ELSE Idle

Goto(t, pc) == call' = [call EXCEPT ![t].pc = pc]
End(t) == call' = [call EXCEPT ![t] = Ended(@)]
At(t, pc) == call[t].pc = pc

(***************************************************************************)
(* A call begins: refresh_games, or a handler that needs the registry.     *)
(***************************************************************************)
StartRefresh(t) ==
  /\ At(t, "idle") /\ calls < MaxCalls /\ "refresh_games" \in Used
  /\ \E force \in BOOLEAN :
       call' = [call EXCEPT ![t] = [Idle EXCEPT !.pc = "marker", !.kind = "refresh_games",
                                                !.force = force, !.op = "refresh"]]
  /\ calls' = calls + 1
  /\ UNCHANGED <<world, reg, history, file, opLock, status, stateLock, crashes, past>>

StartHandler(t) ==
  /\ At(t, "idle") /\ calls < MaxCalls
  /\ \E k \in Used \ {"refresh_games"}, g \in Games :
       \E a \in IF k \in Lifecycle THEN AppIds ELSE {NoId} :
         call' = [call EXCEPT ![t] = [Idle EXCEPT !.pc = "ensure", !.kind = k, !.name = g,
                                                  !.app = a]]
  /\ calls' = calls + 1
  /\ UNCHANGED <<world, reg, history, file, opLock, status, stateLock, crashes, past>>

EnsureRegistry(t) ==
  /\ At(t, "ensure")
  /\ IF reg.games = << >>
     THEN call' = [call EXCEPT ![t].pc = "marker", ![t].op = "refresh"]
     ELSE Goto(t, "match")
  /\ UNCHANGED <<world, reg, history, file, opLock, status, stateLock, bounds, past>>

(* config_marker, read before anything of the refresh it is for.           *)
ReadMarker(t) ==
  /\ At(t, "marker")
  /\ \E m \in {config, Unknown} :
       call' = [call EXCEPT ![t].marker = m,
                  ![t].pc = IF call[t].kind = "refresh_games" THEN "decide" ELSE "lock"]
  /\ UNCHANGED <<world, reg, history, file, opLock, status, stateLock, bounds, past>>

(* `force' stands for an installed_app_ids list that differs as well.      *)
NeedsRefresh(c) ==
  c.force \/ reg.games = << >> \/ c.marker = Unknown \/ reg.marker # c.marker

Decide(t) ==
  /\ At(t, "decide")
  /\ IF NeedsRefresh(call[t]) THEN Goto(t, "lock") ELSE End(t)
  /\ UNCHANGED <<world, reg, history, file, opLock, status, stateLock, bounds, past>>

(***************************************************************************)
(* run_operation: the global lock, the status, the operation.              *)
(***************************************************************************)
Free(t) == opLock = None

TryLock(t) ==
  /\ At(t, "lock") /\ Free(t)
  /\ opLock' = t
  /\ Goto(t, "begin")
  /\ UNCHANGED <<world, reg, history, file, status, stateLock, bounds, past>>

(* At once, or at the deadline of a call that waits.                       *)
Locked(t) ==
  /\ At(t, "lock") /\ opLock # None
  /\ End(t)
  /\ UNCHANGED <<world, reg, history, file, opLock, status, stateLock, bounds, past>>

Begin(t) ==
  /\ At(t, "begin")
  /\ status' = call[t].op
  /\ Goto(t, IF call[t].op = "refresh" THEN "scan" ELSE "run")
  /\ UNCHANGED <<world, reg, history, file, opLock, stateLock, bounds, past>>

Outcomes(c) ==
  {"done", "failed", "cancelled"}
    \cup (IF c.kind \in Manual /\ c.name \in backed THEN {"same"} ELSE {})
    \cup (IF c.kind \in Gated THEN {"gate_lost"} ELSE {})

(* The Ludusavi command of an operation other than a refresh.  A backup    *)
(* that fails or is cancelled may have been written all the same.          *)
Run(t) ==
  /\ At(t, "run")
  /\ \E o \in Outcomes(call[t]), written \in {TRUE, FALSE} :
       /\ written => /\ call[t].op = "backup" /\ o \in {"done", "failed", "cancelled"}
                     /\ call[t].name \in DOMAIN Tracked[config]
       /\ (call[t].op = "backup" /\ o = "done" /\ call[t].name \in Listed(config))
             => written
       /\ backed' = IF written THEN backed \cup {call[t].name} ELSE backed
       /\ call' = [call EXCEPT ![t].outcome = o, ![t].pc = "finish",
                               ![t].made = written /\ o = "done"]
  /\ UNCHANGED <<config, reg, history, file, opLock, status, stateLock, bounds, past>>

(* Mutant: an error returns before the status is reset. *)
FinishIfDone(t) ==
  /\ At(t, "finish")
  /\ status' = IF call[t].outcome = "done" THEN None ELSE status
  /\ Goto(t, "unlock")
  /\ UNCHANGED <<world, reg, history, file, opLock, stateLock, bounds, past>>

Finish(t) ==
  /\ At(t, "finish")
  /\ status' = None
  /\ Goto(t, "unlock")
  /\ UNCHANGED <<world, reg, history, file, opLock, stateLock, bounds, past>>

RecordOrEnd(t, f) ==
  IF f = None THEN End(t) ELSE call' = [call EXCEPT ![t].field = f, ![t].pc = "record"]

(* The guard is dropped; the caller looks at the result.                   *)
Unlock(t) ==
  LET c == call[t] IN
  /\ At(t, "unlock")
  /\ opLock' = None
  /\ \/ /\ c.kind = "refresh_games"
        /\ End(t)
     \/ /\ c.kind # "refresh_games" /\ c.op = "refresh" /\ c.outcome = "done"
        /\ call' = [call EXCEPT ![t].pc = "match", ![t].outcome = None]
     \/ /\ c.kind # "refresh_games" /\ c.op = "refresh" /\ c.outcome # "done"
        /\ RecordOrEnd(t, RecordsUnmatched(c.kind, c.outcome))
     \/ /\ c.op # "refresh"
        /\ \E f \in Records(c.kind, c.outcome) : RecordOrEnd(t, f)
  /\ UNCHANGED <<world, reg, history, file, status, stateLock, bounds, past>>

(***************************************************************************)
(* refresh_statuses and refresh_targeted: two Ludusavi commands side by    *)
(* side, then the registry.  The first runs under the operation lock, the  *)
(* second after it was dropped.                                            *)
(***************************************************************************)
Scanning(c) == c.pc \in {"scan", "target"}

ScanPreview(t) ==
  /\ Scanning(call[t]) /\ call[t].preview = None
  /\ call' = [call EXCEPT ![t].preview = config]
  /\ UNCHANGED <<world, reg, history, file, opLock, status, stateLock, bounds, past>>

ScanBackups(t) ==
  /\ Scanning(call[t]) /\ call[t].backups = None
  /\ call' = [call EXCEPT ![t].backups = backed]
  /\ UNCHANGED <<world, reg, history, file, opLock, status, stateLock, bounds, past>>

Scanned(t, pc) == At(t, pc) /\ None \notin {call[t].preview, call[t].backups}

ScanFails(t) ==
  /\ Scanning(call[t])
  /\ \/ /\ At(t, "scan")
        /\ \E o \in {"failed", "cancelled"} :
             call' = [call EXCEPT ![t] = [Refreshed(@) EXCEPT !.outcome = o, !.pc = "finish"]]
     \/ /\ At(t, "target")
        /\ End(t)
  /\ UNCHANGED <<world, reg, history, file, opLock, status, stateLock, bounds, past>>

(* Aliases are read again unless they were read for this very marker.      *)
LoadAliases(t) ==
  LET m == call[t].marker IN
  /\ Scanned(t, "scan")
  /\ \E a \in (IF m = Unknown \/ reg.aliasesMarker # m THEN {config, Unknown} ELSE {None}) :
       call' = [call EXCEPT ![t].aliases = a, ![t].pc = "apply"]
  /\ UNCHANGED <<world, reg, history, file, opLock, status, stateLock, bounds, past>>

(* Mutant: the backups of a game without an id are not found. *)
EntryById(c, g) ==
  [backup |-> g \in c.backups /\ Tracked[c.preview][g] # NoId, from |-> c.preview, late |-> c.overtaken]
Entry(c, g) == [backup |-> g \in c.backups, from |-> c.preview, late |-> c.overtaken]
IdOf(g, entry) == Tracked[entry.from][g]

(* Mutant: games without an id are not left out. *)
IdsOfAll(v) ==
  [i \in {Tracked[v][g] : g \in Listed(v)} |->
     CHOOSE g \in Listed(v) : Tracked[v][g] = i]
IdsOf(v) ==
  [i \in {Tracked[v][g] : g \in Listed(v)} \ {NoId} |->
     CHOOSE g \in Listed(v) : Tracked[v][g] = i]

AliasMarker(c) ==
  CASE c.aliases = None -> reg.aliasesMarker
    [] c.aliases = Unknown -> Unknown
    [] OTHER -> c.marker
Replaced(c, marker) ==
  [games |-> [g \in Listed(c.preview) |-> Entry(c, g)],
   ids |-> IdsOf(c.preview),
   marker |-> marker,
   aliases |-> IF c.aliases = None THEN reg.aliases ELSE c.aliases,
   aliasesMarker |-> AliasMarker(c)]
(* Mutant: the marker is read after the scan. *)
RefreshedAfter(c) == Replaced(c, config)
RefreshedRegistry(c) == Replaced(c, c.marker)

(* A targeted refresh that has read its preview is overtaken by a refresh. *)
Overtaken(c) == c.overtaken \/ (c.pc = "target" /\ c.preview # None)

ApplyRefresh(t) ==
  LET c == call[t] IN
  /\ At(t, "apply")
  /\ reg' = RefreshedRegistry(c)
  /\ call' = [s \in Threads |->
                IF s = t THEN [Refreshed(c) EXCEPT !.pc = "save", !.saving = "refresh"]
                ELSE [call[s] EXCEPT !.overtaken = Overtaken(call[s])]]
  /\ UNCHANGED <<world, history, file, opLock, status, stateLock, bounds, past>>

(* Mutant: the old id stays. *)
IdsWithOld(c) ==
  LET new == Tracked[c.preview][c.name]
  IN [i \in DOMAIN reg.ids \cup ({new} \ {NoId}) |-> IF i = new THEN c.name ELSE reg.ids[i]]

(* The old id of the game goes, the new one comes.  A game that was asked  *)
(* for by name is taken in even if a full refresh would leave it out; no   *)
(* game found is no change.                                                *)
IdsWith(c) ==
  LET g == c.name
      old == IF g \in DOMAIN reg.games THEN IdOf(g, reg.games[g]) ELSE NoId
      new == Tracked[c.preview][g]
      kept == Restrict(reg.ids, DOMAIN reg.ids \ {old})
  IN [i \in DOMAIN kept \cup ({new} \ {NoId}) |-> IF i = new THEN g ELSE kept[i]]

ApplyTargeted(t) ==
  LET c == call[t] g == c.name IN
  /\ Scanned(t, "target")
  /\ \/ /\ g \notin DOMAIN Tracked[c.preview]
        /\ End(t)
        /\ UNCHANGED reg
     \/ /\ g \in DOMAIN Tracked[c.preview]
        /\ reg' = [reg EXCEPT
             !.games = [x \in DOMAIN reg.games \cup {g} |->
                          IF x = g THEN Entry(c, g) ELSE reg.games[x]],
             !.ids = IdsWith(c)]
        /\ call' = [call EXCEPT ![t] = [Refreshed(c) EXCEPT !.pc = "save", !.saving = "target",
                                                            !.placed = c.made]]
  /\ UNCHANGED <<world, history, file, opLock, status, stateLock, bounds, past>>

(***************************************************************************)
(* matching_game, by id and then by name (which stands for aliases and     *)
(* normalised names as well), and what is looked at before the operation:  *)
(* game_sync and error of a lifecycle handler, the gate, the backup of a   *)
(* restore.                                                                *)
(***************************************************************************)
ById(c) == c.app \in DOMAIN reg.ids /\ reg.ids[c.app] \in DOMAIN reg.games
MatchingGame(c) ==
  IF ById(c) THEN reg.ids[c.app] ELSE IF c.name \in DOMAIN reg.games THEN c.name ELSE None
LacksBackup(c, g) ==
  c.kind \in Restores \cup {"check_start"} /\ ~ reg.games[g].backup

Match(t) ==
  LET c == call[t] g == MatchingGame(c) IN
  /\ At(t, "match")
  /\ \/ /\ g = None
        /\ End(t)
     \/ /\ g # None
        /\ LET m == [Refreshed(c) EXCEPT !.name = g, !.app = NoId] IN
           \/ /\ c.kind \in Lifecycle                       \* game_sync_disabled
              /\ End(t)
           \/ /\ c.kind \in Lifecycle \/ LacksBackup(c, g)  \* game_error, gate_lost, no_backup
              /\ call' = [call EXCEPT ![t] = [m EXCEPT !.field = "last_skip", !.pc = "record"]]
           \/ /\ ~ LacksBackup(c, g)
              /\ call' = [call EXCEPT ![t] = [m EXCEPT !.op = OpOf(c.kind), !.pc = "lock"]]
  /\ UNCHANGED <<world, reg, history, file, opLock, status, stateLock, bounds, past>>

(***************************************************************************)
(* record_history, and save_cache: the state lock and the registry, then   *)
(* the history and the file (the lock excludes nobody from the registry or *)
(* the history, and the file is only touched under it).                    *)
(***************************************************************************)
Record(t) ==
  LET c == call[t] IN
  /\ At(t, "record")
  /\ history' = [history EXCEPT ![c.name] = @ \cup {c.field}]
  /\ call' = [call EXCEPT ![t].pc = "save", ![t].saving = "history"]
  /\ UNCHANGED <<world, reg, file, opLock, status, stateLock, bounds, past>>

(* Mutant: saves do not exclude each other. *)
StateLockIgnored(t) == TRUE
StateLockFree(t) == stateLock = None

LockState(t) ==
  /\ At(t, "save") /\ StateLockFree(t)
  /\ stateLock' = t
  /\ call' = [call EXCEPT ![t].payload = Payload(reg), ![t].pc = "write"]
  /\ UNCHANGED <<world, reg, history, file, opLock, status, bounds, past>>

(* Mutant: errors of the save are dropped. *)
AfterAnySave(c, ok) ==
  LET next == CASE c.saving = "refresh" -> "finish"
                [] c.saving = "history" -> IF Retargets(c.kind, c.outcome)
                                           THEN "target" ELSE "answer"
                [] OTHER -> "answer"
      outcome == IF c.saving = "refresh" THEN "done" ELSE c.outcome
      d == [c EXCEPT !.pc = next, !.outcome = outcome, !.saving = None, !.payload = None]
  IN IF next = "answer" THEN Ended(d) ELSE d

(* What a call goes on with.  Errors of refresh_targeted and, in lifecycle *)
(* handlers, of the history are ignored.                                   *)
AfterSave(c, ok) ==
  LET outcome == CASE c.saving = "refresh" -> IF ok THEN "done" ELSE "failed"
                   [] c.saving = "history" -> IF ok \/ c.kind \notin Manual
                                              THEN c.outcome ELSE "failed"
                   [] OTHER -> c.outcome
      next == CASE c.saving = "refresh" -> "finish"
                [] c.saving = "history" -> IF Retargets(c.kind, outcome)
                                           THEN "target" ELSE "answer"
                [] OTHER -> "answer"
      d == [c EXCEPT !.pc = next, !.outcome = outcome, !.saving = None,
                     !.placed = c.placed /\ ok, !.payload = None]
  IN IF next = "answer" THEN Ended(d) ELSE d

Write(t) ==
  LET c == call[t] IN
  /\ At(t, "write")
  /\ file' = [saved |-> c.payload, history |-> history]
  /\ stateLock' = None
  /\ drift' = "none"
  /\ call' = [call EXCEPT ![t] = AfterSave(c, TRUE)]
  /\ UNCHANGED <<world, reg, history, opLock, status, bounds, known, reported>>

(* The file lock, held by another backend, cannot be had in time (a thread *)
(* of this one waits for it without limit), or the file cannot be read or  *)
(* replaced.                                                               *)
SaveFails(t) ==
  LET c == call[t] IN
  /\ (At(t, "save") /\ StateLockFree(t)) \/ At(t, "write")
  /\ stateLock' = None
  /\ drift' = IF drift = "overwritten" THEN drift ELSE "failed"
  /\ call' = [call EXCEPT ![t] = AfterSave(c, FALSE)]
  /\ UNCHANGED <<world, reg, history, file, opLock, status, bounds, known, reported>>

Answer(t) ==
  LET c == call[t] IN
  /\ At(t, "answer")
  /\ reported' = IF Tells(c) THEN reported \cup {<<c.name, c.field>>} ELSE reported
  /\ known' = IF c.placed THEN known \cup {c.name} ELSE known
  /\ call' = [call EXCEPT ![t] = Idle]
  /\ UNCHANGED <<world, reg, history, file, opLock, status, stateLock, bounds, drift>>

(***************************************************************************)
(* Around the backend: the user or Ludusavi changes the configuration, and *)
(* the backend ends and is started again (BackendService::new).            *)
(***************************************************************************)
ConfigChanges ==
  /\ config < Len(Tracked)
  /\ config' = config + 1
  /\ UNCHANGED <<backed, reg, history, file, opLock, status, stateLock, call, bounds, past>>

Load(f) == [games |-> f.saved.games, ids |-> f.saved.ids, marker |-> f.saved.marker,
            aliases |-> f.saved.aliases, aliasesMarker |-> Unknown]

Starts ==
  /\ crashes < MaxCrashes
  /\ crashes' = crashes + 1
  /\ opLock' = None /\ status' = None /\ stateLock' = None
  /\ call' = [t \in Threads |-> Idle]
  /\ UNCHANGED <<world, file, calls>>

(* The new backend begins with the file.  What another backend has         *)
(* overwritten there is lost to it.                                        *)
StartLoaded ==
  /\ Starts
  /\ reg' = Load(file) /\ history' = file.history
  /\ drift' = "none"
  /\ known' = IF drift = "overwritten" THEN {} ELSE known
  /\ reported' = IF drift = "overwritten" THEN {} ELSE reported

(* The file lock could not be had in time, or the file could not be read:  *)
(* the new backend begins with nothing, which it may save over the file.   *)
StartBlank ==
  /\ Starts
  /\ reg' = EmptyRegistry /\ history' = NoHistory
  /\ drift' = "failed" /\ known' = {} /\ reported' = {}

(***************************************************************************)
(* Another backend, until it ends, goes on with the calls it was in: it    *)
(* runs Ludusavi, and saves its own registry and history over the file.    *)
(* Its registry is as good as this one's (GoodCopy): no newer than it      *)
(* says.                                                                   *)
(***************************************************************************)
Entries == [backup : BOOLEAN, from : Versions, late : BOOLEAN]
GameMaps == UNION {[S -> Entries] : S \in SUBSET Games}
IdMaps == UNION {[S -> Games] : S \in SUBSET Ids}
Markers == Versions \cup {Unknown}
Payloads == [games : GameMaps, ids : IdMaps, marker : Markers, aliases : Markers]
Histories == [Games -> SUBSET Fields]

FreshCopy(r) ==
  /\ r.marker <= config
  /\ \A g \in DOMAIN r.games : r.games[g].from >= r.marker \/ r.games[g].late
  /\ r.marker = config => Listed(config) \subseteq DOMAIN r.games
  /\ r.aliases = Unknown \/ r.aliases >= r.marker
FoundCopy(r) ==
  \A g \in DOMAIN r.games :
     /\ r.games[g].from <= config /\ g \in DOMAIN Tracked[r.games[g].from]
     /\ r.games[g].backup => g \in backed
IndexedCopy(r) ==
  \A i \in DOMAIN r.ids :
     r.ids[i] \in DOMAIN r.games /\ IdOf(r.ids[i], r.games[r.ids[i]]) = i
GoodCopy(r) == FreshCopy(r) /\ FoundCopy(r) /\ IndexedCopy(r)

OtherSaves ==
  /\ file' \in [saved : Payloads, history : Histories]
  /\ GoodCopy(file'.saved)
  /\ drift' = "overwritten"
  /\ UNCHANGED <<world, reg, history, opLock, status, stateLock, call, bounds, known, reported>>

OtherBacksUp ==
  /\ backed' \in SUBSET Games /\ backed \subseteq backed'
  /\ UNCHANGED <<config, reg, history, file, opLock, status, stateLock, call, bounds, past>>

OtherBackend == OtherSaves \/ OtherBacksUp

Operate(t) ==
  \/ EnsureRegistry(t) \/ ReadMarker(t) \/ Decide(t) \/ Match(t)
  \/ TryLock(t) \/ Locked(t) \/ Begin(t) \/ Run(t) \/ Finish(t) \/ Unlock(t)
  \/ ScanPreview(t) \/ ScanBackups(t) \/ ScanFails(t)
  \/ LoadAliases(t) \/ ApplyRefresh(t) \/ ApplyTargeted(t)
  \/ Record(t) \/ LockState(t) \/ Write(t)
  \/ SaveFails(t) \/ Answer(t)

Serve == \E t \in Threads : StartRefresh(t) \/ StartHandler(t) \/ Operate(t)
Restart == StartLoaded \/ StartBlank

Alone == Serve \/ ConfigChanges \/ Restart
Next == Alone \/ OtherBackend

Spec == Init /\ [][Next]_vars

(* No other backend is alive.                                              *)
AloneSpec == Init /\ [][Alone]_vars

(***************************************************************************)
(* Properties                                                              *)
(***************************************************************************)
GameMap(f) == DOMAIN f \subseteq Games /\ \A g \in DOMAIN f : f[g] \in Entries
IdMap(f) == DOMAIN f \subseteq Ids /\ \A i \in DOMAIN f : f[i] \in Games

(* Registry, history, locks and file have the shapes the code keeps.       *)
TypeOK ==
  /\ config \in Versions /\ backed \subseteq Games
  /\ \A r \in {reg, file.saved} :
        GameMap(r.games) /\ IdMap(r.ids) /\ r.marker \in Markers /\ r.aliases \in Markers
  /\ reg.aliasesMarker \in Markers
  /\ history \in Histories /\ file.history \in Histories
  /\ opLock \in Threads \cup {None} /\ stateLock \in Threads \cup {None}
  /\ \A t \in Threads : call[t].name \in Games \cup {None}

InOperation(c) ==
  \/ c.pc \in {"begin", "run", "scan", "apply", "finish", "unlock"}
  \/ c.saving = "refresh"

(* One operation at a time, and get_operation_status tells the operation   *)
(* that holds the lock: nothing is shown as running when nothing is, and   *)
(* no operation's end wipes out another's status.                          *)
StatusTellsHolder ==
  /\ \A t \in Threads : InOperation(call[t]) <=> opLock = t
  /\ opLock = None => status = None
  /\ \A t \in Threads :
        InOperation(call[t]) =>
          status = IF call[t].pc \in {"begin", "unlock"} THEN None ELSE call[t].op

FreshEntry(g) == reg.games[g].from >= reg.marker \/ reg.games[g].late

(* A registry that is_game_cache_current calls current is: every game that *)
(* Ludusavi lists is there, and entries and aliases were read at the       *)
(* marker's configuration or a later one, never before.  Except for the    *)
(* entry of a targeted refresh that a full refresh has overtaken, and for  *)
(* aliases that could not be read: those are none at all, and then the     *)
(* next refresh asks for them again.                                       *)
CurrentIsFresh ==
  /\ reg.marker # Unknown =>
       /\ \A g \in DOMAIN reg.games : FreshEntry(g)
       /\ reg.aliases = Unknown \/ reg.aliases >= reg.marker
       /\ reg.marker = config => Listed(config) \subseteq DOMAIN reg.games
  /\ reg.aliases = Unknown => reg.aliasesMarker = Unknown

(* The id index never leads to the wrong game: the game it names is listed *)
(* with that id, after any mix of full and targeted refreshes and restarts. *)
IdsPointBack ==
  \A i \in DOMAIN reg.ids :
     /\ reg.ids[i] \in DOMAIN reg.games
     /\ IdOf(reg.ids[i], reg.games[reg.ids[i]]) = i

(* No configuration has lost the game again once one had it.               *)
NeverLost(g) ==
  \A v, w \in 1..config : v <= w /\ g \in DOMAIN Tracked[v] => g \in Listed(w)

(* A backup that a call has made, and shown by its targeted refresh, is    *)
(* not forgotten: neither that nor another refresh puts an older answer of *)
(* Ludusavi over it, in memory or in the file.  Except when the backup was *)
(* made while Ludusavi had lost the game: it succeeds and writes nothing,  *)
(* and its targeted refresh may join an older list of backups to a newer   *)
(* list of games.  What another backend saves is not this one's: the file  *)
(* is spoken of from this one's next save on.                              *)
BackupRemembered ==
  \A g \in {h \in known : NeverLost(h)} :
     /\ g \in DOMAIN reg.games => reg.games[g].backup
     /\ drift # "overwritten" /\ g \in DOMAIN file.saved.games => file.saved.games[g].backup

Saving(c) == c.saving # None

(* With no save under way, the file is the memory, whatever order threads  *)
(* changed it and saved it in, unless the last save or the first reading   *)
(* failed, or another backend has saved since.                             *)
FileFollowsMemory ==
  (drift = "none" /\ \A t \in Threads : ~ Saving(call[t])) => file = CacheFile(reg, history)

(* A manual operation that was reported as done is in the history, and on  *)
(* disk, whatever other threads record and save, and after restarts.  If   *)
(* another backend saves over it, the entry is only in this one's memory   *)
(* until its next save: it is lost when the backend ends before that, or   *)
(* when a backend starts that cannot read the file.                        *)
ReportedIsSaved ==
  \A r \in reported :
     r[2] \in history[r[1]] /\ (drift = "overwritten" \/ r[2] \in file.history[r[1]])

Scans(c) == c.pc \in {"scan", "target"} \/ (c.pc = "run" /\ c.op \in {"backup", "restore"})

(* "Only one refresh, backup, restore, or version probe can run at a time" *)
(* (docs/specs/sdh_ludusavi_sync.md:79).  Targeted refreshes run outside   *)
(* the operation lock.                                                     *)
OneAtATime == Cardinality({t \in Threads : Scans(call[t])}) <= 1
=============================================================================
