# SDH-Ludusavi: models, checks and proofs

SDH-Ludusavi is a Decky plugin that keeps game saves in step with Ludusavi
backups. A Rust backend runs Ludusavi, holds launching games at a gate while
their saves are inspected, and watches Syncthing; a TypeScript frontend inside
Steam follows the games' lifecycle and drives the backend by RPC. This directory
holds TLA+ modules of the parts where order, failure and time decide whether a
save survives, their TLC runs, and the proofs of what matters most.

`PROJECT.json` is the index: components, runs, the lines of code each definition
stands for (`map`), hazards with the properties that cover them, findings and
theorems. Run a module with `tlc -workers 2 -config X.cfg MCx`, a proof with
`tlapm X.tla`.

## 1. Inventory

### Backend (`src/backend/src`)

| Component | State | Operations | What is hard about it |
|---|---|---|---|
| Launch gate watchdog (`watchdog.rs`) | lease per root PID (scope or stop, deadline, start, generation, pinned operation, release flags), stopping flag, watchdog thread | pause, renew, run_guarded, verify_gate, resume, expiry, stop_until | three locks (state, per-PID transition, release), a wait without a lock in the middle of a release, timeouts racing renewals, thaws that fail, shutdown |
| Scope freezer and acquisition (`launch_gate.rs`, `procfs.rs`) | the unwinding guard of one acquisition; the kernel's and systemd's state | discover, stop, freeze, verify, hand over, thaw | every look at /proc or the cgroup tree is stale at once; PIDs and unit names are reused; signals and systemctl act on names |
| Service (`service.rs`, `main.rs`) | call counter, settings, drained flag | dispatch of RPC calls, lifecycle handlers, shutdown_until | unloading while calls are in flight, with four seconds to drain |
| Ludusavi processes (`operations/process.rs`) | running groups, cancellation, stopping flag | run, cancel, cancel_all, groups_exited | kill racing spawn, groups that outlive their leader, time limits |
| Operation coordinator (`operations/mod.rs`) | operation lock, status, registry (games, ids, aliases, config marker), history, client | refresh, backup, restore, list, start and exit checks, targeted refresh, save | registry updates inside and outside the operation lock, markers, whole-file saves by several threads |
| Ludusavi client, migration (`operations/client.rs`, `migration.rs`) | config path, failed flag | command lines, parsing, one-time migration | partial copies |
| State files (`persistence.rs`, `history.rs`) | lock file, cache and settings files | with_lock, read, atomic write | several processes on one file, crashes |
| Lifecycle decisions (`lifecycle.rs`, `service.rs`) | none | which way to sync, conflict or not | conservative in every doubtful case |
| Syncthing watches (`syncthing/*`) | watches, event cursor, folder and peer observations | start, stop, events, classification | events against polls, quiet windows, peers that come and go |
| Updater (`updater.rs`, `http.rs`) | channel, throttle, pending install | check, install, commit | stale answers, a crash between install and commit |
| Singleton (`singleton.rs`) | older sibling processes | identify, terminate | PID reuse |
| Status theme (`status_theme.rs`) | installed files | install, remove | ownership of the files |

### Frontend (`src/src`)

| Component | State | Operations | What is hard about it |
|---|---|---|---|
| Game lifecycle controller (`controllers/gameLifecycle*`, `launchGateLease.ts`) | session per app, epochs, the pause lease | start and exit flows, conflict prompt, lease renewal | every await lets another notification in; lease lost in the middle |
| Steam lifecycle source (`steamLifecycleSource.ts`) | running sessions | start, stop, adoption at load | duplicated and missing notifications |
| Syncthing monitor (`syncthingMonitor*`) | phase, watch id, deadlines | reducer, polling | answers for an older watch |
| Settings queue (`settingsMutationRuntime.ts`) | queue, confirmed and optimistic settings | enqueue, answer, timeout, rollback | answers after their timeout |
| Plugin updates (`pluginUpdate*`, `updatePoller.ts`) | reducer phase | poll, install, hand over | polls during an install |
| State store, runtime, surfaces, shortcut | displayed state | hydration, disposal, rendering | order of status observations |

### How they interact

Steam tells the frontend of a launch; the controller asks the backend for
`pause_game_process` (watchdog: acquire a hold on the process or its scope),
renews the lease while it runs `check_game_start` (coordinator: preview under the
operation lock), and lets a restore or backup run under the lease
(`restore_game_on_start`: coordinator lock outside, `run_guarded` inside). It ends
with `resume_game_process`; if it never does, the watchdog's expiry resumes. On
exit the controller runs the check and backup without a gate. A manual operation
and a refresh come from the user interface at any time. Unloading closes
admission, kills Ludusavi, drains the calls, sweeps the gates and stops the watches.
The Syncthing monitor starts a watch around a game's start and exit, polls its samples
and stops it. The update poller and panel check for releases through the backend, and
an install goes from the panel to Decky Loader, which replaces the plugin and starts
it again while the old backend may still be alive.

### What makes each component correct

- Watchdog: a save mutation runs only while its game is held and its lease names
  it; never two for one launch; a lease whose end was asked for only ends; all that
  is held is recorded; every lease ends.
- Acquisition: the game never runs between the bootstrap stop and the freeze;
  failures leave nothing behind.
- Service: "stopped" means nothing is left; no gate opens while saves may be written.
- Coordinator: a registry called current is fresh; the cache file follows memory;
  what was reported is remembered, and on disk unless another backend saves over it;
  ids never lead to the wrong game; the status tells the truth about the lock.
- Commands and unload: no call goes on while its command's processes live; unload
  reaches every one of them; a clean unload leaves nothing behind.
- Syncthing: an upload is called done only when a peer has what was written.
- Updater: an offer is a step forward for the version that runs; an install that was
  asked for is remembered through everything else that writes the cache.
- The other parts of the frontend: see the plan.

## 2. Modules

| Module | Models | Lines of Rust |
|---|---|---|
| `LaunchGate` | what the gate promises, without threads, locks or clocks (abstract) | - |
| `Watchdog` | `ProcessWatchdog`, the expiry thread, stop_until, the guarded process | `watchdog.rs` |
| `GateService` | EXTENDS Watchdog: call admission and shutdown_until around it | `service.rs` |
| `ScopeAcquire` | `LaunchScopeAcquirer::acquire` and its unwinding, step by step | `launch_gate.rs` |
| `Coordinator` | `LudusaviOperations` and the handlers of `service.rs` that drive it, the cache file | `operations/mod.rs`, `service.rs` |
| `Backends` | EXTENDS Coordinator: a predecessor that still runs beside it, on the same cache file | `main.rs`, `singleton.rs`, `persistence.rs` |
| `Workers` | calls, commands and their process groups, the watch manager, and how `shutdown_until` ends them | `operations/process.rs`, `syncthing/mod.rs`, `service.rs` |
| `SyncthingWatch` | one watch thread, the Syncthing it asks, the monitor that polls it | `syncthing/activity.rs`, `syncthing/mod.rs` |
| `Updater` | `PluginUpdater`, the panel, the poller, install flows, restarts | `updater.rs` |
| `WatchdogProofs`, `WatchdogHolds`, `GateServiceProofs`, `WorkersProofs`, `ScopeAcquireProofs`, `CoordinatorProofs`, `SyncthingWatchProofs`, `UpdaterProofs` | proofs | |
| `MC...` (one for each of the modules with a run) | instances for TLC | |

### Watchdog

A section of code under a PID's transition lock is one action, since every other
access to that lease but `reset_release` takes the same lock; `reset_release` only
touches a lease its caller has marked. `pause` keeps the lock while the freezer
works, so it is `PauseStarts` and then one of `PauseAcquires`, `AcquireFails`,
`PauseSwapFails`, with the lock held in between. What lies between two sections is
explicit: the wait for a mutation (`pc = "waiting"`), the mutation itself
(`mutating`, `spawning`, `running`, `draining`), a call that has passed the stopping
check (`pausing`), the list the expiry thread collected before it dropped the lock
(`todo`).

A lease holds a *target*: a process incarnation for stop-only leases, or a scope.
Outcomes of systemctl and of signals are choices: a thaw that reports failure may
have taken effect, a scope may vanish or its name be taken over (`stale`), and
anybody may thaw or continue a target (`Meddle`; history variable `meddled`).
Wall-clock times are two counters of a lease, `age` and `idle`, that stop one tick
past the limit they are compared with; nothing else of time matters to the code.
`orphans` are targets whose clean-up failed before a lease could record them, as the
code has no record either; the properties except them by name.

### ScopeAcquire

Watchdog takes acquisition for one action; here each look at `/proc` or the cgroup
tree, each signal and each systemctl command is a step, and between any two of them
the kernel queues and delivers stops, freezes scopes, the process forks, moves, exits
and its PID or unit name is reused. It is kept apart since the product of both state
spaces says no more than each. Assumed: systemd carries out freeze and thaw requests
in order; inodes are not reused; the thaw of the scope a lease held before succeeds
(its failure is `PauseSwapFails` of Watchdog).

### GateService

The conjunction of the watchdog with the call counter, the process manager's
stopping flag and the stages of `shutdown_until`. Its steps are watchdog steps or
leave the watchdog alone, which `ServiceRunsWatchdog` proves.

### Coordinator

A call is a record with its place `pc` and what it has read so far. A step is one
critical section of the registry, history, status or state lock, one Ludusavi
command, or one read of the config marker. `save_cache` is two steps: it reads the
registry under the state lock, then the history and writes the file; the file is
touched under that lock only. Ludusavi is a function of a configuration version and
of the set of backups; a full refresh takes its two scans at two moments. Of an entry
only its name, id and backup flag are kept, with two history fields that say where
it came from. All nine kinds of calls share the steps; `Records`, `RecordsUnmatched`
and `Retargets` are the table of what each leaves behind. A call that waits for the
operation lock and one that does not differ only in when they look at it. Left out:
fuzzy name matching (any match is "by name"), the recency decision (a choice of
outcome), the client object (every command may fail anyway), timestamps,
`last_result`. A full refresh leaves out the games without files or ignored by the user
(`Skipped`), a targeted one does not.

A backend starts with the file, or with nothing when it cannot read it or the lock is not
to be had in time (`StartLoaded`, `StartBlank`). `main.rs` loads the file before it ends an
older backend, and `save_cache` writes all that a backend has in memory over the file. So
what a predecessor still does is an action of the environment, `OtherBackend`: any good
registry (`GoodCopy`) with any history saved at any time, and any new backups. `drift`
(history) tells whether the file may differ from memory since a save failed or since
another backend saved (`"overwritten"`). The proofs are about `Spec`, which has that action;
the runs of `MCCoordinator` leave it out (`AloneSpec`), since TLC cannot enumerate it.

### Backends

Two copies of Coordinator's variables but one world and one file: the backend that serves
is EXTENDed, its predecessor is an INSTANCE that begins no call. They exclude each other by
the file lock (`FileLockFree`). `ImplementsCoordinator` says that what the predecessor does
is no more than `OtherBackend`: the file it writes is good by the same measure. One
predecessor is alive at a time, and it ends when it has nothing left to do.

### Workers

`GateService` models the unload of the gates with one step per command; `Workers` models
what it leaves out, the commands and watches, and takes the watchdog's stop as a
choice (`WatchdogFails`). A command's group is `all`, its `rest` after the leader has
died, or `none`; the last signal sent to it is `sig`. Between the first check of the
stopping flag, the spawn, the insertion into the set of groups and the second check
unload may do anything; `cancel_all` is two steps, the flag and the sweep. A guarded
command's cancellation token has the same effect as a timeout, so it is not kept
apart; `Recheck` may send the signal either way. Registering a watch and taking out the
ones it replaces is one step under the manager's lock; stopping them is not, and is
given up after two seconds (`dropped`, history). What a watch thread does in between
is `SyncthingWatch`. Once unload has ended the process ends, and nothing steps.

### SyncthingWatch

The thread, Syncthing and the monitor take turns at every HTTP request and every poll:
a pass is the connections (`Connections`), the status (`Look`) and the events (`Read`), each
of which may fail, and at the start the peers are asked one by one (`AskPeer`). Errors of
the folder, which also keep a sample from being settled, are left out.
`process_event` is `Handled`, one case for each kind of event, folded over the events
of a pass. Syncthing and its peers are modelled from what the code asks of them: an
index that follows the disk, peers that pull, completions that tell of a peer at the
moment they are sent. A cursor into numbered events is the queue of events not read.
Time is what the code compares it with: a signal is within its settle window, within
the 15 s of `ACTIVE_WINDOW`, or neither; the hold, the TTL, the stall window and the
ceiling may be over at any pass. So no property says how long anything takes, and the
safety properties hold whatever the durations are. The sequence in the index is the
number of writes.

### Updater

The state lock makes each transaction on the cache one step; what the network, Decky
and the frontend's awaits leave open lies between steps. Versions are ordered by
operators that translate `PluginVersion::cmp` and `compare_release`; which manifests
fail is a choice of each check. The panel's phases are somewhat wider than the
reducer's (a click is possible whenever a candidate is shown), and automatic checks
are never switched off: both only add behaviours. A restart may leave the old backend
alive to finish a check (`late`), which is what the singleton's clean-up races. A pending
install and a running version that differ only in build metadata, which the code takes for
one another (`updater.rs:976`), are left out.

## 3. Runs

| Run | Instance | Shows |
|---|---|---|
| `watchdog_safety` | one launch with a process and two scopes, two callers, 2 leases, expiry after 1 and 2 ticks | the safety properties, the action property, and that Watchdog implements LaunchGate |
| `watchdog_liveness` | one scope, two callers, shutdown | `LeaseEventuallyEnds` under `FairSpec` |
| `watchdog_gate_lost` | as the first with one scope | finding, see below |
| `shutdown` | process and scope, two callers, shutdown at any time | shutdown is complete or keeps the gates |
| `scope_acquire` | two incarnations of the PID, two of the scope's unit | acquisition, step by step |
| `coordinator` | two threads, two calls, two games, two configurations between which an id moves, one restart, any save failing | registry, status, history and file |
| `coordinator_one_at_a_time` | the same with other calls | finding |
| `backends` | a backend and its predecessor, one thread each, two calls (refresh, manual backup), one game that loses its id and is skipped at the second configuration, one start | what was reported is remembered, and a second backend does no more than `OtherBackend` |
| `workers` | two calls, two watches of one game, unload at any time, a deadline that may pass at any time | commands, watches and unload; `CallsDrain` under `FairSpec` |
| `syncthing_watch` | two peers, both phases, one write, one event or failed request besides, two events unread | what samples and the monitor may claim |
| `syncthing_complete` | the same with one peer | finding |
| `updater` | four releases with a development one, two flows, three checks or clicks, two of restarts, failed writes, switches, expiries, lapses of the grace period | what the poller checks, what is remembered and toasted |

Why these bounds are enough to meet the hard cases: two callers give every race of
two operations on one gate (a third would only queue for the same lock), besides the
watchdog and the shutdown thread; two leases give a lease and its successor, so a
stale `lease_id` exists; leases of different PIDs share no state but `stopping`,
`nextGen` and the expiry thread's list, so one PID suffices, and the proofs have no
such bound. Two scopes let a pause replace one by another and both thaws fail. `TTL`
and `Ceiling` differ, so that a lease can reach the ceiling with renewals. In the
coordinator two calls overlap at every step, each of them may first refresh an empty
registry, and the id that moves makes ids and names disagree; no game has a backup at
first, so that every backup, and every restore of one, is seen to come. `check_start` and
`list_backups`, which take the same steps as `check_exit` and leave other history entries,
are left to the proofs. In `backends` the one start while a call is under way makes the
predecessor, which saves beside the successor's calls. `MaxStops` is 0 where shutdown is
not the question, and `shutdown` covers it. Strays (a stranger stopped after a PID was
reused) need two processes and are met in `scope_acquire`.

Two calls of `workers` give a call that drains while another spawns, starts a watch or
waits for one; two watches of one game give a replacement, and the proofs have no such
bound. In `syncthing_watch` one write after the watch began is what a completion can be
too old for; the second peer is the one that disconnects or lags while the other
confirms; one event or failed request besides writes, pulls and reports, of any kind, lights
a signal, moves the sequence unnoted, drops a peer or loses an answer; two unread events
are a completion before the news of the write. The peers have everything when the watch
of `syncthing_watch` begins (`Laggards`), and fall behind by the write; in `syncthing_complete` one may be behind from the start. (One peer
with two writes and three unread events was checked during development.) In `updater`
two flows are needed for one to withdraw the other's request, and four releases for a
development version between two releases and one beyond the manifests fetched.

`CHECK_DEADLOCK FALSE` everywhere: the counters of leases, calls and crashes are
bounded, so an instance may stop for that alone.

### Fairness (`Watchdog!Fairness`)

Time passes; the expiry thread runs, and is not kept from a transition lock for ever
by an unending series of calls (strong fairness of its visits: the lock is a mutex
held for bounded times); release waits and acquisitions end, since each is bounded by
a timeout in the code; a Ludusavi process that was cancelled is killed and its
callback returns; a thaw is not refused for ever. Nothing is assumed of a Ludusavi
command that was not cancelled, nor of the frontend. Under that each lease ends
(`LeaseEventuallyEnds`), except after shutdown has begun and for a scope whose unit name
another scope took over, which the code never thaws. It does not follow that a game is
released: a lease may also end in a new pause, which takes its age over (`AgeCoversHold`)
but has an id of its own. The expiry thread collects expired leases and releases them
later (`watchdog.rs:703`, `719`), and skips one that was replaced in between, so a frontend
that pauses again each time just then keeps its game for ever. Nothing in the code stops
it, and no property claims otherwise; a game that is paused again finitely often is let
go. `MaxGen` = 2 gives one such replacement. The run has no stop-only target and one
shutdown, to stay small; a stop-only lease is released by the same code.

### Fairness (`Workers!Fairness`)

A thread that can go on does: the steps of a command, of the watch manager and of
unload are weakly fair. A killed group dies (`Dies`): the kernel sees to SIGKILL. A
watch that was told to stop ends: its loop looks at the flag between bounded requests.
A call comes to its end (`SF` of `Leave`): the handlers run a fixed number of commands
and watch operations, and Workers does not count them. The deadline is not fair, so
`CallsDrain` is not won by waiting for it, and a command owes nothing to SIGTERM.

### Findings

1. `watchdog_gate_lost`: a call that is told `gate_lost` may have mutated the saves:
   `run_guarded` looks at the release request after the callback has returned
   (`watchdog.rs:480`), while the documents say that nothing was mutated.
2. `coordinator_one_at_a_time`: `refresh_targeted` runs two Ludusavi scans outside the
   operation lock, beside another call's operation, while
   `docs/specs/sdh_ludusavi_sync.md` says one operation runs at a time.
3. `syncthing_complete`: any activity of the folder arms the monitor for good
   (`syncthingMonitorMachine.ts:192`) and a watch that has noted no mutation waits for no
   peer (`activity.rs:275`), so three settled samples before the backup is indexed show
   SYNCTHING COMPLETE, while `docs/specs/custom_status_bar_ui.md` says that a connected
   peer has confirmed it.

More weaknesses show as named exceptions of properties that hold otherwise.

- Watch: a folder status that is read before the events of the same pass lets a
  completion from before the mutation count as fresh (`outrun`); a FolderSummary or a
  reload after ConfigSaved moves the sequence on without a mutation being noted
  (`silent`).
- Unload: a watch that was given up after two seconds may outlive a clean unload
  (`dropped`).
- Acquisition: a failed attempt to renew a stop-only hold continues the held process
  (`LeaseHolds`); strangers that took over a PID or a unit, and scopes that could not be
  thawed, stay stopped or frozen (`strays`, `leftovers`).
- Coordinator: a backup that wrote nothing may be shown as missing (`NeverLost` in
  `BackupRemembered`); aliases that could not be read are none until the next refresh
  that is due for another reason; a targeted refresh that a full refresh has overtaken
  puts an old entry into a registry marked current (`late` in `CurrentIsFresh`).
- Two backends: a predecessor that is not ended yet saves its whole history over what
  its successor has saved and reported (`operations/mod.rs:990-1002`; `main.rs` loads the
  file first and ends older processes later). The entry is then only in the successor's
  memory until its next save, and gone if the successor ends before that (`drift` in
  `ReportedIsSaved`), although `docs/specs/durable_per_game_operation_history.md` wants
  it there after reloads.
- Updater: a start that cannot read the file leaves memory behind it, as does a check of
  the process before (`behind`); a failed install withdraws the request of another flow
  for the same version; a development version whose own manifest is broken is offered an
  older one of its base.

Seen but covered by no property:

- a peer that stalls ends a watch with "upload incomplete" although another has
  confirmed; a completion asked for at the start goes stale with a write before the
  second status and, if the peer had nothing left to report, is never renewed;
- a check, restore or exit backup whose registry refresh fails or is cancelled records a
  skip under a name that was never matched to a game (`service.rs:691`,
  `RecordsUnmatched`), while `docs/specs/durable_per_game_operation_history.md:91` says
  that history is recorded only after a match;
- a targeted refresh takes a game's old id out of the index even if it names another
  game by now, which is then found by name only (`operations/mod.rs:880`);
- a backend that starts with nothing may save that over the past;
- a pending install that Decky never finishes silences the poller until the next start.

## 4. Proofs

Every invariant that a passing run checks is a theorem, and so are the action
properties and the refinement of `LaunchGate`; the refinement of Coordinator by Backends is
model-checked only. Each holds for every set of PIDs, callers, threads,
games, scopes, incarnations, peers, releases, flows, and for every bound of section 3.

| Module | Theorem | States |
|---|---|---|
| `WatchdogProofs` | `TypeCorrect` | `[]TypeOK` |
| | `ReleasesExclusive`, `MutationsExclusive` | `[]OneReleasePerGate`, `[]OneMutationPerGate` |
| | `ReleasesFinal` | `ReleaseIsFinal` |
| | `GateImplemented` | `Spec => ImplementsLaunchGate` |
| `WatchdogHolds` | `MutationsHeld`, `HoldsRecorded`, `AgesCover` | `[]MutationHeld`, `[]HoldsAccounted`, `[]AgeCoversHold` |
| `GateServiceProofs` | `ServiceRunsWatchdog`, `ServiceMutationsHeld` | GateService implements Watchdog, so all of the above holds through every shutdown |
| | `ServiceTypeCorrect`, `ShutdownCompletes` | `[]ServiceTypeOK`, `[]ShutdownIsComplete` |
| | `ShutdownClosed` | `ShutdownFailsClosed` |
| `ScopeAcquireProofs` | `TypeCorrect`, `HandoffsClosed`, `LeasesHold`, `NothingIsLeft` | `[]TypeOK`, `[]HandoffClosed`, `[]LeaseHolds`, `[]NothingLeft` |
| `CoordinatorProofs` | `TypeCorrect`, `StatusCorrect`, `FileCorrect` | `[]TypeOK`, `[]StatusTellsHolder`, `[]FileFollowsMemory` |
| | `ReportedCorrect`, `CurrentCorrect`, `IdsCorrect`, `BackupsCorrect` | `[]ReportedIsSaved`, `[]CurrentIsFresh`, `[]IdsPointBack`, `[]BackupRemembered` |
| `WorkersProofs` | `TypeCorrect`, `NoReplyBeforeExit`, `CancelAllMissesNone`, `CleanUnloadIsClean` | `[]TypeOK`, `[]ReplyMeansExit`, `[]NoGroupIsMissed`, `[]CleanUnload` |
| `SyncthingWatchProofs` | `TypeCorrect`, `UploadsBeforeQuiet`, `CompletesConfirmed` | `[]TypeOK`, `[]UploadedBeforeQuiet`, `[]CompleteIsConfirmed` |
| `UpdaterProofs` | `TypeCorrect`, `AnswersCorrect`, `MemoryCorrect` | `[]TypeOK`, `[]AnswersAreRight`, `[]MemoryIsFile` |
| | `InstallsRemembered`, `ToastsNews` | `[]InstallIsRemembered`, `[]ToastIsNews` |

### Assumptions

They are the named `ASSUME` of each module, and TLC evaluates them on every run.
`Watchdog`: the sets are disjoint where it matters, TTL and ceiling are naturals.
`ScopeAcquire`: there is a process at all, every scope has a unit, and scopes differ
from PIDs and from the marks for "no scope", since one history (`letGo`) has both.
`Coordinator`: `None` and `NoId` are no thread, game, id or tag, and each
configuration maps games to ids and has a set of games to skip. `Updater`: the releases are finite, no two have the
same date (the code breaks ties by the publication date, and a tie there is left to the order of
GitHub's list), at least one manifest is fetched, and the marks are no releases.
`SyncthingWatch`: there is a peer, a folder may be idle, as it is when the watch begins,
at least one confirmation is asked for, and `None` is neither a peer nor a number.

### Watchdog

`MutationHeld` is not inductive: that a lease names its operation says
nothing of who may remove the lease next. The invariant `IndInv` is `TypeOK` with two
parts. `IdInv` tells who may touch a lease: generations are fresh (`GenInv`), so a
stale `lease_id` matches nothing; the transition lock is exclusive and what a pause is
about to replace stays replaceable while it holds the lock (`LockInv`); a waiting
release finds the lease it marked (`OneReleasePerGate`); a running operation is the
one its lease names (`GuardInv`). `HeldInv` tells what is held: leases own targets of
their own launch (`OwnerInv`), a pinned lease's target was not let go by the plugin
(`HoldInv`), all that is held is owned (`HoldsAccounted`). `HeldInv` is inductive
relative to `IdInv`, and `IdInv` relative to `TypeOK`, so each is proved in its turn:
`WatchdogProofs` (types and the effect of each action on the lease table, identities,
then the refinement) and `WatchdogHolds`. Most actions
change nothing that `IdInv` looks at: they are *calm*, and `CalmKeeps` settles them
at once. Of the others each has a lemma of its own, and so in the refinement, where a
calm step is a stutter.

One consequence: `resume_until` looks again, after its wait, whether the lease is
still the one it marked. That check can never fail.

### GateService

`ShutdownIsComplete` speaks of the last stage only; `ServiceInv` says of each stage who
may still be inside the watchdog. `Admission`: a thread works only for a call that was
admitted, and admission is closed from the moment unload begins. `ShutdownInv`: the
watchdog is told to stop only after the calls have drained, so from then on no caller
takes a lease and no command writes; the watchdog thread has ended before the first
sweep, so the sweep is alone, and what it finds released stays released. Who moves in
a step is settled first (`CallerMoves`, `BackgroundMoves`), since most of the
invariant is about who does not. `HoldsAccounted`, from the watchdog by
`ServiceRunsWatchdog`, turns "no lease is left" into "nothing is held".
`ShutdownFailsClosed` is an action property and follows from the same invariant.

### ScopeAcquire

The two hazards are that the process runs between its stop and its freeze, and that a
clean-up forgets something. `Standing` fixes the world: one incarnation of a PID at a
time, one scope of a unit, and what the service manager was asked to freeze exists.
`Placed` is what the call remembers at each step. `Closed` is the heart of
`HandoffClosed`: from `recheck` on, the found scope is frozen or gone or let go by
somebody, and once the second discovery has confirmed the process in it, the process
cannot have left: nothing moves out of a frozen scope but by somebody's hand, which
`letGo` records. `Held` carries a lease
through further acquisitions: its stop stays until its process is in a freezer
(`InFreezer`), and a stop that was seen has taken effect (`SeenStopped`). `Left` says
at each step what is still to be undone (`Undoable`, `Stopper`); at `idle` there is
nothing of the kind, which is `NothingLeft`.

### Coordinator

Types and shapes of calls come first (`Typing`), then five parts, each inductive
relative to those before it, so that no proof carries more than it needs. `Holding`:
the operation lock and the state lock have the holders their places in the code say,
and the status follows. `FileBehind`: a payload about to be written is the memory, or
a save that will read it later is already on its way; this is why saves in any order
end right. `OnRecord`: a call that will report success finds its entry first in memory, then
in what is kept (`Kept`): memory and file both, or memory alone once another backend has
saved over the file, until this one saves the whole of its memory again. `Current`: three
kinds of copies of the registry exist (memory, file, payloads about to be written), and
each is fresh for its own marker, lists games some configuration had, and has an index
that points back (`GoodCopy`, which is also all that is taken of what another backend
saves); `Knows` bounds what a call has read of Ludusavi. Aliases may be kept by a refresh
that does not read them again, so `Current` has a clause for their own marker, and `Knows`
says that a refresh keeps only what was read at its own marker.
`Remembered`: no copy this backend made (`Own`: memory, payloads, and the file unless
another backend saved last) is older than a backup that was shown, since any list of
backups read after the backup was made has it (`Works`, `Backs`, `Placed`).

The attempt to prove `BackupRemembered` without its exception failed for a reason. A
backup of a game that Ludusavi does not know succeeds and writes nothing; the targeted
refresh after it asks for the backups and for the game in two processes
(`operations/mod.rs:846`), and if the game came back between the two, it is listed
without a backup although the call has reported one. TLC shows it with three configurations, of
which the second lacks the game. So the property is about games that no configuration has lost
again (`NeverLost`).

### Workers

`NoGroupIsMissed` needs to know why a group could be missed:
a live group is in the set or was just spawned (`GroupsKnown`), which rests on
`ReplyMeansExit`, and the sweep comes after the flag (`FlagBeforeSweep`), so that whoever
is not in the set yet meets the flag in `Recheck`. `CleanUnload` says nothing until unload
is clean; `WatchesOwned` says at each stage before it who will stop a watch thread (the
manager, unload, or a call that took it), and `StagesHold` and `OldIsBeingStopped` that at
the end nobody can be such an owner any more. `IInv` is the conjunction; each part has a
lemma that names the parts it rests on, with one step for each action that disturbs it.

### SyncthingWatch

`UploadedBeforeQuiet` relates a sample to what the peers have, and between the two lie the
completions: those the watch believes, those in the queue, and the mutation that makes the
believed ones stale. `Believed` says that a completion counted as fresh, or one that will be
when it is read, tells of a peer that has the mutation noted. A mutation is noted from an
event or from a status. For events `Queued` gives what is needed: a completion is good for
every write told earlier in the queue, because Syncthing emits them in order. For a status it
gives that a completion is good for the index unless the news of the index come later in the
queue, and that is exactly the overtaking which the history `outrun` records and the
properties except. `Known` carries it to the sequence: what is beyond the first status was
noted, unless a summary or a reload moved it on (`silent`). `Shown` is what the last sample
and the monitor make of it; the third settled sample is one that uploads nothing, so what
holds of it holds of SYNCTHING COMPLETE.

A pass folds `Handled` over a queue of any length. The library's theorems about folds and
induction take operators as parameters, so `FoldSteps` goes round them: the fold is
unrolled into the sequence of watches after each event (`Folds`), and if some length had no
such sequence, the least one (`LeastExists`, from the well-foundedness of `<`) would be
preceded by one that has. `PassKeeps` uses the same argument (`FirstBreak`) for what holds
before each event, and `HandleKeeps` is its step.

The proof of `TypeOK` found an assumption missing from the module: that the folder states of
an instance include `idle`, in which a watch begins.

### Updater

`AnswersAreRight` quantifies over all that may be fetched and is a fact about the
operators: `Before` is a strict order (`BeforeIsOrder`), a nonempty set of
releases has one that nothing beats (`BestExists`: the set is finite, and of its members
one has the fewest before it), and the selection returns such a one. From the state it needs
only `Typed`, which says of each check, cached or in flight, that it answers for the
version and channel it was made for. `Marking` is where the last tag marked is kept:
both copies of the cache and the poller's snapshot. `Pending` is where the last install
asked for is kept. `Installing` is why nobody can withdraw an install that Decky has
carried out before the next start reconciles it: the panel knows it as the version that
runs, so no flow is for it (`Undisturbed`).

Two stable tags that differ only in build metadata (`+...`) compare equal
(`updater.rs:165-201`), and the code rightly does not offer one to the other. A first
statement of `AnswersAreRight` called the later of them a step forward; the proof, which has
no fixed set of releases, found that out, and `Ahead` now says what is meant.

### Model-checked only

- Liveness (`LeaseEventuallyEnds`, `CallsDrain`): fairness and ENABLED are out of the
  prover's reach.
- `ImplementsCoordinator`, that a second backend does no more than Coordinator takes it for.
  `ReportedIsSaved`, which the same run checks, is a theorem of Coordinator.
- The three findings: each is a counterexample.

## 5. Not modelled

Parsing of command output, XML, manifests and cgroup paths, Ludusavi's command lines and
the discovery of Syncthing's credentials and folders, artwork, surfaces, the CSS of the
theme, packaging and the third-party loader shim: no protocol in them. Of the singleton
only the overlap of two backends is modelled (in `Backends` on registry and history, in
`Updater` on the update cache; the settings file is not), of the monitor one watch without its
publication ranks and generations, of the update panel neither notices nor settings. The rest of
the inventory is planned below. A gate that is retained when the backend ends stays
frozen until somebody thaws it: no code runs after that, so there is nothing to check.

## 6. Plan

Order: by what a wrong step costs the user.

| Next | Module | Composition and abstract specification | Properties |
|---|---|---|---|
| 1 | `GameLifecycle`: start and exit flows, lease client, Steam sessions | against the `LaunchGate` promise as the backend; each await is a step | a started game is resumed or its lease expires; no mutation after the game was let go; an older session's answer changes nothing |
| 2 | `SettingsQueue`: serial mutations, timeouts, late answers, with the settings file | abstract: a register with confirmed value | displayed settings agree with the file once quiet; rollback never undoes a later change |
| 3 | pure parts (recency decision, name matching) | checked against reference definitions | conservative in every doubtful case |

One run per module, small enough for a few minutes. Proofs to come: the inductive
invariants of `GameLifecycle` and `SettingsQueue`; a lease of `ScopeAcquire` as a lease of
`Watchdog`, so that acquisition is shown to be the one action that `Watchdog` takes it for.
