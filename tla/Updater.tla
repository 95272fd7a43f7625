-------------------------------- MODULE Updater --------------------------------
(***************************************************************************)
(* PluginUpdater and its callers.  The backend looks for a newer release   *)
(* of the plugin, keeps what it found and which install was asked for in   *)
(* one object of cache.json, and settles a pending install when it starts. *)
(* Its callers are the update panel, the poller that toasts new releases,  *)
(* and install flows that hand a release to Decky Loader, which replaces   *)
(* the plugin and starts it again.                                         *)
(*                                                                         *)
(* Every transaction on the cache runs under the state lock, so it is one  *)
(* step; the network, the awaits of the callers and Decky are where others *)
(* come in between.  A backend that was replaced may still be alive and    *)
(* finish a check: `late' is a check nobody waits for any more.            *)
(*                                                                         *)
(* Times are what the code compares them with: a check is fresh for a day, *)
(* a pending install for 15 minutes, a cooldown is on or over.  Checksums, *)
(* URLs and trace ids are left out: a mismatch is a failed revalidation.   *)
(***************************************************************************)
EXTENDS Naturals, FiniteSets

CONSTANTS
  Releases,     \* releases of the plugin, which are also its versions
  Version,      \* base, development and date of each
  Posted0,      \* the release lists GitHub may have at first
  Installed0,   \* the versions that may run at first, or be installed by hand
  Flaky,        \* bound: the releases whose manifest may be broken
  MaxFetches,   \* MAX_MANIFEST_FETCH_ATTEMPTS
  Flows,        \* install flows of the panel
  None, Current, Failed,
  MaxCalls, MaxEvents   \* bounds

ASSUME UpdaterAssumption ==
  /\ IsFiniteSet(Releases)
  /\ {None, Current, Failed} \cap Releases = {}
  /\ Current # Failed /\ None \notin {Current, Failed}
  /\ None \notin [rel : Releases, fresh : BOOLEAN]
  /\ Version \in [Releases -> [base : Nat, dev : BOOLEAN, date : Nat]]
  /\ \A r, s \in Releases : Version[r].date = Version[s].date => r = s
  /\ Posted0 \subseteq SUBSET Releases /\ Installed0 \subseteq Releases
  /\ MaxFetches \in Nat \ {0}

VARIABLES
  posted,       \* the releases GitHub lists
  channel,      \* update_channel in the settings
  file,         \* update_check_cache in cache.json
  mem,          \* PluginUpdater.cache
  behind,       \* mem was not read from the file as it is now (history)
  limited,      \* rate_limited_until lies ahead
  running,      \* installed_version
  started,      \* reconcile_pending_install: not yet, done or failed
  panel,        \* the panel's check in flight
  late,         \* a check in flight nobody waits for
  shown,        \* the candidate the panel shows
  override,     \* installedOverride of the panel
  current,      \* currentVersion of the panel
  poll,         \* the poller's tick
  flow,         \* the install flows
  decky,        \* releases Decky Loader has been asked to install
  asked,        \* the last install recorded and not withdrawn (history)
  due,          \* the version Decky installed for it (history)
  marked,       \* the last tag marked as notified and not forgotten (history)
  spent         \* checks and clicks; starts, failed writes, switches, cooldowns, lapses

backendVars == <<file, mem, behind, limited>>
panelVars == <<panel, late, shown, override, current>>
flowVars == <<flow, decky>>
pastVars == <<asked, due, marked>>
vars == <<posted, channel, running, started, backendVars, panelVars, poll, flowVars, pastVars, spent>>

Channels == {"stable", "development"}
Spend(what, max) == spent[what] < max /\ spent' = [spent EXCEPT ![what] = @ + 1]
-----------------------------------------------------------------------------
(* Versions and the choice of a candidate                                  *)

Dev(r) == Version[r].dev
Base(r) == Version[r].base

(* PluginVersion::cmp: a development version comes before its release, and *)
(* two development versions of one base are equal.                         *)
Greater(r, s) == Base(r) > Base(s) \/ (Base(r) = Base(s) /\ ~Dev(r) /\ Dev(s))
Equal(r, s) == Base(r) = Base(s) /\ Dev(r) = Dev(s)

(* compare_release, which also orders the candidates of select_candidate.  *)
Before(r, s) == Greater(r, s) \/ (Equal(r, s) /\ Version[r].date > Version[s].date)

(* What the list leaves after prevalidate_release_candidate and the filter *)
(* on the channel.                                                         *)
OfChannel(rs, ch) == {r \in rs : ch = "stable" => ~Dev(r)}

(* The manifests that are fetched, and the first one that validates.       *)
Tried == [rs \in SUBSET Releases |-> {r \in rs : Cardinality({s \in rs : Before(s, r)}) < MaxFetches}]
First == [rs \in SUBSET Releases |-> {r \in rs : \A s \in rs : ~Before(s, r)}]
Validated(rs, broken) == First[Tried[rs] \ broken]

(* select_candidate: whether the best release is offered, and as what.     *)
(* Mutant: the installed development version is an update of itself. *)
OfferedToItself(best, version, ch) ==
  \/ ch = "stable" /\ Dev(version)
  \/ Greater(best, version)
  \/ Equal(best, version) /\ Dev(best)
Offered(best, version, ch) ==
  \/ ch = "stable" /\ Dev(version)
  \/ Greater(best, version)
  \/ Equal(best, version) /\ Dev(best) /\ best # version
Downgrades(best, version, ch) == ch = "stable" /\ Dev(version) /\ Base(best) < Base(version)

Answer(version, ch, broken) ==
  LET good == Validated(OfChannel(posted, ch), broken)
      offers == {r \in good : Offered(r, version, ch)}
  IN IF offers = {} THEN Current ELSE CHOOSE r \in offers : TRUE
-----------------------------------------------------------------------------
(* The cache                                                               *)

Checks == [version : Releases, channel : Channels, result : Releases \cup {Current}]
Pendings == [rel : Releases, fresh : BOOLEAN]
Caches == [checked : Checks \cup {None}, notified : Releases \cup {None},
           pending : Pendings \cup {None}, promoted : Releases \cup {None}]
NoCache == [checked |-> None, notified |-> None, pending |-> None, promoted |-> None]

ClearStale(c) == [c EXCEPT !.checked = None, !.notified = None]
(* Releases of one version that differ in their build metadata only, which *)
(* the code takes for one another, are left out.                           *)
IsPending(c, r) == c.pending # None /\ c.pending.rel = r

(* transact_update_cache reads the file, and memory follows what was       *)
(* written.  The lock, the read or the write may fail.                     *)
(* Mutant: the transaction starts from what the process has in memory. *)
LoadedFromMemory == mem
Loaded == file
Saved(new) == file' = new /\ mem' = new /\ behind' = FALSE
(* Mutant: memory is changed although the write failed. *)
NotSavedButKept(new) == mem' = new /\ UNCHANGED <<file, behind>>
NotSaved(new) == UNCHANGED <<file, mem, behind>>
Breaks(new) == NotSaved(new) /\ Spend("events", MaxEvents)

Init ==
  /\ posted \in Posted0 /\ channel \in Channels
  /\ file = NoCache /\ mem = NoCache /\ behind = FALSE /\ limited = FALSE
  /\ running \in Installed0 /\ started = "yes"
  /\ panel = None /\ late = None /\ shown = None /\ override = None /\ current = running
  /\ poll = [at |-> "idle"]
  /\ flow = [f \in Flows |-> [at |-> "idle"]] /\ decky = {}
  /\ asked = None /\ due = None /\ marked = None
  /\ spent = [w \in {"calls", "events"} |-> 0]
-----------------------------------------------------------------------------
(* check_for_update                                                        *)

(* The pending install's version is taken for installed while it is fresh. *)
Effective == IF mem.pending # None /\ mem.pending.fresh THEN mem.pending.rel ELSE running

(* Mutant: a result is reused for whatever version is asked about. *)
ReusableForAny(version) ==
  mem.checked # None /\ mem.checked.channel = channel
Reusable(version) ==
  /\ mem.checked # None
  /\ mem.checked.channel = channel /\ mem.checked.version = version

(* The answers that need no network.                                       *)
Quick(version, force) ==
  IF ~force /\ mem.pending # None /\ mem.pending.fresh /\ mem.pending.rel = version
  THEN Current
  ELSE IF limited THEN Failed
  ELSE IF ~force /\ Reusable(version) THEN mem.checked.result
  ELSE None

(* A check that has its answer and not written it yet.  Any manifest may   *)
(* be unreachable or wrong, and any request may fail or be rate-limited.   *)
CheckOf(version, broken) ==
  [version |-> version, channel |-> channel, answer |-> Answer(version, channel, broken), old |-> FALSE]
BrokenOnes == SUBSET (Flaky \cap posted)
Fetches == Spend("calls", MaxCalls) /\ UNCHANGED limited
FetchFails ==
  \/ Spend("calls", MaxCalls) /\ UNCHANGED limited
  \/ Spend("events", MaxEvents) /\ limited' = TRUE

Found(c) == [Loaded EXCEPT !.checked =
  [version |-> c.version, channel |-> c.channel, result |-> c.answer]]
-----------------------------------------------------------------------------
(* The panel                                                               *)

Believed == IF override # None THEN override ELSE current

(* Mutant: whatever a check answers becomes the candidate. *)
PanelShowsAnything(version, answer) == shown' = answer
PanelShows(version, answer) ==
  shown' = IF answer \in Releases \ {version} THEN answer
           ELSE IF answer = Failed THEN shown ELSE None

(* A new check supersedes no other: the one in flight is reused.  After a  *)
(* failed install the panel asks with the version it had before.           *)
PanelChecks(version, force) ==
  /\ panel = None /\ version \in {Believed, current}
  /\ ~force => override = None
  /\ \/ /\ Quick(version, force) # None
        /\ PanelShows(version, Quick(version, force))
        /\ UNCHANGED <<panel, limited, spent>>
     \/ /\ Quick(version, force) = None
        /\ \E broken \in BrokenOnes : panel' = CheckOf(version, broken)
        /\ Fetches
        /\ UNCHANGED shown
     \/ /\ Quick(version, force) = None
        /\ FetchFails
        /\ UNCHANGED <<panel, shown>>
  /\ UNCHANGED <<posted, channel, running, started, file, mem, behind, late, override, current,
                 poll, flowVars, pastVars>>

PanelAnswered ==
  /\ panel # None /\ panel' = None
  /\ \/ Saved(Found(panel)) /\ PanelShows(panel.version, panel.answer) /\ UNCHANGED spent
     \/ Breaks(Found(panel)) /\ UNCHANGED shown
  /\ UNCHANGED <<posted, channel, running, started, limited, late, override, current,
                 poll, flowVars, pastVars>>

(* activeCheckId moves on: nobody listens to the check in flight any more. *)
DropPanelCheck ==
  /\ panel # None => late = None
  /\ late' = IF panel # None THEN panel ELSE late
  /\ panel' = None

PanelTimesOut ==
  /\ panel # None /\ DropPanelCheck
  /\ UNCHANGED <<posted, channel, running, started, backendVars, shown, override, current,
                 poll, flowVars, pastVars, spent>>

(* The panel loads the context and finds an install under way.             *)
Hydrate ==
  /\ mem.pending # None /\ mem.pending.fresh /\ current # mem.pending.rel
  /\ DropPanelCheck
  /\ shown' = None /\ override' = None /\ current' = mem.pending.rel
  /\ UNCHANGED <<posted, channel, running, started, backendVars, poll, flowVars, pastVars, spent>>

(* A check nobody waits for is still written, by whichever process made it. *)
LateAnswered ==
  /\ late # None /\ late' = None
  /\ \/ /\ late.old
        /\ file' = Found(late) /\ behind' = TRUE
        /\ UNCHANGED <<mem, spent>>
     \/ ~late.old /\ Saved(Found(late)) /\ UNCHANGED spent
     \/ late.old /\ UNCHANGED <<file, mem, behind, spent>>
     \/ ~late.old /\ Breaks(Found(late))
  /\ UNCHANGED <<posted, channel, running, started, limited, panel, shown, override, current,
                 poll, flowVars, pastVars>>
-----------------------------------------------------------------------------
(* The poller                                                              *)

PollStarts ==
  /\ poll.at = "idle" /\ mem.pending = None
  /\ poll' = [at |-> "asked", version |-> Effective, seen |-> mem.notified]
  /\ UNCHANGED <<posted, channel, running, started, backendVars, panelVars, flowVars, pastVars, spent>>

(* A release is toasted unless its tag was the last one notified.          *)
Answered(answer, ch) ==
  poll' = IF answer \in Releases \ {poll.seen}
          THEN [at |-> "toasted", rel |-> answer, channel |-> ch] ELSE [at |-> "idle"]

PollChecks ==
  /\ poll.at = "asked"
  /\ \/ /\ Quick(poll.version, FALSE) # None
        /\ Answered(Quick(poll.version, FALSE), channel)
        /\ UNCHANGED <<limited, spent>>
     \/ /\ Quick(poll.version, FALSE) = None
        /\ \E broken \in BrokenOnes :
             poll' = [at |-> "checking", seen |-> poll.seen,
                      check |-> CheckOf(poll.version, broken)]
        /\ Fetches
     \/ /\ Quick(poll.version, FALSE) = None
        /\ FetchFails
        /\ Answered(Failed, channel)
  /\ UNCHANGED <<posted, channel, running, started, file, mem, behind, panelVars, flowVars, pastVars>>

PollAnswered ==
  /\ poll.at = "checking"
  /\ \/ Saved(Found(poll.check)) /\ Answered(poll.check.answer, poll.check.channel) /\ UNCHANGED spent
     \/ Breaks(Found(poll.check)) /\ Answered(Failed, channel)
  /\ UNCHANGED <<posted, channel, running, started, limited, panelVars, flowVars, pastVars>>

PollMarks ==
  /\ poll.at = "toasted" /\ poll' = [at |-> "idle"]
  /\ LET new == [Loaded EXCEPT !.notified = poll.rel]
     IN \/ Saved(new) /\ marked' = poll.rel /\ UNCHANGED spent
        \/ Breaks(new) /\ UNCHANGED marked
  /\ UNCHANGED <<posted, channel, running, started, limited, panelVars, flowVars, asked, due>>
-----------------------------------------------------------------------------
(* Installing: revalidate, record, hand over to Decky, confirm or withdraw *)

At(f, here) == flow[f].at = here
Goes(f, there) == flow' = [flow EXCEPT ![f].at = there]
Rel(f) == flow[f].rel

Click(f) ==
  /\ At(f, "idle") /\ shown # None /\ Spend("calls", MaxCalls)
  /\ flow' = [flow EXCEPT ![f] = [at |-> "revalidating", rel |-> shown]]
  /\ UNCHANGED <<posted, channel, running, started, backendVars, panelVars, poll, decky, pastVars>>

(* Everything that keeps the release from being validated again, or makes  *)
(* it another one, is a failure.                                           *)
Revalidate(f) ==
  /\ At(f, "revalidating")
  /\ \/ ~limited /\ Rel(f) \in posted /\ Goes(f, "recording") /\ UNCHANGED <<limited, spent>>
     \/ Goes(f, "clearing") /\ UNCHANGED <<limited, spent>>
     \/ Goes(f, "clearing") /\ ~limited /\ limited' = TRUE /\ Spend("events", MaxEvents)
  /\ UNCHANGED <<posted, channel, running, started, file, mem, behind, panelVars, poll, decky, pastVars>>

InstallStarted(r) == DropPanelCheck /\ shown' = None /\ override' = r

(* Decky Loader is called as soon as the request is on disk.               *)
Record(f) ==
  /\ At(f, "recording")
  /\ LET new == [ClearStale(Loaded) EXCEPT !.pending = [rel |-> Rel(f), fresh |-> TRUE]]
     IN \/ /\ Saved(new)
           /\ Goes(f, "handed") /\ decky' = decky \cup {Rel(f)}
           /\ InstallStarted(Rel(f))
           /\ asked' = Rel(f) /\ marked' = None
           /\ due' = IF started = "yes" THEN due ELSE None
           /\ UNCHANGED spent
        \/ /\ Breaks(new)
           /\ Goes(f, "clearing")
           /\ UNCHANGED <<panel, late, shown, override, decky, asked, due, marked>>
  /\ UNCHANGED <<posted, channel, running, started, limited, current, poll>>

(* The call to Decky resolves or is rejected, three seconds later or any   *)
(* time.                                                                   *)
HandOver(f) ==
  /\ At(f, "handed")
  /\ \/ Goes(f, "confirming") /\ InstallStarted(Rel(f)) /\ UNCHANGED decky
     \/ /\ Goes(f, "clearing")
        /\ decky' \in {decky, decky \ {Rel(f)}}
        /\ UNCHANGED <<panel, late, shown, override>>
  /\ UNCHANGED <<posted, channel, running, started, backendVars, current, poll, pastVars, spent>>

(* Confirming restarts the grace period of the pending install.  The panel *)
(* takes the version for installed whether or not that succeeds.           *)
Confirm(f) ==
  /\ At(f, "confirming") /\ Goes(f, "idle")
  /\ LET known == IsPending(Loaded, Rel(f))
         new == IF known THEN [ClearStale(Loaded) EXCEPT !.pending.fresh = TRUE] ELSE Loaded
     IN \/ Saved(new) /\ marked' = (IF known THEN None ELSE marked) /\ UNCHANGED spent
        \/ Breaks(new) /\ UNCHANGED marked
  /\ current' = Rel(f) /\ override' = None
  /\ UNCHANGED <<posted, channel, running, started, limited, panel, late, shown, poll, decky, asked, due>>

(* A failed install withdraws whatever is pending under its version, which *)
(* may be another flow's request.                                          *)
Withdraw(f) ==
  /\ At(f, "clearing") /\ Goes(f, "idle")
  /\ LET known == IsPending(Loaded, Rel(f))
         new == IF known THEN [ClearStale(Loaded) EXCEPT !.pending = None] ELSE Loaded
     IN \/ /\ Saved(new)
           /\ marked' = (IF known THEN None ELSE marked)
           /\ asked' = (IF asked = Rel(f) THEN None ELSE asked)
           /\ UNCHANGED spent
        \/ Breaks(new) /\ UNCHANGED <<asked, marked>>
  /\ override' = None
  /\ UNCHANGED <<posted, channel, running, started, limited, panel, late, shown, current, poll, decky, due>>
-----------------------------------------------------------------------------
(* Starting                                                                *)

(* The check of the process before, if that is still alive.                *)
Survivors ==
  {None} \cup {[c EXCEPT !.old = TRUE] :
    c \in ({panel, late} \cup (IF poll.at = "checking" THEN {poll.check} ELSE {})) \ {None}}

(* A new process reads the file, unless the lock or the file cannot be had. *)
Start(version) ==
  /\ Spend("events", MaxEvents)
  /\ running' = version /\ started' = "no"
  /\ \/ mem' = file /\ behind' = FALSE /\ UNCHANGED marked
     \/ mem' = NoCache /\ behind' = TRUE /\ marked' = None
  /\ limited' = FALSE
  /\ late' \in Survivors
  /\ panel' = None /\ shown' = None /\ override' = None /\ current' = version
  /\ poll' = [at |-> "idle"]
  /\ flow' = [f \in Flows |-> [at |-> "idle"]]
  /\ UNCHANGED <<posted, channel, file, asked>>

(* Decky installs what it was asked to, or gives up, whenever the user has *)
(* answered its dialog.                                                    *)
DeckyInstalls(r) ==
  /\ r \in decky /\ decky' = decky \ {r}
  /\ due' = IF asked = r THEN r ELSE None
  /\ Start(r)
DeckyGivesUp(r) ==
  /\ r \in decky /\ decky' = decky \ {r}
  /\ UNCHANGED <<posted, channel, running, started, backendVars, panelVars, poll, flow, pastVars, spent>>

(* A crash, a reload, or a version installed by other means.               *)
Restarts(version) ==
  /\ version \in Installed0 \cup {running}
  /\ due' = IF version = running THEN due ELSE None
  /\ UNCHANGED decky
  /\ Start(version)

(* reconcile_pending_install: the pending install is what runs now, or has *)
(* taken too long, or is kept.                                             *)
Settled(c) ==
  IF IsPending(c, running)
  THEN [ClearStale(c) EXCEPT !.pending = None, !.promoted = running]
  ELSE IF c.pending # None /\ ~c.pending.fresh
  THEN [ClearStale(c) EXCEPT !.pending = None]
  ELSE c

Reconcile ==
  /\ started = "no"
  /\ \/ /\ Saved(Settled(Loaded)) /\ started' = "yes"
        /\ asked' = IF Settled(Loaded).pending = None THEN None ELSE asked
        /\ marked' = IF Settled(Loaded) = Loaded THEN marked ELSE None
        /\ UNCHANGED spent
     \/ Breaks(Settled(Loaded)) /\ started' = "failed" /\ UNCHANGED <<asked, marked>>
  /\ UNCHANGED <<posted, channel, running, limited, panelVars, poll, flowVars, due>>
-----------------------------------------------------------------------------
(* The world                                                               *)

Publish(r) ==
  /\ r \notin posted /\ \A s \in posted : Version[s].date < Version[r].date
  /\ posted' = posted \cup {r}
  /\ UNCHANGED <<channel, running, started, backendVars, panelVars, poll, flowVars, pastVars, spent>>

(* apply_settings_patch on update_channel.                                 *)
SwitchChannel ==
  /\ channel' \in Channels \ {channel} /\ Spend("events", MaxEvents)
  /\ UNCHANGED <<posted, running, started, backendVars, panelVars, poll, flowVars, pastVars>>

(* A result that is a day old is as good as none.                          *)
DayPasses ==
  /\ file' = [file EXCEPT !.checked = None] /\ mem' = [mem EXCEPT !.checked = None]
  /\ UNCHANGED <<posted, channel, running, started, behind, limited, panelVars, poll, flowVars, pastVars, spent>>

Overdue(c) == IF c.pending = None THEN c ELSE [c EXCEPT !.pending.fresh = FALSE]
GraceEnds ==
  /\ file' = Overdue(file) /\ mem' = Overdue(mem) /\ Spend("events", MaxEvents)
  /\ UNCHANGED <<posted, channel, running, started, behind, limited, panelVars, poll, flowVars, pastVars>>

CooldownEnds ==
  /\ limited /\ limited' = FALSE
  /\ UNCHANGED <<posted, channel, running, started, file, mem, behind, panelVars, poll, flowVars, pastVars, spent>>

Next ==
  \/ \E r \in Releases, force \in BOOLEAN : PanelChecks(r, force)
  \/ PanelAnswered \/ PanelTimesOut \/ Hydrate \/ LateAnswered
  \/ PollStarts \/ PollChecks \/ PollAnswered \/ PollMarks
  \/ \E f \in Flows : Click(f) \/ Revalidate(f) \/ Record(f) \/ HandOver(f) \/ Confirm(f) \/ Withdraw(f)
  \/ \E r \in Releases : DeckyInstalls(r) \/ DeckyGivesUp(r) \/ Restarts(r) \/ Publish(r)
  \/ Reconcile \/ SwitchChannel
  \/ DayPasses \/ GraceEnds \/ CooldownEnds

Spec == Init /\ [][Next]_vars
-----------------------------------------------------------------------------
(* Properties                                                              *)

(* Type invariant: every variable holds a value the code can give it.      *)
FlowTypes ==
  [at : {"idle"}] \cup
  [at : {"idle", "revalidating", "recording", "handed", "confirming", "clearing"}, rel : Releases]
CheckTypes ==
  [version : Releases, channel : Channels, answer : Releases \cup {Current}, old : BOOLEAN]
PollTypes ==
  [at : {"idle"}]
    \cup [at : {"asked"}, version : Releases, seen : Releases \cup {None}]
    \cup [at : {"checking"}, seen : Releases \cup {None}, check : CheckTypes]
    \cup [at : {"toasted"}, rel : Releases, channel : Channels]
TypeOK ==
  /\ posted \subseteq Releases /\ channel \in Channels
  /\ file \in Caches /\ mem \in Caches /\ behind \in BOOLEAN /\ limited \in BOOLEAN
  /\ running \in Releases /\ started \in {"no", "yes", "failed"}
  /\ panel \in CheckTypes \cup {None} /\ late \in CheckTypes \cup {None}
  /\ shown \in Releases \cup {None} /\ override \in Releases \cup {None} /\ current \in Releases
  /\ poll \in PollTypes
  /\ flow \in [Flows -> FlowTypes] /\ decky \subseteq Releases
  /\ {asked, due, marked} \subseteq Releases \cup {None}

(* A step forward: builds of one stable version are all the same.          *)
Ahead(r, s) == Greater(r, s) \/ (Dev(r) /\ Before(r, s))

(* Whatever is posted and validates, what a check that is about to be made *)
(* (the poller's, for one) answers is right for the version it asks about  *)
(* and the channel: an offer that is not announced as a downgrade is a     *)
(* step forward, nothing among the manifests fetched beats it, and no      *)
(* offer means that none of them is a step forward.  Not so for a          *)
(* development version whose own manifest is broken: an older one of the   *)
(* same base counts as an update.                                          *)
AnswersAreRight ==
  poll.at = "asked" =>
    LET listed == Tried[OfChannel(posted, channel)]
        version == poll.version
    IN \A broken \in SUBSET listed :
         LET answer == Answer(version, channel, broken)
             fetched == listed \ broken
         IN IF answer = Current
            THEN \A r \in fetched : ~Ahead(r, version)
            ELSE /\ answer \in fetched /\ \A r \in fetched : ~Before(r, answer)
                 /\ \/ Ahead(answer, version)
                    \/ Downgrades(answer, version, channel)
                    \/ Dev(version) /\ version \notin fetched

(* The cache in memory is what is in the file, whatever check, install,    *)
(* mark or failed write came in between; except after a start that could   *)
(* not read the file and after a check of the process before.              *)
MemoryIsFile == behind \/ mem = file

(* A release that Decky installed at our request is remembered as the      *)
(* installed one once the start has been reconciled, however many checks,  *)
(* other requests, failures and restarts there were.  Not so if the        *)
(* request was withdrawn (by a failed install of the same version, too) or *)
(* another one was recorded before the start was reconciled.               *)
InstallIsRemembered == started = "yes" /\ due # None => file.promoted = due

(* The poller toasts a release that is not the one that runs, that its     *)
(* channel allows, and whose tag it has not marked as notified before; the *)
(* tag is forgotten only when an install is recorded, confirmed, withdrawn *)
(* or settled, or a start could not read it.                              *)
ToastIsNews ==
  poll.at = "toasted" =>
    /\ poll.rel # running
    /\ poll.channel = "stable" => ~Dev(poll.rel)
    /\ poll.rel # marked
==============================================================================
