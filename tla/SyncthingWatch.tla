--------------------------- MODULE SyncthingWatch ---------------------------
(***************************************************************************)
(* One Syncthing activity watch: the thread run_watch of the backend, the  *)
(* Syncthing it asks over HTTP, and the monitor of the frontend that polls *)
(* its samples and decides when to show SYNCTHING COMPLETE.                *)
(*                                                                         *)
(* The thread reads in turn the connections, the folder's status and the   *)
(* events since its cursor, and publishes a sample.  Syncthing goes on     *)
(* between two requests, so the status is newer than the events still to   *)
(* be read.  Any request may fail, which keeps what is known.              *)
(*                                                                         *)
(* Instants are kept as what they are compared for.  A completion is fresh *)
(* when it was observed after the last mutation noted; a signal is in      *)
(* `fresh' within its settle window and in `recent' within the 15 s of     *)
(* ACTIVE_WINDOW, and leaves them at any pass.  So are the hold, the TTL,  *)
(* the stall window and the ceiling: how long they last is left out.       *)
(* Writes are numbered, and the number is the sequence of the index.       *)
(***************************************************************************)
EXTENDS Naturals, FiniteSets, SequencesExt

CONSTANTS
  Peers,        \* FolderSelection.device_ids
  Phases,       \* pre_game, post_game
  FolderStates, \* the states the folder takes
  Signals,      \* the kinds of local and incoming activity that are reported
  None,
  Laggards,     \* bound: the peers that may be behind when the watch begins
  Confirmations,               \* OUTBOUND_CONFIRMATIONS
  MaxWrites, MaxEvents, MaxQueue   \* bounds

ASSUME WatchAssumption ==
  /\ Peers # {} /\ None \notin Peers \cup Nat /\ Laggards \subseteq Peers
  /\ Phases \subseteq {"pre_game", "post_game"}
  /\ "idle" \in FolderStates
  /\ FolderStates \subseteq {"idle", "preparing", "scanning", "syncing", "paused", "error"}
  /\ Signals \subseteq {"change", "scan", "download", "item"}
  /\ {Confirmations, MaxWrites, MaxEvents, MaxQueue} \subseteq Nat /\ Confirmations > 0

VARIABLES
  disk,         \* writes to the backup folder
  index,        \* the last of them in Syncthing's index: the folder's sequence
  has,          \* the last write each peer has
  up,           \* the peers that are connected
  folder,       \* the folder's state
  incoming,     \* content is to be received
  queue,        \* events not read yet
  phase,        \* what the watch was started for
  pc,           \* where run_watch is
  watch,        \* what run_watch knows
  connected,    \* the connections it last read
  streak,       \* outbound_streak
  sample,       \* latest, which the monitor polls
  stop,         \* the watch was told to stop
  monitor,      \* the frontend's watch context
  first,        \* the sequence of the first status (history)
  outrun,       \* a status told of a write before a completion older than it was read (history)
  spent         \* events of Syncthing and failed requests so far

syncthingVars == <<disk, index, has, up, folder, incoming>>
watchVars == <<pc, watch, connected, streak>>
pastVars == <<first, outrun>>
vars == <<syncthingVars, queue, phase, watchVars, sample, stop, monitor, pastVars, spent>>

Spend == spent < MaxEvents /\ spent' = spent + 1
PostGame == phase = "post_game"
-----------------------------------------------------------------------------
(* What the watch knows, and how it changes                                *)

Completions == [need : 0..MaxWrites + 1, fresh : BOOLEAN]
Completion(d) == [need |-> index - has[d], fresh |-> TRUE]
Complete(c) == c # None /\ c.need = 0 /\ c.fresh

(* LocalActivity::default and the rest of run_watch's state; `silent' is    *)
(* history: a summary or a reload moved the sequence on.                   *)
NoWatch == [state |-> "unknown", seq |-> 0, need |-> FALSE, noted |-> None, hold |-> FALSE,
            fresh |-> {}, recent |-> {}, remote |-> {}, peers |-> [d \in Peers |-> None],
            silent |-> FALSE]

(* Mutant: what the peers said before still counts. *)
NoteHoldsOnly(w, s) == [w EXCEPT !.noted = s, !.hold = TRUE]
(* note_outbound_mutation: what the peers said before is stale from now on. *)
Note(w, s) ==
  [w EXCEPT !.noted = s, !.hold = TRUE,
            !.peers = [d \in Peers |-> IF @[d] = None THEN None ELSE [@[d] EXCEPT !.fresh = FALSE]]]

Status == [to |-> folder, seq |-> index, need |-> incoming]
Reported(w, s) == [w EXCEPT !.state = s.to, !.seq = s.seq, !.need = s.need]

(* Mutant: a status that has moved on is no mutation. *)
AppliedUnnoted(w, s) ==
  Reported(IF s.seq # w.seq THEN [w EXCEPT !.recent = @ \cup {"index"}] ELSE w, s)
(* apply_folder_status.                                                    *)
Applied(w, s) ==
  LET moved == IF w.seq # 0 /\ s.seq # w.seq THEN [w EXCEPT !.recent = @ \cup {"index"}] ELSE w
  IN Reported(IF PostGame /\ s.seq > w.seq THEN Note(moved, s.seq) ELSE moved, s)

(* What replaces the runtime without noting a mutation.                    *)
Replaced(w, s) == [Reported(w, s) EXCEPT !.silent = @ \/ s.seq > w.seq]

(* Mutant: the index is held to the settle window too. *)
LightBoth(w, fresh, recent) == [w EXCEPT !.fresh = @ \cup recent, !.recent = @ \cup recent]
Light(w, fresh, recent) == [w EXCEPT !.fresh = @ \cup fresh, !.recent = @ \cup recent]
Darken(w, recent) == [w EXCEPT !.recent = @ \ recent]

(* process_event.                                                          *)
Handled(w, e) ==
  CASE e.kind = "StateChanged" -> [w EXCEPT !.state = e.to]
    [] e.kind = "FolderSummary" -> Replaced(w, e)
    [] e.kind = "LocalIndexUpdated" ->
         LET lit == Light(w, {}, {"index"})
         IN [(IF e.seq > w.seq THEN Note(lit, e.seq) ELSE lit) EXCEPT !.seq = e.seq]
    [] e.kind = "FolderCompletion" /\ PostGame ->
         [w EXCEPT !.hold = @ \/ e.completion.need > 0, !.peers[e.peer] = e.completion]
    [] e.kind = "RemoteDownloadProgress" ->
         [w EXCEPT !.remote = IF e.on THEN @ \cup {e.peer} ELSE @ \ {e.peer}]
    [] e.kind = "change" -> Light(w, {"change"}, {"change"})
    [] e.kind = "scan" -> Light(w, {"scan"}, {"scan"})
    [] e.kind = "download" -> IF e.on THEN Light(w, {}, {"download", "index"}) ELSE Darken(w, {"download"})
    [] e.kind = "item" -> IF e.on THEN Light(w, {}, {"item"}) ELSE Light(Darken(w, {"item"}), {"finished"}, {})
    [] OTHER -> w

(* Time passes since the last pass: little, more than the settle window    *)
(* and the hold, or more than ACTIVE_WINDOW.                               *)
Quiet(w) == [w EXCEPT !.fresh = {}, !.hold = FALSE]
Aged(w) == {w, Quiet(w), [Quiet(w) EXCEPT !.recent = {}, !.remote = {}]}
-----------------------------------------------------------------------------
(* Samples                                                                 *)

(* outbound_peer_confirmation_pending.                                     *)
Pending(w, n) ==
  w.noted # None /\ ((\A d \in connected : ~Complete(w.peers[d])) \/ n < Confirmations)

(* publish_sample.  The fields noted and seq are history.                  *)
Uploading(w, n) == w.remote # {} \/ (PostGame /\ (Pending(w, n) \/ w.hold))
Downloading(w) == w.state = "syncing" \/ w.recent \cap {"download", "item"} # {}
(* The errors of the folder, which also keep it from being settled, are     *)
(* left out.                                                               *)
Settled(w, n) ==
  /\ w.state \in {"idle", "preparing"} /\ ~w.need
  /\ ~Downloading(w) /\ ~Uploading(w, n)
  /\ w.fresh = {}
Activity(w, n) ==
  [status |-> "activity", state |-> w.state, uploading |-> Uploading(w, n), settled |-> Settled(w, n),
   busy |-> \/ Downloading(w) \/ Uploading(w, n) \/ w.need \/ w.state \in {"preparing", "scanning"}
            \/ w.recent # {} \/ "finished" \in w.fresh,
   noted |-> w.noted, seq |-> w.seq]
Ended(status) ==
  [status |-> status, state |-> "unknown", uploading |-> FALSE, settled |-> FALSE, busy |-> FALSE,
   noted |-> None, seq |-> 0]
Publish(s) == sample' = s /\ monitor' = [monitor EXCEPT !.news = TRUE]
-----------------------------------------------------------------------------
(* run_watch                                                               *)

Init ==
  /\ disk = 1 /\ index = 1
  /\ has \in [Peers -> {0, 1}] /\ \A d \in Peers \ Laggards : has[d] = 1
  /\ up \in SUBSET Peers \ {{}}
  /\ folder = "idle" /\ incoming = FALSE /\ queue = <<>>
  /\ phase \in Phases /\ pc = "first status" /\ watch = NoWatch /\ connected = up /\ streak = 0
  /\ sample = None /\ stop = FALSE
  /\ monitor = [step |-> "watching", ready |-> FALSE, seen |-> FALSE, settled |-> 0, handoff |-> None,
                news |-> FALSE, taken |-> None]
  /\ first = 0 /\ outrun = FALSE
  /\ spent = 0

At(here, next) == pc = here /\ pc' = next /\ UNCHANGED <<syncthingVars, phase, stop>>
Fault == Spend
Answered == UNCHANGED spent

InitFails ==
  /\ pc \in {"first status", "cursor", "completions"} /\ Fault
  /\ pc' = "done" /\ Publish(Ended("failed"))
  /\ UNCHANGED <<syncthingVars, queue, phase, watch, connected, streak, stop, pastVars>>

FirstStatus ==
  /\ At("first status", "cursor") /\ Answered
  /\ watch' = Reported(watch, Status) /\ first' = index
  /\ UNCHANGED <<queue, connected, streak, sample, monitor, outrun>>

(* Every event so far is skipped: they were emitted before the watch.      *)
Cursor ==
  /\ At("cursor", IF PostGame THEN "completions" ELSE "look") /\ Answered
  /\ queue' = <<>>
  /\ IF PostGame THEN UNCHANGED <<sample, monitor>> ELSE Publish(Activity(watch, streak))
  /\ UNCHANGED <<watch, connected, streak, pastVars>>

(* One request for each peer that is connected.                            *)
AskPeer(d) ==
  /\ pc = "completions" /\ d \in connected /\ watch.peers[d] = None /\ Answered
  /\ watch' = [watch EXCEPT !.peers[d] = Completion(d)]
  /\ pc' = IF \A other \in connected : watch'.peers[other] # None THEN "second status" ELSE "completions"
  /\ UNCHANGED <<syncthingVars, queue, phase, connected, streak, sample, stop, monitor, pastVars>>

(* A mutation told by a status, while a completion from before it is still *)
(* to be read.                                                             *)
Outruns(w) ==
  /\ PostGame /\ index > w.seq
  /\ \E i, j \in DOMAIN queue :
       /\ i < j /\ queue[i].kind = "FolderCompletion"
       /\ queue[j].kind = "LocalIndexUpdated" /\ queue[j].seq = index

SecondStatus ==
  /\ At("second status", "look")
  /\ \/ Answered /\ watch' = Applied(watch, Status) /\ outrun' = (outrun \/ Outruns(watch))
     \/ Fault /\ UNCHANGED <<watch, outrun>>
  /\ Publish(Activity(watch', streak))
  /\ UNCHANGED <<queue, connected, streak, first>>

Stops == At("look", "done") /\ stop /\ UNCHANGED <<queue, watch, connected, streak, sample, monitor, pastVars, spent>>

(* The TTL has run out, or no peer is connected any more.                  *)
Expires ==
  /\ At("look", "done") /\ ~stop /\ Answered
  /\ \/ Publish(Ended("stopped")) /\ UNCHANGED connected
     \/ up = {} /\ connected' = up /\ Publish(Ended("failed"))
  /\ UNCHANGED <<queue, watch, streak, pastVars>>

(* A pass: the connections, then the status, then the events.  Each of the *)
(* three requests may fail.                                                *)
Connections ==
  /\ At("look", "status") /\ ~stop
  /\ \/ Answered /\ connected' = up
     \/ Fault /\ UNCHANGED connected
  /\ connected' # {}
  /\ watch' \in Aged(watch)
  /\ UNCHANGED <<queue, streak, sample, monitor, pastVars>>

Look ==
  /\ At("status", "read")
  /\ \/ Answered /\ watch' = Applied(watch, Status) /\ outrun' = (outrun \/ Outruns(watch))
     \/ Fault /\ UNCHANGED <<watch, outrun>>
  /\ UNCHANGED <<queue, connected, streak, sample, monitor, first>>

(* The end of a pass: the streak, the boundaries and the sample.  A peer   *)
(* that is behind may have been so for the stall window or the ceiling.    *)
Streak(w) ==
  IF w.noted # None /\ \E d \in connected : Complete(w.peers[d])
  THEN IF streak < Confirmations THEN streak + 1 ELSE streak
  ELSE 0
Behind(w) == \E d \in connected : w.peers[d] # None /\ w.peers[d].need > 0
Finish(w) ==
  /\ watch' = w
  /\ IF PostGame THEN streak' = Streak(w) ELSE UNCHANGED streak
  /\ \/ PostGame /\ Behind(w) /\ pc' = "done" /\ Publish(Ended("failed"))
     \/ pc' = "look" /\ Publish(Activity(w, streak'))
  /\ UNCHANGED <<syncthingVars, phase, connected, stop, pastVars>>

Read ==
  /\ pc = "read"
  /\ LET w == FoldLeft(Handled, watch, queue) IN
     \/ /\ Answered /\ queue' = <<>>
        /\ \A i \in DOMAIN queue : queue[i].kind # "ConfigSaved"
        /\ Finish(w)
     \/ /\ Answered /\ queue' = <<>>
        /\ \E i \in DOMAIN queue : queue[i].kind = "ConfigSaved"
        /\ pc' = "reload" /\ watch' = w
        /\ UNCHANGED <<syncthingVars, phase, connected, streak, sample, stop, monitor, pastVars>>
     \/ Fault /\ UNCHANGED queue /\ Finish(watch)

Unknown == [to |-> "unknown", seq |-> 0, need |-> FALSE]
Reload ==
  /\ pc = "reload" /\ UNCHANGED queue
  /\ \/ Answered /\ Finish(Replaced(watch, Status))
     \/ Answered /\ Finish(Reported(watch, Unknown))

RunWatch ==
  \/ InitFails \/ FirstStatus \/ Cursor \/ SecondStatus \/ \E d \in Peers : AskPeer(d)
  \/ Stops \/ Expires \/ Connections \/ Look \/ Read \/ Reload
-----------------------------------------------------------------------------
(* Syncthing, and who writes to the folder.  Bound: they rest once the     *)
(* watch has ended or was told to, as nothing it reads is shown any more.  *)

Emit(e) == Len(queue) < MaxQueue /\ queue' = Append(queue, e)
Elsewhere == pc # "done" /\ ~stop /\ UNCHANGED <<phase, watchVars, sample, stop, monitor, pastVars>>

Write ==
  /\ Elsewhere /\ disk <= MaxWrites /\ disk' = disk + 1
  /\ UNCHANGED <<index, has, up, folder, incoming, queue, spent>>
Index ==
  /\ Elsewhere /\ index < disk /\ index' = disk
  /\ Emit([kind |-> "LocalIndexUpdated", seq |-> disk])
  /\ UNCHANGED <<disk, has, up, folder, incoming, spent>>
Pull(d) ==
  /\ Elsewhere /\ d \in up /\ has[d] < index /\ has' = [has EXCEPT ![d] = index]
  /\ UNCHANGED <<disk, index, up, folder, incoming, queue, spent>>
(* Bound: no completion that is known, or the same as one to be read.      *)
Report(d) ==
  LET e == [kind |-> "FolderCompletion", peer |-> d, completion |-> Completion(d)] IN
  /\ Elsewhere /\ d \in up /\ Emit(e)
  /\ watch.peers[d] # e.completion /\ \A i \in DOMAIN queue : queue[i] # e
  /\ UNCHANGED <<syncthingVars, spent>>

(* A peer connects or disconnects, content is announced or received, the   *)
(* folder takes another state.                                             *)
Changes ==
  /\ Elsewhere /\ Spend /\ UNCHANGED <<disk, index, has>>
  /\ \/ \E d \in Peers : up' \in {up \cup {d}, up \ {d}} \ {up} /\ UNCHANGED <<folder, incoming, queue>>
     \/ incoming' = ~incoming /\ UNCHANGED <<up, folder, queue>>
     \/ /\ folder' \in FolderStates \ {folder} /\ UNCHANGED <<up, incoming>>
        /\ \E to \in {folder', "unknown"} : Emit([kind |-> "StateChanged", to |-> to])
Tells ==
  /\ Elsewhere /\ Spend /\ UNCHANGED syncthingVars
  /\ \/ Emit([kind |-> "FolderSummary", to |-> folder, seq |-> index, need |-> incoming])
     \/ Emit([kind |-> "ConfigSaved"])
     \/ \E d \in up, on \in BOOLEAN : Emit([kind |-> "RemoteDownloadProgress", peer |-> d, on |-> on])
     \/ \E k \in Signals, on \in BOOLEAN : Emit([kind |-> k, on |-> on])
Loses ==
  /\ Elsewhere /\ Fault /\ queue # <<>> /\ queue' = <<>>
  /\ UNCHANGED syncthingVars

Syncthing == Write \/ Index \/ Changes \/ Tells \/ Loses \/ \E d \in Peers : Pull(d) \/ Report(d)
-----------------------------------------------------------------------------
(* The monitor: transition, and what ends a context                        *)

Monitors == UNCHANGED <<syncthingVars, queue, phase, watchVars, sample, pastVars, spent>>

Quorum == 3
Counts(seen) == seen /\ sample.settled /\ (PostGame => monitor.handoff # None)
Poll ==
  /\ Monitors /\ monitor.step = "watching" /\ monitor.news /\ sample.status = "activity"
  /\ monitor.ready \/ sample.state # "unknown"
  /\ LET seen == monitor.seen \/ sample.busy
         n == IF Counts(seen) THEN monitor.settled + 1 ELSE 0
     IN /\ monitor' = [monitor EXCEPT !.step = IF n = Quorum THEN "complete" ELSE @, !.ready = TRUE,
                         !.seen = seen, !.settled = n, !.news = FALSE,
                         !.taken = IF n = Quorum THEN sample.seq ELSE @]
        /\ stop' = (stop \/ n = Quorum)

(* activatePostGameHandoff, once the backup was written.                   *)
Handoff ==
  /\ Monitors /\ PostGame /\ monitor.step = "watching" /\ monitor.ready
  /\ monitor.handoff = None /\ disk > 1
  /\ monitor' = [monitor EXCEPT !.handoff = disk] /\ UNCHANGED stop

(* A failed or ended watch, a ceiling, a timeout, or a newer watch.        *)
GivesUp ==
  /\ Monitors /\ monitor.step = "watching"
  /\ monitor' = [monitor EXCEPT !.step = "cancelled"] /\ stop' = TRUE

Next == RunWatch \/ Syncthing \/ Poll \/ Handoff \/ GivesUp
Spec == Init /\ [][Next]_vars
-----------------------------------------------------------------------------
(* Type correctness: what the watch, its sample and the monitor may hold.  *)
TypeOK ==
  /\ {disk, index, first} \subseteq 0..MaxWrites + 1 /\ index <= disk
  /\ has \in [Peers -> 0..index] /\ up \subseteq Peers /\ connected \subseteq Peers
  /\ folder \in FolderStates /\ incoming \in BOOLEAN /\ Len(queue) <= MaxQueue
  /\ phase \in Phases /\ streak \in 0..Confirmations /\ {stop, outrun} \subseteq BOOLEAN
  /\ pc \in {"first status", "cursor", "completions", "second status", "look", "status",
            "read", "reload", "done"}
  /\ watch.state \in FolderStates \cup {"unknown"} /\ watch.seq \in 0..MaxWrites + 1
  /\ watch.noted \in 1..MaxWrites + 1 \cup {None} /\ watch.peers \in [Peers -> Completions \cup {None}]
  /\ watch.fresh \subseteq {"change", "scan", "finished"} /\ watch.recent \subseteq Signals \cup {"index"}
  /\ watch.remote \subseteq Peers /\ {watch.need, watch.hold, watch.silent} \subseteq BOOLEAN
  /\ sample # None => sample.status \in {"activity", "failed", "stopped"}
  /\ monitor.step \in {"watching", "complete", "cancelled"} /\ monitor.settled \in 0..Quorum
  /\ (monitor.step = "complete") = (monitor.taken # None)

(* A post-game sample says that nothing is being uploaded only once some   *)
(* peer has had every write up to the last mutation the watch noted: what  *)
(* outbound_peer_confirmation_pending is for.  The exception is a status   *)
(* that overtakes a completion: the completion is older than the write,    *)
(* and counts as fresh because it is read later.                           *)
UploadedBeforeQuiet ==
  (/\ PostGame /\ sample # None /\ ~outrun
   /\ sample.status = "activity" /\ sample.noted # None /\ ~sample.uploading)
  => \E d \in Peers : has[d] >= sample.noted

(* SYNCTHING COMPLETE after a backup says that some peer has the backup.   *)
(* It holds when the backup was indexed after the watch began, and before  *)
(* the sample that completed the quorum; and when no status overtook a     *)
(* completion, and no summary or reload moved the sequence on unnoted.     *)
CompleteIsConfirmed ==
  monitor.step = "complete" /\ PostGame =>
    /\ monitor.handoff # None
    /\ \/ \E d \in Peers : has[d] >= monitor.handoff
       \/ monitor.taken < monitor.handoff \/ monitor.handoff <= first
       \/ outrun \/ watch.silent

(* SYNCTHING COMPLETE comes after a connected peer has caught up with the  *)
(* backup, as the display specification says of it without exception.      *)
CompleteMeansConfirmed ==
  monitor.step = "complete" /\ PostGame => \E d \in Peers : has[d] >= monitor.handoff
==============================================================================
