------------------------------ MODULE Workers ------------------------------
(***************************************************************************)
(* What the backend has running besides the launch gates, and how unload   *)
(* ends it: the calls that serve RPCs, the process groups of the Ludusavi  *)
(* commands they run (ProcessManager), and the threads of the Syncthing    *)
(* watches they start and stop (SyncthingWatchManager).  shutdown_until    *)
(* closes admission, kills the commands, waits for the calls to drain,     *)
(* and stops the watches, all before one deadline.                         *)
(*                                                                         *)
(* A call runs one command at a time, so a command and its process group   *)
(* go by the call's name.  What a watch thread does between its start and  *)
(* its end is SyncthingWatch, what becomes of the gates is GateService.    *)
(***************************************************************************)
EXTENDS Naturals

CONSTANTS
  Callers,      \* threads that serve calls
  Games,        \* game_name and app_id of a watch
  None,
  MaxWatches    \* bound: watches that are ever started

ASSUME WorkersAssumption == None \notin Callers \cup Games /\ MaxWatches \in Nat

Watches == 1..MaxWatches

VARIABLES
  pc,           \* where each call is
  proc,         \* the group: all of it, the rest without its leader, or none
  sig,          \* the last signal sent to the group
  groups,       \* ProcessManager.groups
  killing,      \* ProcessManager.stopping
  swept,        \* cancel_all has gone over the groups
  thread,       \* the watch threads
  game,         \* what each watch was started for
  told,         \* the watches whose stop flag is set
  registered,   \* ManagerState.watches
  old,          \* the watches a call has taken from there and is stopping
  halted,       \* ManagerState.stopping
  unload,       \* how far shutdown_until is
  late,         \* the deadline has passed
  taken,        \* the watches stop_all_until has taken and not stopped yet
  dropped       \* the watches a call gave up waiting for (history)

processVars == <<proc, sig, groups>>
watchVars == <<thread, game, told, registered, dropped>>
unloadVars == <<killing, swept, halted, unload, late, taken>>
vars == <<pc, processVars, watchVars, old, unloadVars>>

Init ==
  /\ pc = [c \in Callers |-> "idle"]
  /\ proc = [c \in Callers |-> "none"] /\ sig = [c \in Callers |-> "none"] /\ groups = {}
  /\ thread = [w \in Watches |-> "none"] /\ game = [w \in Watches |-> None]
  /\ told = {} /\ registered = {} /\ dropped = {} /\ old = [c \in Callers |-> {}]
  /\ killing = FALSE /\ swept = FALSE /\ halted = FALSE
  /\ unload = "serving" /\ late = FALSE /\ taken = {}

(* The process ends with unload, and its threads with it.                  *)
Over == unload \in {"clean", "unclean"}
At(c, here, next) == ~Over /\ pc[c] = here /\ pc' = [pc EXCEPT ![c] = next]
Exists(c) == proc[c] # "none"
Send(c, s) == sig' = IF Exists(c) /\ sig[c] # "KILL" THEN [sig EXCEPT ![c] = s] ELSE sig
-----------------------------------------------------------------------------
(* Calls                                                                   *)

Enter(c) ==
  /\ At(c, "idle", "serving") /\ unload = "serving"
  /\ UNCHANGED <<processVars, watchVars, old, unloadVars>>
Leave(c) ==
  /\ At(c, "serving", "idle")
  /\ UNCHANGED <<processVars, watchVars, old, unloadVars>>
-----------------------------------------------------------------------------
(* run_at_cancellable, and the wait of its callers for the group           *)

Command(c, here, next) == At(c, here, next) /\ UNCHANGED <<watchVars, old, unloadVars>>

(* Once the commands are killed no other is started.                       *)
Run(c) == Command(c, "serving", "spawning") /\ ~killing /\ UNCHANGED processVars

Spawn(c) ==
  /\ Command(c, "spawning", "spawned") /\ proc' = [proc EXCEPT ![c] = "all"]
  /\ UNCHANGED <<sig, groups>>
SpawnFails(c) == Command(c, "spawning", "serving") /\ UNCHANGED processVars

Track(c) ==
  /\ Command(c, "spawned", "tracked") /\ groups' = groups \cup {c}
  /\ UNCHANGED <<proc, sig>>

(* Mutant: the check after the group was tracked is left out. *)
RecheckNothing(c) == Command(c, "tracked", "running") /\ UNCHANGED processVars
(* A guarded command is told to end by its launch gate's token as well.    *)
Recheck(c) ==
  /\ Command(c, "tracked", "running") /\ UNCHANGED <<proc, groups>>
  /\ Send(c, "TERM") \/ (~killing /\ UNCHANGED sig)

(* Cancelled by unload or the token, timed out, or an output reader could not be started.         *)
Terminate(c) ==
  /\ Command(c, "running", "terminating") /\ Send(c, "TERM")
  /\ UNCHANGED <<proc, groups>>
Exited(c) == Command(c, "running", "exited") /\ ~Exists(c) /\ UNCHANGED processVars

(* Mutant: a group that outlives the grace is not killed. *)
GraceOnly(c) ==
  /\ Command(c, "terminating", IF Exists(c) THEN "killing" ELSE "exited")
  /\ UNCHANGED processVars
(* terminate_group: after the grace, and after KILL_CONFIRM_TIMEOUT, when  *)
(* the leader is waited for however long it takes.                         *)
Grace(c) ==
  /\ Command(c, "terminating", IF Exists(c) THEN "killing" ELSE "exited")
  /\ Send(c, "KILL") /\ UNCHANGED <<proc, groups>>
Killed(c) == Command(c, "killing", "exited") /\ ~Exists(c) /\ UNCHANGED processVars
(* Mutant: the error is returned without a wait for the group. *)
UnconfirmedReturns(c) ==
  /\ Command(c, "killing", "serving") /\ proc[c] = "rest" /\ UNCHANGED processVars
Unconfirmed(c) ==
  /\ Command(c, "killing", "unconfirmed") /\ proc[c] = "rest" /\ UNCHANGED processVars

(* ProcessGroupCompletion::wait, whose signals the group has had already.  *)
WaitedFor(c) ==
  /\ Command(c, "unconfirmed", "exited") /\ ~Exists(c) /\ UNCHANGED processVars
(* Mutant: the group stays in the set. *)
ExitUnconfirmed(c) == Command(c, "exited", "serving") /\ UNCHANGED processVars
ConfirmExit(c) ==
  /\ Command(c, "exited", "serving") /\ groups' = groups \ {c}
  /\ UNCHANGED <<proc, sig>>

CommandStep(c) ==
  \/ Spawn(c) \/ SpawnFails(c) \/ Track(c) \/ Recheck(c) \/ Terminate(c) \/ Exited(c)
  \/ Grace(c) \/ Killed(c) \/ Unconfirmed(c) \/ WaitedFor(c) \/ ConfirmExit(c)

(* The kernel: a group ends by itself or when it is told to, its leader    *)
(* first or all at once, and after SIGKILL sooner or later.                *)
Ends(c) ==
  /\ ~Over /\ proc' \in {[proc EXCEPT ![c] = "none"], [proc EXCEPT ![c] = "rest"]} \ {proc} /\ Exists(c)
  /\ sig' = IF proc'[c] = "none" THEN [sig EXCEPT ![c] = "none"] ELSE sig
  /\ UNCHANGED <<pc, groups, watchVars, old, unloadVars>>
Dies(c) == sig[c] = "KILL" /\ Ends(c) /\ proc'[c] = "none"
-----------------------------------------------------------------------------
(* SyncthingWatchManager                                                   *)

Manage(c, here, next) == At(c, here, next) /\ UNCHANGED <<processVars, unloadVars>>

(* start_watch counts as a start until it returns.                         *)
StartWatch(c) == Manage(c, "serving", "probing") /\ ~halted /\ UNCHANGED <<watchVars, old>>
ProbeFails(c) == Manage(c, "probing", "serving") /\ UNCHANGED <<watchVars, old>>
Register(c) ==
  /\ Manage(c, "probing", "replacing") /\ ~halted
  /\ \E w \in Watches, g \in Games :
       /\ thread[w] = "none" /\ \A v \in 1..w - 1 : thread[v] # "none"
       /\ thread' = [thread EXCEPT ![w] = "running"] /\ game' = [game EXCEPT ![w] = g]
       /\ LET replaced == {v \in registered : game[v] = g}
          IN registered' = (registered \ replaced) \cup {w} /\ old' = [old EXCEPT ![c] = replaced]
  /\ UNCHANGED <<told, dropped>>
StopWatch(c) ==
  /\ Manage(c, "serving", "stopping")
  /\ \E w \in registered : registered' = registered \ {w} /\ old' = [old EXCEPT ![c] = {w}]
  /\ UNCHANGED <<thread, game, told, dropped>>

(* stop_until, with two seconds to wait: the watch is dropped either way.  *)
Tell(c) ==
  /\ ~Over /\ \E w \in old[c] \ told : told' = told \cup {w}
  /\ UNCHANGED <<pc, processVars, thread, game, registered, dropped, old, unloadVars>>
GiveUp(c) ==
  /\ ~Over
  /\ \E w \in old[c] \cap told :
       /\ old' = [old EXCEPT ![c] = @ \ {w}]
       /\ dropped' = IF thread[w] = "ended" THEN dropped ELSE dropped \cup {w}
  /\ UNCHANGED <<pc, processVars, thread, game, told, registered, unloadVars>>
Stopped(c) ==
  /\ Manage(c, pc[c], "serving") /\ pc[c] \in {"replacing", "stopping"} /\ old[c] = {}
  /\ UNCHANGED <<watchVars, old>>

ManagerStep(c) == ProbeFails(c) \/ Register(c) \/ Tell(c) \/ GiveUp(c) \/ Stopped(c)

(* run_watch as the manager sees it: it ends when it fails or finds that   *)
(* it was told to, and at its TTL it takes itself out first.               *)
WatchStep(w, here, next) ==
  /\ ~Over /\ thread[w] = here /\ thread' = [thread EXCEPT ![w] = next]
  /\ UNCHANGED <<pc, processVars, game, told, dropped, old, unloadVars>>
WatchEnds(w) == WatchStep(w, "running", "ended") /\ UNCHANGED registered
Expires(w) == WatchStep(w, "running", "leaving") /\ UNCHANGED registered
TakesItselfOut(w) == WatchStep(w, "leaving", "ended") /\ registered' = registered \ {w}
-----------------------------------------------------------------------------
(* shutdown_until                                                          *)

Stage(here, next) == unload = here /\ unload' = next /\ UNCHANGED <<pc, processVars, old, late>>
Starting == {c \in Callers : pc[c] \in {"probing", "replacing"}}

StopAdmission ==
  /\ Stage("serving", "closed") /\ UNCHANGED <<watchVars, killing, swept, halted, taken>>
(* cancel_all: the flag, then the groups under their lock.                 *)
StopCommands ==
  /\ Stage("closed", "killing") /\ killing' = TRUE
  /\ UNCHANGED <<watchVars, swept, halted, taken>>
SweepGroups ==
  /\ unload = "killing" /\ unload' = "draining" /\ swept' = TRUE
  /\ sig' = [c \in Callers |-> IF c \in groups /\ Exists(c) /\ sig[c] = "none" THEN "TERM" ELSE sig[c]]
  /\ UNCHANGED <<pc, proc, groups, watchVars, old, killing, halted, late, taken>>
(* The deadline of all that follows.                                       *)
TimeIsUp ==
  /\ unload \in {"draining", "drained", "holding", "stopping"} /\ ~late /\ late' = TRUE
  /\ UNCHANGED <<pc, processVars, watchVars, old, killing, swept, halted, unload, taken>>

(* A drain in time, with no group left, and a watchdog that has stopped,   *)
(* which GateService is about: otherwise unload cannot be clean any more.  *)
Drained == \A c \in Callers : pc[c] = "idle"
Drain ==
  /\ \/ Drained /\ groups' = {c \in groups : Exists(c)} /\ unload' = IF groups' = {} THEN "drained" ELSE "holding"
     \/ late /\ ~Drained /\ unload' = "holding" /\ UNCHANGED groups
  /\ unload = "draining"
  /\ UNCHANGED <<pc, proc, sig, watchVars, old, killing, swept, halted, late, taken>>
WatchdogFails ==
  /\ ~halted /\ Stage("drained", "holding") /\ UNCHANGED <<watchVars, killing, swept, halted, taken>>

(* stop_all_until: no further start, and a wait for those under way.       *)
HaltWatches ==
  /\ unload \in {"drained", "holding"} /\ ~halted /\ halted' = TRUE
  /\ UNCHANGED <<pc, processVars, watchVars, old, killing, swept, unload, late, taken>>
TakeWatches ==
  /\ halted /\ (Starting = {} \/ late)
  /\ Stage(unload, IF unload = "drained" /\ Starting = {} THEN "stopping" ELSE "giving up")
  /\ unload \in {"drained", "holding"}
  /\ taken' = registered /\ registered' = {}
  /\ UNCHANGED <<thread, game, told, dropped, killing, swept, halted>>
TellTaken ==
  /\ unload \in {"stopping", "giving up"} /\ taken \cap told = {}
  /\ \E w \in taken : told' = told \cup {w}
  /\ UNCHANGED <<pc, processVars, thread, game, registered, dropped, old, unloadVars>>
(* Mutant: whether the watches ended does not count. *)
JoinNothing ==
  /\ unload \in {"stopping", "giving up"}
  /\ \E w \in taken \cap told : (thread[w] = "ended" \/ late) /\ taken' = taken \ {w} /\ unload' = unload
  /\ UNCHANGED <<pc, processVars, watchVars, old, killing, swept, halted, late>>
Join ==
  /\ unload \in {"stopping", "giving up"}
  /\ \E w \in taken \cap told :
       /\ thread[w] = "ended" \/ late
       /\ taken' = taken \ {w}
       /\ unload' = IF thread[w] = "ended" THEN unload ELSE "giving up"
  /\ UNCHANGED <<pc, processVars, watchVars, old, killing, swept, halted, late>>
Finish ==
  /\ taken = {} /\ unload \in {"stopping", "giving up"}
  /\ Stage(unload, IF unload = "stopping" THEN "clean" ELSE "unclean")
  /\ UNCHANGED <<watchVars, killing, swept, halted, taken>>

UnloadStep ==
  \/ StopCommands \/ SweepGroups \/ Drain \/ HaltWatches \/ TakeWatches
  \/ TellTaken \/ Join \/ Finish
-----------------------------------------------------------------------------
Next ==
  \/ \E c \in Callers :
       \/ Enter(c) \/ Leave(c) \/ Run(c) \/ CommandStep(c) \/ Ends(c)
       \/ StartWatch(c) \/ StopWatch(c) \/ ManagerStep(c)
  \/ \E w \in Watches : WatchEnds(w) \/ Expires(w) \/ TakesItselfOut(w)
  \/ StopAdmission \/ TimeIsUp \/ WatchdogFails \/ UnloadStep

(* Every thread that can go on does, a call comes to its end, a command to *)
(* its timeout, a killed group is gone at last, and a watch that was told  *)
(* to stop finds out.  The deadline need not pass for it.                  *)
Fairness ==
  /\ \A c \in Callers : WF_vars(CommandStep(c) \/ ManagerStep(c)) /\ WF_vars(Dies(c)) /\ SF_vars(Leave(c))
  /\ \A w \in Watches : WF_vars((w \in told /\ WatchEnds(w)) \/ TakesItselfOut(w))
  /\ WF_vars(UnloadStep)

Spec == Init /\ [][Next]_vars
FairSpec == Spec /\ Fairness
-----------------------------------------------------------------------------
(* Properties                                                              *)

Running == {"spawned", "tracked", "running", "terminating", "killing", "unconfirmed"}
Manager == {"probing", "replacing", "stopping"}

(* Types, and where each call, group and watch may be.                     *)
TypeOK ==
  /\ pc \in [Callers -> Running \cup Manager \cup {"idle", "serving", "spawning", "exited"}]
  /\ proc \in [Callers -> {"none", "rest", "all"}] /\ sig \in [Callers -> {"none", "TERM", "KILL"}]
  /\ groups \subseteq {c \in Callers : pc[c] \in (Running \cup {"exited"}) \ {"spawned"}}
  /\ thread \in [Watches -> {"none", "running", "leaving", "ended"}]
  /\ game \in [Watches -> Games \cup {None}]
  /\ told \cup registered \cup taken \cup dropped \subseteq {w \in Watches : thread[w] # "none"}
  /\ old \in [Callers -> SUBSET Watches] /\ \A w, v \in registered : game[w] = game[v] => w = v
  /\ {killing, swept, halted, late} \subseteq BOOLEAN
  /\ unload \in {"serving", "closed", "killing", "draining", "drained", "holding", "stopping",
                 "giving up", "clean", "unclean"}

(* A command's process group is gone before its call goes on: whatever     *)
(* failed in run_at_cancellable, nobody sees a result, takes the operation *)
(* lock or releases a launch gate while Ludusavi may still be writing.     *)
ReplyMeansExit == \A c \in Callers : Exists(c) => pc[c] \in Running

(* No group slips through cancel_all: once it has gone over the groups,    *)
(* each one that lives has been told to end, or its thread is about to     *)
(* read the flag.                                                          *)
NoGroupIsMissed ==
  swept => \A c \in Callers : Exists(c) => sig[c] # "none" \/ pc[c] \in {"spawned", "tracked"}

(* A clean unload leaves no call, no process group and no watch thread     *)
(* behind, but for the watches that start_watch or stop_watch gave up      *)
(* waiting for after two seconds: nobody joins those any more.             *)
CleanUnload ==
  unload = "clean" =>
    /\ groups = {} /\ \A c \in Callers : pc[c] = "idle" /\ ~Exists(c)
    /\ \A w \in Watches : thread[w] \in {"none", "ended"} \/ w \in dropped

(* Once unload has begun the calls drain, whatever their commands do with  *)
(* SIGTERM and their leaders with their children, unless the deadline ends *)
(* it first.                                                               *)
CallsDrain == (unload # "serving") ~> (Drained \/ unload = "unclean")
==============================================================================
