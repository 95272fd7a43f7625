--------------------------- MODULE WorkersProofs ---------------------------
(***************************************************************************)
(* The safety properties of Workers, for any number of calls and watches.  *)
(* IInv is their inductive invariant: one lemma below shows for each of    *)
(* its parts that every step keeps it, naming the parts this rests on.     *)
(***************************************************************************)
EXTENDS Workers, TLAPS

(* TypeOK, by the variables it is about.                                   *)
CallTypes ==
  /\ pc \in [Callers -> Running \cup Manager \cup {"idle", "serving", "spawning", "exited"}]
  /\ proc \in [Callers -> {"none", "rest", "all"}] /\ sig \in [Callers -> {"none", "TERM", "KILL"}]
  /\ groups \subseteq {c \in Callers : pc[c] \in (Running \cup {"exited"}) \ {"spawned"}}
WatchTypes ==
  /\ thread \in [Watches -> {"none", "running", "leaving", "ended"}]
  /\ game \in [Watches -> Games \cup {None}]
  /\ told \cup registered \cup taken \cup dropped \subseteq {w \in Watches : thread[w] # "none"}
  /\ old \in [Callers -> SUBSET {w \in Watches : thread[w] # "none"}]
OnePerGame == \A w, v \in registered : game[w] = game[v] => w = v
UnloadTypes ==
  /\ {killing, swept, halted, late} \subseteq BOOLEAN
  /\ unload \in {"serving", "closed", "killing", "draining", "drained", "holding", "stopping",
                 "giving up", "clean", "unclean"}

(* A live group is one that cancel_all will find, or was just spawned.     *)
GroupsKnown == \A c \in Callers : Exists(c) => c \in groups \/ pc[c] = "spawned"

(* The sweep comes after the flag that keeps further commands away.    *)
FlagBeforeSweep ==
  /\ unload \notin {"serving", "closed"} => killing
  /\ swept => killing

(* A call has taken watches only while it is stopping them.                *)
OldIsBeingStopped == \A c \in Callers : old[c] # {} => pc[c] \in {"replacing", "stopping"}

(* While unload can still be clean, a watch thread that runs is owned: by  *)
(* the manager, by unload, or by a call that is stopping it; or given up.  *)
Hopeful == unload \notin {"giving up", "unclean"}
WatchesOwned ==
  Hopeful => \A w \in Watches :
    thread[w] \in {"running", "leaving"} =>
      w \in registered \/ w \in taken \/ w \in dropped \/ \E c \in Callers : w \in old[c]

(* What the stages of unload have found stays so.                          *)
StagesHold ==
  /\ unload \in {"drained", "stopping", "clean"} => groups = {} /\ Drained
  /\ unload \in {"stopping", "clean"} => registered = {}
  /\ unload \notin {"stopping", "giving up"} => taken = {}

IInv ==
  /\ CallTypes /\ WatchTypes /\ OnePerGame /\ UnloadTypes
  /\ ReplyMeansExit /\ GroupsKnown /\ FlagBeforeSweep /\ NoGroupIsMissed
  /\ OldIsBeingStopped /\ WatchesOwned /\ StagesHold

(* Types of the calls and their groups: a group is in the set from when it *)
(* is tracked until its exit is confirmed.                                 *)
LEMMA StepCallTypes ==
  ASSUME CallTypes, Next
  PROVE CallTypes'
<1> USE DEF CallTypes, Exists, Running, Manager, At, Command, Manage, WatchStep, Stage,
  processVars, Send
<1>1. ASSUME NEW c \in Callers, Enter(c) PROVE CallTypes'
  BY <1>1 DEF Enter
<1>2. ASSUME NEW c \in Callers, Leave(c) PROVE CallTypes'
  BY <1>2 DEF Leave
<1>3. ASSUME NEW c \in Callers, Run(c) PROVE CallTypes'
  BY <1>3 DEF Run
<1>4. ASSUME NEW c \in Callers, Spawn(c) PROVE CallTypes'
  BY <1>4 DEF Spawn
<1>5. ASSUME NEW c \in Callers, SpawnFails(c) PROVE CallTypes'
  BY <1>5 DEF SpawnFails
<1>6. ASSUME NEW c \in Callers, Track(c) PROVE CallTypes'
  BY <1>6 DEF Track
<1>7. ASSUME NEW c \in Callers, Recheck(c) PROVE CallTypes'
  BY <1>7 DEF Recheck
<1>8. ASSUME NEW c \in Callers, Terminate(c) PROVE CallTypes'
  BY <1>8 DEF Terminate
<1>9. ASSUME NEW c \in Callers, Exited(c) PROVE CallTypes'
  BY <1>9 DEF Exited
<1>10. ASSUME NEW c \in Callers, Grace(c) PROVE CallTypes'
  BY <1>10 DEF Grace
<1>11. ASSUME NEW c \in Callers, Killed(c) PROVE CallTypes'
  BY <1>11 DEF Killed
<1>12. ASSUME NEW c \in Callers, Unconfirmed(c) PROVE CallTypes'
  BY <1>12 DEF Unconfirmed
<1>13. ASSUME NEW c \in Callers, WaitedFor(c) PROVE CallTypes'
  BY <1>13 DEF WaitedFor
<1>14. ASSUME NEW c \in Callers, ConfirmExit(c) PROVE CallTypes'
  BY <1>14 DEF ConfirmExit
<1>15. ASSUME NEW c \in Callers, Ends(c) PROVE CallTypes'
  BY <1>15 DEF Ends
<1>16. ASSUME NEW c \in Callers, Register(c) PROVE CallTypes'
  <2>1. /\ pc[c] = "probing" /\ pc' = [pc EXCEPT ![c] = "replacing"]
       /\ UNCHANGED <<processVars, unloadVars>>
    BY <1>16 DEF Register
  <2>. QED
    BY <2>1
<1>17. ASSUME NEW c \in Callers, Stopped(c) PROVE CallTypes'
  BY <1>17 DEF Stopped
<1>18. CASE SweepGroups
  BY <1>18 DEF SweepGroups
<1>19. CASE Drain
  BY <1>19 DEF Drain, Drained
<1>20. ASSUME NEW c \in Callers,
            StartWatch(c) \/ StopWatch(c) \/ ProbeFails(c) \/ Tell(c) \/ GiveUp(c)
     PROVE CallTypes'
  BY <1>20 DEF StartWatch, StopWatch, ProbeFails, Tell, GiveUp
<1>21. ASSUME NEW w \in Watches, WatchEnds(w) \/ Expires(w) \/ TakesItselfOut(w) PROVE CallTypes'
  BY <1>21 DEF WatchEnds, Expires, TakesItselfOut
<1>22. CASE StopAdmission \/ TimeIsUp \/ WatchdogFails \/ StopCommands \/ HaltWatches \/
          TakeWatches \/ TellTaken \/ Join \/ Finish
  BY <1>22 DEF StopAdmission, TimeIsUp, WatchdogFails, StopCommands, HaltWatches,
    TakeWatches, TellTaken, Join, Finish
<1>. QED
  BY <1>1, <1>2, <1>3, <1>4, <1>5, <1>6, <1>7, <1>8, <1>9, <1>10, <1>11, <1>12, <1>13,
    <1>14, <1>15, <1>16, <1>17, <1>18, <1>19, <1>20, <1>21, <1>22 DEF Next, CommandStep,
    ManagerStep, UnloadStep

(* Types of the watches: what is registered, told or taken was started.    *)
LEMMA StepWatchTypes ==
  ASSUME CallTypes, WatchTypes, Next
  PROVE WatchTypes'
<1> USE DEF CallTypes, WatchTypes, Exists, Running, Manager, At, Command, Manage,
  WatchStep, Stage, processVars, watchVars, unloadVars
<1>1. ASSUME NEW c \in Callers, Register(c) PROVE WatchTypes'
  BY <1>1 DEF Register
<1>2. ASSUME NEW c \in Callers, StopWatch(c) PROVE WatchTypes'
  BY <1>2 DEF StopWatch
<1>3. ASSUME NEW c \in Callers, Tell(c) PROVE WatchTypes'
  BY <1>3 DEF Tell
<1>4. ASSUME NEW c \in Callers, GiveUp(c) PROVE WatchTypes'
  BY <1>4 DEF GiveUp
<1>5. ASSUME NEW w \in Watches, WatchEnds(w) PROVE WatchTypes'
  BY <1>5 DEF WatchEnds
<1>6. ASSUME NEW w \in Watches, Expires(w) PROVE WatchTypes'
  BY <1>6 DEF Expires
<1>7. ASSUME NEW w \in Watches, TakesItselfOut(w) PROVE WatchTypes'
  BY <1>7 DEF TakesItselfOut
<1>8. CASE Drain
  BY <1>8 DEF Drain, Drained
<1>9. CASE TakeWatches
  BY <1>9 DEF TakeWatches
<1>10. CASE TellTaken
  <2>1. PICK w \in taken : told' = told \cup {w}
    BY <1>10 DEF TellTaken
  <2>2. UNCHANGED <<thread, game, registered, taken, dropped, old>>
    BY <1>10 DEF TellTaken
  <2>. QED
    BY <2>1, <2>2
<1>11. CASE Join
  BY <1>11 DEF Join
<1>12. CASE Finish
  BY <1>12 DEF Finish
<1>13. ASSUME NEW c \in Callers,
            Enter(c) \/ Leave(c) \/ Run(c) \/ Spawn(c) \/ SpawnFails(c) \/ Track(c) \/
            Recheck(c) \/ Terminate(c) \/ Exited(c) \/ Grace(c) \/ Killed(c) \/
            Unconfirmed(c) \/ WaitedFor(c) \/ ConfirmExit(c) \/ Ends(c) \/
            StartWatch(c) \/ ProbeFails(c) \/ Stopped(c)
     PROVE WatchTypes'
  BY <1>13 DEF Enter, Leave, Run, Spawn, SpawnFails, Track, Recheck, Terminate, Exited,
    Grace, Killed, Unconfirmed, WaitedFor, ConfirmExit, Ends, StartWatch, ProbeFails,
    Stopped
<1>14. CASE StopAdmission \/ TimeIsUp \/ WatchdogFails \/ StopCommands \/ SweepGroups \/
          HaltWatches
  BY <1>14 DEF StopAdmission, TimeIsUp, WatchdogFails, StopCommands, SweepGroups,
    HaltWatches
<1>. QED
  BY <1>1, <1>2, <1>3, <1>4, <1>5, <1>6, <1>7, <1>8, <1>9, <1>10, <1>11, <1>12, <1>13,
    <1>14 DEF Next, CommandStep, ManagerStep, UnloadStep

(* A watch that is registered replaces the one of the same game.           *)
LEMMA StepOnePerGame ==
  ASSUME WatchTypes, OnePerGame, Next
  PROVE OnePerGame'
<1> USE DEF WatchTypes, OnePerGame, Exists, Running, Manager, At, Command, Manage,
  WatchStep, Stage, processVars, watchVars, unloadVars
<1>1. ASSUME NEW c \in Callers, Register(c) PROVE OnePerGame'
  BY <1>1 DEF Register
<1>2. ASSUME NEW c \in Callers, StopWatch(c) PROVE OnePerGame'
  BY <1>2 DEF StopWatch
<1>3. ASSUME NEW w \in Watches, TakesItselfOut(w) PROVE OnePerGame'
  BY <1>3 DEF TakesItselfOut
<1>4. CASE TakeWatches
  BY <1>4 DEF TakeWatches
<1>5. ASSUME NEW c \in Callers,
            Enter(c) \/ Leave(c) \/ Run(c) \/ Spawn(c) \/ SpawnFails(c) \/ Track(c) \/
            Recheck(c) \/ Terminate(c) \/ Exited(c) \/ Grace(c) \/ Killed(c) \/
            Unconfirmed(c) \/ WaitedFor(c) \/ ConfirmExit(c) \/ Ends(c) \/
            StartWatch(c) \/ ProbeFails(c) \/ Tell(c) \/ GiveUp(c) \/ Stopped(c)
     PROVE OnePerGame'
  BY <1>5 DEF Enter, Leave, Run, Spawn, SpawnFails, Track, Recheck, Terminate, Exited,
    Grace, Killed, Unconfirmed, WaitedFor, ConfirmExit, Ends, StartWatch, ProbeFails,
    Tell, GiveUp, Stopped
<1>6. ASSUME NEW w \in Watches, WatchEnds(w) \/ Expires(w) PROVE OnePerGame'
  BY <1>6 DEF WatchEnds, Expires
<1>7. CASE StopAdmission \/ TimeIsUp \/ WatchdogFails \/ StopCommands \/ SweepGroups \/
          Drain \/ HaltWatches \/ TellTaken \/ Join \/ Finish
  BY <1>7 DEF StopAdmission, TimeIsUp, WatchdogFails, StopCommands, SweepGroups, Drain,
    HaltWatches, TellTaken, Join, Finish
<1>. QED
  BY <1>1, <1>2, <1>3, <1>4, <1>5, <1>6, <1>7 DEF Next, CommandStep, ManagerStep,
    UnloadStep

(* Types of the state of unload.                                           *)
LEMMA StepUnloadTypes ==
  ASSUME UnloadTypes, Next
  PROVE UnloadTypes'
<1> USE DEF UnloadTypes, Exists, Running, Manager, At, Command, Manage, WatchStep,
  Stage, processVars, unloadVars
<1>1. CASE Drain
  BY <1>1 DEF Drain, Drained
<1>2. CASE TakeWatches
  BY <1>2 DEF TakeWatches
<1>3. CASE Join
  BY <1>3 DEF Join
<1>4. CASE Finish
  BY <1>4 DEF Finish
<1>5. ASSUME NEW c \in Callers,
            Enter(c) \/ Leave(c) \/ Run(c) \/ Spawn(c) \/ SpawnFails(c) \/ Track(c) \/
            Recheck(c) \/ Terminate(c) \/ Exited(c) \/ Grace(c) \/ Killed(c) \/
            Unconfirmed(c) \/ WaitedFor(c) \/ ConfirmExit(c) \/ Ends(c) \/
            StartWatch(c) \/ StopWatch(c) \/ ProbeFails(c) \/ Register(c) \/ Tell(c)
            \/ GiveUp(c) \/ Stopped(c)
     PROVE UnloadTypes'
  BY <1>5 DEF Enter, Leave, Run, Spawn, SpawnFails, Track, Recheck, Terminate, Exited,
    Grace, Killed, Unconfirmed, WaitedFor, ConfirmExit, Ends, StartWatch, StopWatch,
    ProbeFails, Register, Tell, GiveUp, Stopped
<1>6. ASSUME NEW w \in Watches, WatchEnds(w) \/ Expires(w) \/ TakesItselfOut(w) PROVE UnloadTypes'
  BY <1>6 DEF WatchEnds, Expires, TakesItselfOut
<1>7. CASE StopAdmission \/ TimeIsUp \/ WatchdogFails \/ StopCommands \/ SweepGroups \/
          HaltWatches \/ TellTaken
  BY <1>7 DEF StopAdmission, TimeIsUp, WatchdogFails, StopCommands, SweepGroups,
    HaltWatches, TellTaken
<1>. QED
  BY <1>1, <1>2, <1>3, <1>4, <1>5, <1>6, <1>7 DEF Next, CommandStep, ManagerStep,
    UnloadStep

(* No step leaves a command whose process group still lives.               *)
LEMMA StepReplyMeansExit ==
  ASSUME CallTypes, ReplyMeansExit, Next
  PROVE ReplyMeansExit'
<1> USE DEF CallTypes, ReplyMeansExit, Exists, Running, Manager, At, Command, Manage,
  WatchStep, Stage, processVars
<1>1. ASSUME NEW c \in Callers, Spawn(c) PROVE ReplyMeansExit'
  BY <1>1 DEF Spawn
<1>2. ASSUME NEW c \in Callers, SpawnFails(c) PROVE ReplyMeansExit'
  BY <1>2 DEF SpawnFails
<1>3. ASSUME NEW c \in Callers, Exited(c) PROVE ReplyMeansExit'
  BY <1>3 DEF Exited
<1>4. ASSUME NEW c \in Callers, Grace(c) PROVE ReplyMeansExit'
  BY <1>4 DEF Grace
<1>5. ASSUME NEW c \in Callers, Killed(c) PROVE ReplyMeansExit'
  BY <1>5 DEF Killed
<1>6. ASSUME NEW c \in Callers, Unconfirmed(c) PROVE ReplyMeansExit'
  BY <1>6 DEF Unconfirmed
<1>7. ASSUME NEW c \in Callers, WaitedFor(c) PROVE ReplyMeansExit'
  BY <1>7 DEF WaitedFor
<1>8. ASSUME NEW c \in Callers, ConfirmExit(c) PROVE ReplyMeansExit'
  BY <1>8 DEF ConfirmExit
<1>9. ASSUME NEW c \in Callers, Ends(c) PROVE ReplyMeansExit'
  BY <1>9 DEF Ends
<1>10. ASSUME NEW c \in Callers, Register(c) PROVE ReplyMeansExit'
  <2>1. /\ pc[c] = "probing" /\ pc' = [pc EXCEPT ![c] = "replacing"]
       /\ UNCHANGED <<processVars, unloadVars>>
    BY <1>10 DEF Register
  <2>. QED
    BY <2>1
<1>11. ASSUME NEW c \in Callers, Stopped(c) PROVE ReplyMeansExit'
  BY <1>11 DEF Stopped
<1>12. ASSUME NEW c \in Callers,
            Enter(c) \/ Leave(c) \/ Run(c) \/ Track(c) \/ Recheck(c) \/ Terminate(c) \/
            StartWatch(c) \/ StopWatch(c) \/ ProbeFails(c) \/ Tell(c) \/ GiveUp(c)
     PROVE ReplyMeansExit'
  BY <1>12 DEF Enter, Leave, Run, Track, Recheck, Terminate, StartWatch, StopWatch,
    ProbeFails, Tell, GiveUp
<1>13. ASSUME NEW w \in Watches, WatchEnds(w) \/ Expires(w) \/ TakesItselfOut(w) PROVE ReplyMeansExit'
  BY <1>13 DEF WatchEnds, Expires, TakesItselfOut
<1>14. CASE StopAdmission \/ TimeIsUp \/ WatchdogFails \/ StopCommands \/ SweepGroups \/
          Drain \/ HaltWatches \/ TakeWatches \/ TellTaken \/ Join \/ Finish
  BY <1>14 DEF StopAdmission, TimeIsUp, WatchdogFails, StopCommands, SweepGroups, Drain,
    HaltWatches, TakeWatches, TellTaken, Join, Finish
<1>. QED
  BY <1>1, <1>2, <1>3, <1>4, <1>5, <1>6, <1>7, <1>8, <1>9, <1>10, <1>11, <1>12, <1>13,
    <1>14 DEF Next, CommandStep, ManagerStep, UnloadStep

(* A group leaves the set only once it is gone.                            *)
LEMMA StepGroupsKnown ==
  ASSUME CallTypes, ReplyMeansExit, GroupsKnown, Next
  PROVE GroupsKnown'
<1> USE DEF CallTypes, ReplyMeansExit, GroupsKnown, Exists, Running, Manager, At,
  Command, Manage, WatchStep, Stage, processVars
<1>1. ASSUME NEW c \in Callers, Spawn(c) PROVE GroupsKnown'
  BY <1>1 DEF Spawn
<1>2. ASSUME NEW c \in Callers, Track(c) PROVE GroupsKnown'
  BY <1>2 DEF Track
<1>3. ASSUME NEW c \in Callers, Exited(c) PROVE GroupsKnown'
  BY <1>3 DEF Exited
<1>4. ASSUME NEW c \in Callers, ConfirmExit(c) PROVE GroupsKnown'
  BY <1>4 DEF ConfirmExit
<1>5. ASSUME NEW c \in Callers, Ends(c) PROVE GroupsKnown'
  BY <1>5 DEF Ends
<1>6. ASSUME NEW c \in Callers, Register(c) PROVE GroupsKnown'
  <2>1. /\ pc[c] = "probing" /\ pc' = [pc EXCEPT ![c] = "replacing"]
       /\ UNCHANGED <<processVars, unloadVars>>
    BY <1>6 DEF Register
  <2>. QED
    BY <2>1
<1>7. ASSUME NEW c \in Callers, Stopped(c) PROVE GroupsKnown'
  BY <1>7 DEF Stopped
<1>8. CASE Drain
  BY <1>8 DEF Drain, Drained
<1>9. ASSUME NEW c \in Callers,
            Enter(c) \/ Leave(c) \/ Run(c) \/ SpawnFails(c) \/ Recheck(c) \/
            Terminate(c) \/ Grace(c) \/ Killed(c) \/ Unconfirmed(c) \/ WaitedFor(c) \/
            StartWatch(c) \/ StopWatch(c) \/ ProbeFails(c) \/ Tell(c) \/ GiveUp(c)
     PROVE GroupsKnown'
  BY <1>9 DEF Enter, Leave, Run, SpawnFails, Recheck, Terminate, Grace, Killed,
    Unconfirmed, WaitedFor, StartWatch, StopWatch, ProbeFails, Tell, GiveUp
<1>10. ASSUME NEW w \in Watches, WatchEnds(w) \/ Expires(w) \/ TakesItselfOut(w) PROVE GroupsKnown'
  BY <1>10 DEF WatchEnds, Expires, TakesItselfOut
<1>11. CASE StopAdmission \/ TimeIsUp \/ WatchdogFails \/ StopCommands \/ SweepGroups \/
          HaltWatches \/ TakeWatches \/ TellTaken \/ Join \/ Finish
  BY <1>11 DEF StopAdmission, TimeIsUp, WatchdogFails, StopCommands, SweepGroups,
    HaltWatches, TakeWatches, TellTaken, Join, Finish
<1>. QED
  BY <1>1, <1>2, <1>3, <1>4, <1>5, <1>6, <1>7, <1>8, <1>9, <1>10, <1>11 DEF Next,
    CommandStep, ManagerStep, UnloadStep

(* cancel_all sets the flag before it goes over the groups.                *)
LEMMA StepFlagBeforeSweep ==
  ASSUME FlagBeforeSweep, Next
  PROVE FlagBeforeSweep'
<1> USE DEF FlagBeforeSweep, Exists, Running, Manager, At, Command, Manage, WatchStep,
  Stage, processVars, unloadVars
<1>1. CASE StopAdmission
  BY <1>1 DEF StopAdmission
<1>2. CASE TimeIsUp
  BY <1>2 DEF TimeIsUp
<1>3. CASE WatchdogFails
  BY <1>3 DEF WatchdogFails
<1>4. CASE StopCommands
  BY <1>4 DEF StopCommands
<1>5. CASE SweepGroups
  BY <1>5 DEF SweepGroups
<1>6. CASE Drain
  BY <1>6 DEF Drain, Drained
<1>7. CASE HaltWatches
  BY <1>7 DEF HaltWatches
<1>8. CASE TakeWatches
  BY <1>8 DEF TakeWatches
<1>9. CASE Join
  BY <1>9 DEF Join
<1>10. CASE Finish
  BY <1>10 DEF Finish
<1>11. ASSUME NEW c \in Callers,
            Enter(c) \/ Leave(c) \/ Run(c) \/ Spawn(c) \/ SpawnFails(c) \/ Track(c) \/
            Recheck(c) \/ Terminate(c) \/ Exited(c) \/ Grace(c) \/ Killed(c) \/
            Unconfirmed(c) \/ WaitedFor(c) \/ ConfirmExit(c) \/ Ends(c) \/
            StartWatch(c) \/ StopWatch(c) \/ ProbeFails(c) \/ Register(c) \/ Tell(c)
            \/ GiveUp(c) \/ Stopped(c)
     PROVE FlagBeforeSweep'
  BY <1>11 DEF Enter, Leave, Run, Spawn, SpawnFails, Track, Recheck, Terminate, Exited,
    Grace, Killed, Unconfirmed, WaitedFor, ConfirmExit, Ends, StartWatch, StopWatch,
    ProbeFails, Register, Tell, GiveUp, Stopped
<1>12. ASSUME NEW w \in Watches, WatchEnds(w) \/ Expires(w) \/ TakesItselfOut(w) PROVE FlagBeforeSweep'
  BY <1>12 DEF WatchEnds, Expires, TakesItselfOut
<1>13. CASE TellTaken
  BY <1>13 DEF TellTaken
<1>. QED
  BY <1>1, <1>2, <1>3, <1>4, <1>5, <1>6, <1>7, <1>8, <1>9, <1>10, <1>11, <1>12, <1>13
    DEF Next, CommandStep, ManagerStep, UnloadStep

(* A group that is tracked after the sweep meets the flag in Recheck, one   *)
(* tracked before it is signalled, and none is spawned after the flag.     *)
LEMMA StepNoGroupIsMissed ==
  ASSUME CallTypes, ReplyMeansExit, GroupsKnown, FlagBeforeSweep, NoGroupIsMissed, Next
  PROVE NoGroupIsMissed'
<1> USE DEF CallTypes, ReplyMeansExit, GroupsKnown, FlagBeforeSweep, NoGroupIsMissed,
  Exists, Running, Manager, At, Command, Manage, WatchStep, Stage, processVars, Send,
  unloadVars
<1>1. ASSUME NEW c \in Callers, Run(c) PROVE NoGroupIsMissed'
  BY <1>1 DEF Run
<1>2. ASSUME NEW c \in Callers, Spawn(c) PROVE NoGroupIsMissed'
  BY <1>2 DEF Spawn
<1>3. ASSUME NEW c \in Callers, Track(c) PROVE NoGroupIsMissed'
  BY <1>3 DEF Track
<1>4. ASSUME NEW c \in Callers, Recheck(c) PROVE NoGroupIsMissed'
  BY <1>4 DEF Recheck
<1>5. ASSUME NEW c \in Callers, Terminate(c) PROVE NoGroupIsMissed'
  BY <1>5 DEF Terminate
<1>6. ASSUME NEW c \in Callers, Grace(c) PROVE NoGroupIsMissed'
  BY <1>6 DEF Grace
<1>7. ASSUME NEW c \in Callers, Ends(c) PROVE NoGroupIsMissed'
  BY <1>7 DEF Ends
<1>8. ASSUME NEW c \in Callers, Register(c) PROVE NoGroupIsMissed'
  <2>1. /\ pc[c] = "probing" /\ pc' = [pc EXCEPT ![c] = "replacing"]
       /\ UNCHANGED <<processVars, unloadVars>>
    BY <1>8 DEF Register
  <2>. QED
    BY <2>1
<1>9. ASSUME NEW c \in Callers, Stopped(c) PROVE NoGroupIsMissed'
  BY <1>9 DEF Stopped
<1>10. CASE SweepGroups
  BY <1>10 DEF SweepGroups
<1>11. CASE Drain
  BY <1>11 DEF Drain, Drained
<1>12. ASSUME NEW c \in Callers,
            Enter(c) \/ Leave(c) \/ SpawnFails(c) \/ Exited(c) \/ Killed(c) \/
            Unconfirmed(c) \/ WaitedFor(c) \/ ConfirmExit(c) \/ StartWatch(c) \/
            StopWatch(c) \/ ProbeFails(c) \/ Tell(c) \/ GiveUp(c)
     PROVE NoGroupIsMissed'
  BY <1>12 DEF Enter, Leave, SpawnFails, Exited, Killed, Unconfirmed, WaitedFor,
    ConfirmExit, StartWatch, StopWatch, ProbeFails, Tell, GiveUp
<1>13. ASSUME NEW w \in Watches, WatchEnds(w) \/ Expires(w) \/ TakesItselfOut(w) PROVE NoGroupIsMissed'
  BY <1>13 DEF WatchEnds, Expires, TakesItselfOut
<1>14. CASE StopAdmission \/ TimeIsUp \/ WatchdogFails \/ StopCommands \/ HaltWatches \/
          TakeWatches \/ TellTaken \/ Join \/ Finish
  BY <1>14 DEF StopAdmission, TimeIsUp, WatchdogFails, StopCommands, HaltWatches,
    TakeWatches, TellTaken, Join, Finish
<1>. QED
  BY <1>1, <1>2, <1>3, <1>4, <1>5, <1>6, <1>7, <1>8, <1>9, <1>10, <1>11, <1>12, <1>13,
    <1>14 DEF Next, CommandStep, ManagerStep, UnloadStep

(* A call goes on only when it has stopped the watches it took.            *)
LEMMA StepOldIsBeingStopped ==
  ASSUME CallTypes, WatchTypes, OldIsBeingStopped, Next
  PROVE OldIsBeingStopped'
<1> USE DEF CallTypes, WatchTypes, OldIsBeingStopped, Exists, Running, Manager, At,
  Command, Manage, WatchStep, Stage, processVars
<1>1. ASSUME NEW c \in Callers, Register(c) PROVE OldIsBeingStopped'
  BY <1>1 DEF Register
<1>2. ASSUME NEW c \in Callers, StopWatch(c) PROVE OldIsBeingStopped'
  BY <1>2 DEF StopWatch
<1>3. ASSUME NEW c \in Callers, GiveUp(c) PROVE OldIsBeingStopped'
  BY <1>3 DEF GiveUp
<1>4. ASSUME NEW c \in Callers, Stopped(c) PROVE OldIsBeingStopped'
  BY <1>4 DEF Stopped
<1>5. ASSUME NEW c \in Callers,
            Enter(c) \/ Leave(c) \/ Run(c) \/ Spawn(c) \/ SpawnFails(c) \/ Track(c) \/
            Recheck(c) \/ Terminate(c) \/ Exited(c) \/ Grace(c) \/ Killed(c) \/
            Unconfirmed(c) \/ WaitedFor(c) \/ ConfirmExit(c) \/ Ends(c) \/
            StartWatch(c) \/ ProbeFails(c) \/ Tell(c)
     PROVE OldIsBeingStopped'
  BY <1>5 DEF Enter, Leave, Run, Spawn, SpawnFails, Track, Recheck, Terminate, Exited,
    Grace, Killed, Unconfirmed, WaitedFor, ConfirmExit, Ends, StartWatch, ProbeFails,
    Tell
<1>6. ASSUME NEW w \in Watches, WatchEnds(w) \/ Expires(w) \/ TakesItselfOut(w) PROVE OldIsBeingStopped'
  BY <1>6 DEF WatchEnds, Expires, TakesItselfOut
<1>7. CASE StopAdmission \/ TimeIsUp \/ WatchdogFails \/ StopCommands \/ SweepGroups \/
          Drain \/ HaltWatches \/ TakeWatches \/ TellTaken \/ Join \/ Finish
  BY <1>7 DEF StopAdmission, TimeIsUp, WatchdogFails, StopCommands, SweepGroups, Drain,
    HaltWatches, TakeWatches, TellTaken, Join, Finish
<1>. QED
  BY <1>1, <1>2, <1>3, <1>4, <1>5, <1>6, <1>7 DEF Next, CommandStep, ManagerStep,
    UnloadStep

(* start_watch hands the watch of the same game to the call that stops it. *)
LEMMA RegisterReplaces ==
  ASSUME NEW c \in Callers, Register(c)
  PROVE \E w \in Watches, g \in Games :
          /\ thread[w] = "none" /\ thread' = [thread EXCEPT ![w] = "running"]
          /\ registered' = (registered \ {v \in registered : game[v] = g}) \cup {w}
          /\ old' = [old EXCEPT ![c] = {v \in registered : game[v] = g}]
  BY Zenon DEF Register

(* A watch that runs passes from one owner to the next, until unload can   *)
(* not be clean any more.                                                  *)
LEMMA StepWatchesOwned ==
  ASSUME CallTypes, WatchTypes, OldIsBeingStopped, StagesHold, WatchesOwned, Next
  PROVE WatchesOwned'
<1> USE DEF CallTypes, WatchTypes, OldIsBeingStopped, StagesHold, WatchesOwned, Exists,
  Running, Manager, At, Command, Manage, WatchStep, Stage, processVars, watchVars,
  unloadVars, Hopeful
<1>1. ASSUME NEW c \in Callers, Register(c) PROVE WatchesOwned'
  <2>1. PICK w \in Watches, g \in Games :
         /\ thread[w] = "none" /\ thread' = [thread EXCEPT ![w] = "running"]
         /\ registered' = (registered \ {v \in registered : game[v] = g}) \cup {w}
         /\ old' = [old EXCEPT ![c] = {v \in registered : game[v] = g}]
    BY <1>1, RegisterReplaces
  <2>2. old[c] = {} /\ UNCHANGED <<taken, dropped, unload>>
    BY <1>1 DEF Register
  <2>3. \A v \in registered \ registered' : v \in old'[c]
    BY <2>1
  <2>4. \A d \in Callers : old[d] \subseteq old'[d]
    BY <2>1, <2>2
  <2>5. \A v \in Watches : v = w \/ thread'[v] = thread[v]
    BY <2>1
  <2>6. w \in registered'
    BY <2>1
  <2>. QED
    BY <2>2, <2>3, <2>4, <2>5, <2>6
<1>2. ASSUME NEW c \in Callers, StopWatch(c) PROVE WatchesOwned'
  <2>1. PICK w \in registered : registered' = registered \ {w} /\ old' = [old EXCEPT ![c] = {w}]
    BY <1>2 DEF StopWatch
  <2>2. old[c] = {} /\ UNCHANGED <<thread, taken, dropped, unload>>
    BY <1>2 DEF StopWatch
  <2>3. \A v \in registered \ registered' : v \in old'[c]
    BY <2>1
  <2>4. \A d \in Callers : old[d] \subseteq old'[d]
    BY <2>1, <2>2
  <2>. QED
    BY <2>2, <2>3, <2>4
<1>3. ASSUME NEW c \in Callers, GiveUp(c) PROVE WatchesOwned'
  BY <1>3 DEF GiveUp
<1>4. ASSUME NEW c \in Callers, Stopped(c) PROVE WatchesOwned'
  BY <1>4 DEF Stopped
<1>5. ASSUME NEW w \in Watches, WatchEnds(w) PROVE WatchesOwned'
  BY <1>5 DEF WatchEnds
<1>6. ASSUME NEW w \in Watches, Expires(w) PROVE WatchesOwned'
  BY <1>6 DEF Expires
<1>7. ASSUME NEW w \in Watches, TakesItselfOut(w) PROVE WatchesOwned'
  BY <1>7 DEF TakesItselfOut
<1>8. CASE TakeWatches
  BY <1>8 DEF TakeWatches
<1>9. CASE Join
  BY <1>9 DEF Join
<1>10. CASE Finish
  BY <1>10 DEF Finish
<1>11. ASSUME NEW c \in Callers,
            Enter(c) \/ Leave(c) \/ Run(c) \/ Spawn(c) \/ SpawnFails(c) \/ Track(c) \/
            Recheck(c) \/ Terminate(c) \/ Exited(c) \/ Grace(c) \/ Killed(c) \/
            Unconfirmed(c) \/ WaitedFor(c) \/ ConfirmExit(c) \/ Ends(c) \/
            StartWatch(c) \/ ProbeFails(c) \/ Tell(c)
     PROVE WatchesOwned'
  BY <1>11 DEF Enter, Leave, Run, Spawn, SpawnFails, Track, Recheck, Terminate, Exited,
    Grace, Killed, Unconfirmed, WaitedFor, ConfirmExit, Ends, StartWatch, ProbeFails,
    Tell
<1>12. CASE StopAdmission \/ TimeIsUp \/ WatchdogFails \/ StopCommands \/ SweepGroups \/
          Drain \/ HaltWatches \/ TellTaken
  BY <1>12 DEF StopAdmission, TimeIsUp, WatchdogFails, StopCommands, SweepGroups, Drain,
    HaltWatches, TellTaken
<1>. QED
  BY <1>1, <1>2, <1>3, <1>4, <1>5, <1>6, <1>7, <1>8, <1>9, <1>10, <1>11, <1>12 DEF Next,
    CommandStep, ManagerStep, UnloadStep

(* Once drained, nothing enters and nothing is registered any more.        *)
LEMMA StepStagesHold ==
  ASSUME CallTypes, WatchTypes, StagesHold, Next
  PROVE StagesHold'
<1> USE DEF CallTypes, WatchTypes, StagesHold, Exists, Running, Manager, At, Command,
  Manage, WatchStep, Stage, processVars, watchVars, unloadVars, Drained
<1>1. ASSUME NEW c \in Callers, Enter(c) PROVE StagesHold'
  BY <1>1 DEF Enter
<1>2. ASSUME NEW c \in Callers, Track(c) PROVE StagesHold'
  BY <1>2 DEF Track
<1>3. ASSUME NEW c \in Callers, ConfirmExit(c) PROVE StagesHold'
  BY <1>3 DEF ConfirmExit
<1>4. ASSUME NEW c \in Callers, Register(c) PROVE StagesHold'
  BY <1>4 DEF Register
<1>5. ASSUME NEW c \in Callers, StopWatch(c) PROVE StagesHold'
  BY <1>5 DEF StopWatch
<1>6. CASE Drain
  BY <1>6 DEF Drain
<1>7. CASE TakeWatches
  BY <1>7 DEF TakeWatches
<1>8. CASE Join
  BY <1>8 DEF Join
<1>9. CASE Finish
  BY <1>9 DEF Finish
<1>10. ASSUME NEW c \in Callers,
            Leave(c) \/ Run(c) \/ Spawn(c) \/ SpawnFails(c) \/ Recheck(c) \/
            Terminate(c) \/ Exited(c) \/ Grace(c) \/ Killed(c) \/ Unconfirmed(c) \/
            WaitedFor(c) \/ Ends(c) \/ StartWatch(c) \/ ProbeFails(c) \/ Tell(c) \/
            GiveUp(c) \/ Stopped(c)
     PROVE StagesHold'
  BY <1>10 DEF Leave, Run, Spawn, SpawnFails, Recheck, Terminate, Exited, Grace, Killed,
    Unconfirmed, WaitedFor, Ends, StartWatch, ProbeFails, Tell, GiveUp, Stopped
<1>11. ASSUME NEW w \in Watches, WatchEnds(w) \/ Expires(w) \/ TakesItselfOut(w) PROVE StagesHold'
  BY <1>11 DEF WatchEnds, Expires, TakesItselfOut
<1>12. CASE StopAdmission \/ TimeIsUp \/ WatchdogFails \/ StopCommands \/ SweepGroups \/
          HaltWatches \/ TellTaken
  BY <1>12 DEF StopAdmission, TimeIsUp, WatchdogFails, StopCommands, SweepGroups,
    HaltWatches, TellTaken
<1>. QED
  BY <1>1, <1>2, <1>3, <1>4, <1>5, <1>6, <1>7, <1>8, <1>9, <1>10, <1>11, <1>12 DEF Next,
    CommandStep, ManagerStep, UnloadStep

(* The parts of the inductive invariant that type the state are TypeOK.    *)
LEMMA TypeParts == CallTypes /\ WatchTypes /\ OnePerGame /\ UnloadTypes => TypeOK
<1> SUFFICES ASSUME CallTypes, WatchTypes, OnePerGame, UnloadTypes PROVE TypeOK
  OBVIOUS
<1>1. old \in [Callers -> SUBSET Watches]
  BY DEF WatchTypes
<1>. QED
  BY <1>1 DEF CallTypes, WatchTypes, OnePerGame, UnloadTypes, TypeOK

(* All calls idle and nothing running when the backend starts to serve.    *)
LEMMA InitIInv == Init => IInv
<1> SUFFICES ASSUME Init PROVE IInv
  OBVIOUS
<1> USE DEF Init
<1>1. CallTypes /\ OnePerGame /\ UnloadTypes
  BY DEF CallTypes, OnePerGame, UnloadTypes
<1>2. WatchTypes
  BY DEF WatchTypes
<1>3. ReplyMeansExit /\ GroupsKnown /\ FlagBeforeSweep /\ NoGroupIsMissed
  BY DEF ReplyMeansExit, GroupsKnown, FlagBeforeSweep, NoGroupIsMissed, Exists
<1>4. OldIsBeingStopped /\ WatchesOwned /\ StagesHold
  BY DEF OldIsBeingStopped, WatchesOwned, StagesHold
<1>. QED
  BY <1>1, <1>2, <1>3, <1>4 DEF IInv

(* A step that leaves every variable alone keeps the invariant.            *)
LEMMA StutterIInv == ASSUME IInv, UNCHANGED vars PROVE IInv'
<1> USE DEF vars, processVars, watchVars, unloadVars, IInv
<1>1. CallTypes' /\ WatchTypes' /\ OnePerGame' /\ UnloadTypes'
  BY DEF CallTypes, WatchTypes, OnePerGame, UnloadTypes
<1>2. ReplyMeansExit' /\ GroupsKnown' /\ FlagBeforeSweep' /\ NoGroupIsMissed'
  BY DEF ReplyMeansExit, GroupsKnown, FlagBeforeSweep, NoGroupIsMissed, Exists
<1>3. OldIsBeingStopped' /\ WatchesOwned' /\ StagesHold'
  BY DEF OldIsBeingStopped, WatchesOwned, Hopeful, StagesHold, Drained
<1>. QED
  BY <1>1, <1>2, <1>3

(* Every step keeps all of the inductive invariant.                        *)
LEMMA StepIInv == IInv /\ [Next]_vars => IInv'
<1> SUFFICES ASSUME IInv, [Next]_vars PROVE IInv'
  OBVIOUS
<1>1. CASE Next
  BY <1>1, StepCallTypes, StepWatchTypes, StepOnePerGame, StepUnloadTypes, StepReplyMeansExit,
    StepGroupsKnown, StepFlagBeforeSweep, StepNoGroupIsMissed, StepOldIsBeingStopped,
    StepWatchesOwned, StepStagesHold DEF IInv
<1>2. CASE UNCHANGED vars
  BY <1>2, StutterIInv
<1>. QED
  BY <1>1, <1>2

(* The inductive invariant holds in every state of every behaviour.        *)
THEOREM Invariance == Spec => []IInv
  BY InitIInv, StepIInv, PTL DEF Spec

(* Where each call, process group, watch and stage of unload may be, and   *)
(* one watch at most per game (TypeOK of Workers).                         *)
THEOREM TypeCorrect == Spec => []TypeOK
<1>1. IInv => TypeOK
  BY TypeParts DEF IInv
<1>. QED
  BY <1>1, Invariance, PTL

(* run_at_cancellable and the waits of its callers: no call goes on while  *)
(* a process of its command lives.                                         *)
THEOREM NoReplyBeforeExit == Spec => []ReplyMeansExit
<1>1. IInv => ReplyMeansExit
  BY DEF IInv
<1>. QED
  BY <1>1, Invariance, PTL

(* cancel_all against a command that is just being started: no group       *)
(* slips through.                                                          *)
THEOREM CancelAllMissesNone == Spec => []NoGroupIsMissed
<1>1. IInv => NoGroupIsMissed
  BY DEF IInv
<1>. QED
  BY <1>1, Invariance, PTL

(* shutdown_until: what a clean unload leaves behind.                      *)
THEOREM CleanUnloadIsClean == Spec => []CleanUnload
<1>1. IInv => CleanUnload
  <2> SUFFICES ASSUME IInv, unload = "clean" PROVE
        /\ groups = {} /\ \A c \in Callers : pc[c] = "idle" /\ ~Exists(c)
        /\ \A w \in Watches : thread[w] \in {"none", "ended"} \/ w \in dropped
    BY DEF CleanUnload
  <2>1. groups = {} /\ registered = {} /\ taken = {} /\ \A c \in Callers : pc[c] = "idle"
    BY DEF IInv, StagesHold, Drained
  <2>2. \A c \in Callers : ~Exists(c)
    BY <2>1 DEF IInv, ReplyMeansExit, Running
  <2>3. \A c \in Callers : old[c] = {}
    BY <2>1 DEF IInv, OldIsBeingStopped
  <2>4. \A w \in Watches : thread[w] \in {"none", "ended", "running", "leaving"}
    BY DEF IInv, WatchTypes
  <2>. QED
    BY <2>1, <2>2, <2>3, <2>4 DEF IInv, WatchesOwned, Hopeful
<1>. QED
  BY <1>1, Invariance, PTL
==============================================================================
