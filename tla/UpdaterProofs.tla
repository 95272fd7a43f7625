--------------------------- MODULE UpdaterProofs ----------------------------
(***************************************************************************)
(* The invariants of Updater, for any releases, versions, flows and bounds *)
(* and any interleaving of the panel, the poller, the install flows, Decky *)
(* Loader and the starts of the backend.  The inductive invariant has      *)
(*   Typed       the types, and what is known of every check: it answers   *)
(*               for the version and the channel it was made for;          *)
(*   Marking     where the tag marked last is kept;                        *)
(*   Pending     where the install asked for last is kept;                 *)
(*   Installing  why nobody can withdraw an install that Decky has carried *)
(*               out, until the start after it is reconciled.              *)
(* That a check answers right needs no more than the types, and that any   *)
(* finite set of releases has a best one.                                  *)
(***************************************************************************)
EXTENDS Updater, FiniteSetTheorems, WellFoundedInduction, TLAPS

(* What a check may answer: not the version it was made for, and of the    *)
(* channel it was made for.                                                *)
NewsFor(version, ch, answer) ==
  answer \in Releases => answer # version /\ (ch = "stable" => ~Dev(answer))
GoodCheck(c) == NewsFor(c.version, c.channel, c.answer)
GoodCache(c) ==
  c.checked # None => NewsFor(c.checked.version, c.checked.channel, c.checked.result)

(* The types, and what is known of every check, cached or in flight.        *)
WorldOK ==
  /\ posted \subseteq Releases /\ channel \in Channels
  /\ running \in Releases /\ started \in {"no", "yes", "failed"}
  /\ limited \in BOOLEAN /\ decky \subseteq Releases
CacheOK ==
  /\ file \in Caches /\ mem \in Caches /\ behind \in BOOLEAN
  /\ GoodCache(file) /\ GoodCache(mem)
  /\ MemoryIsFile
PanelOK ==
  /\ panel \in CheckTypes \cup {None} /\ (panel # None => GoodCheck(panel))
  /\ late \in CheckTypes \cup {None} /\ (late # None => GoodCheck(late))
  /\ shown \in Releases \cup {None} /\ override \in Releases \cup {None} /\ current \in Releases
PastOK == {asked, due, marked} \subseteq Releases \cup {None}
FlowOK == flow \in [Flows -> FlowTypes]

(* The poller asks about the version that runs, and toasts what it may.    *)
PollOK ==
  /\ poll \in PollTypes
  /\ poll.at = "asked" => poll.version = running
  /\ poll.at = "checking" => poll.check.version = running /\ GoodCheck(poll.check)
  /\ poll.at = "toasted" => NewsFor(running, poll.channel, poll.rel)

(* The last tag marked is the one both copies of the cache have, and the   *)
(* one the poller compares with.                                           *)
Marking ==
  /\ marked # None => file.notified = marked /\ mem.notified = marked
  /\ marked # None /\ poll.at \in {"asked", "checking"} => poll.seen = marked
  /\ poll.at = "toasted" => poll.rel # marked

(* The last install asked for is the one pending in the file.              *)
Pending ==
  /\ asked # None => IsPending(file, asked)
  /\ mem.pending # None => mem.pending = file.pending

(* Until the start is reconciled, an installed release is still pending,   *)
(* and nobody can be about to withdraw it: the panel knows it as the one   *)
(* that runs.                                                              *)
Undisturbed ==
  /\ current = running /\ override = None /\ shown # running
  /\ panel # None => panel.version = running
  /\ \A f \in Flows : At(f, "idle") \/
       (flow[f].at \in {"revalidating", "recording", "clearing"} /\ Rel(f) # running)
Installing ==
  /\ due # None => due = running
  /\ due # None /\ file.promoted # due =>
       started # "yes" /\ IsPending(file, due) /\ Undisturbed

Typed == WorldOK /\ CacheOK /\ PanelOK /\ PollOK /\ FlowOK /\ PastOK
IInv == Typed /\ Marking /\ Pending /\ Installing
-----------------------------------------------------------------------------
(* The order of the releases                                               *)

(* One release comes before another only if it is another one, and two in  *)
(* a row make a third.                                                     *)
LEMMA BeforeIsOrder ==
  /\ \A r \in Releases : ~Before(r, r)
  /\ \A r, s, t \in Releases : Before(r, s) /\ Before(s, t) => Before(r, t)
BY UpdaterAssumption DEF Before, Greater, Equal, Base, Dev

(* Any releases there are have a best one: one that has the fewest before   *)
(* it has none.                                                            *)
LEMMA BestExists ==
  ASSUME NEW rs \in SUBSET Releases, rs # {}
  PROVE  \E b \in rs : \A s \in rs : ~Before(s, b)
<1> DEFINE Above(r) == {s \in rs : Before(s, r)}
           Counts == {Cardinality(Above(r)) : r \in rs}
<1>1. IsFiniteSet(rs)
  BY UpdaterAssumption, FS_Subset
<1>2. \A r \in rs : IsFiniteSet(Above(r)) /\ Cardinality(Above(r)) \in Nat
  <2> TAKE r \in rs
  <2>1. Above(r) \subseteq rs
    OBVIOUS
  <2>2. IsFiniteSet(Above(r))
    BY <1>1, <2>1, FS_Subset
  <2>. QED
    BY <2>2, FS_CardinalityType
<1>3. Counts \subseteq Nat /\ Counts # {}
  BY <1>2
<1>4. PICK n \in Counts : \A m \in Counts : <<m, n>> \notin OpToRel(<, Nat)
  BY <1>3, NatLessThanWellFounded, WFMin, Zenon
<1>5. \A m \in Counts : ~(m < n)
  BY <1>3, <1>4, Zenon DEF OpToRel
<1>6. PICK b \in rs : n = Cardinality(Above(b))
  BY <1>4
<1>7. ASSUME NEW s \in rs, Before(s, b) PROVE FALSE
  <2>1. Above(s) \subseteq Above(b) /\ Above(s) # Above(b)
    <3>1. s \in Above(b) /\ s \notin Above(s)
      BY <1>7, BeforeIsOrder
    <3>2. \A t \in Above(s) : t \in Above(b)
      BY <1>7, BeforeIsOrder
    <3>. QED
      BY <3>1, <3>2
  <2>2. Above(s) \in SUBSET Above(b) /\ IsFiniteSet(Above(b))
    BY <1>2, <2>1
  <2>3. Cardinality(Above(s)) <= Cardinality(Above(b))
            /\ Cardinality(Above(s)) # Cardinality(Above(b))
    BY <2>1, <2>2, FS_Subset, Zenon
  <2>4. Cardinality(Above(s)) < n /\ Cardinality(Above(s)) \in Counts
    <3> HIDE DEF Above
    <3>. QED
      BY <1>2, <1>6, <2>3
  <2>. QED
    BY <1>5, <2>4
<1>. QED
  BY <1>7

(* What a check answers is a listed release that its channel allows and     *)
(* not the version it was asked about, or that there is none.              *)
LEMMA AnswerIsNews ==
  ASSUME posted \subseteq Releases, NEW version \in Releases, NEW ch \in Channels, NEW broken
  PROVE  /\ Answer(version, ch, broken) \in Releases \cup {Current}
         /\ NewsFor(version, ch, Answer(version, ch, broken))
<1> DEFINE listed == OfChannel(posted, ch)
           good == Validated(listed, broken)
           offers == {r \in good : Offered(r, version, ch)}
<1>1. listed \subseteq Releases
  BY DEF OfChannel
<1>2. Tried[listed] \subseteq listed
  BY <1>1 DEF Tried
<1>3. good \subseteq listed
  BY <1>1, <1>2 DEF Validated, First
<1>4. \A r \in offers : r \in Releases /\ r # version /\ (ch = "stable" => ~Dev(r))
  BY <1>1, <1>3, UpdaterAssumption DEF OfChannel, Offered, Greater, Base, Dev
<1>5. Answer(version, ch, broken) = IF offers = {} THEN Current ELSE CHOOSE r \in offers : TRUE
  BY DEF Answer
<1>6. offers # {} => (CHOOSE r \in offers : TRUE) \in offers
  OBVIOUS
<1>. QED
  BY <1>4, <1>5, <1>6, UpdaterAssumption DEF NewsFor
-----------------------------------------------------------------------------
(* What the poller's tick and the flows carry                              *)

(* A tick that has asked knows the version and the tag it compares with.   *)
LEMMA AskedTyped ==
  ASSUME poll \in PollTypes, poll.at = "asked"
  PROVE  poll.version \in Releases /\ poll.seen \in Releases \cup {None}
BY DEF PollTypes

(* A tick that checks has its check.                                       *)
LEMMA CheckingTyped ==
  ASSUME poll \in PollTypes, poll.at = "checking"
  PROVE  poll.check \in CheckTypes /\ poll.seen \in Releases \cup {None}
<1> HIDE DEF CheckTypes
<1>. QED
  BY DEF PollTypes

(* A tick that has toasted has the release.                                *)
LEMMA ToastedTyped ==
  ASSUME poll \in PollTypes, poll.at = "toasted"
  PROVE  poll.rel \in Releases /\ poll.channel \in Channels
BY DEF PollTypes

(* The offer is right: nothing fetched beats it, and it is a step forward,  *)
(* a downgrade, or the version asked about could not be fetched.  Nothing  *)
(* is offered only when nothing fetched is a step forward.                 *)
LEMMA AnswersRight == TypeOK => AnswersAreRight
<1> SUFFICES ASSUME TypeOK, poll.at = "asked" PROVE AnswersAreRight
  BY DEF AnswersAreRight
<1> DEFINE allowed == OfChannel(posted, channel)
           listed == Tried[allowed]
           version == poll.version
<1>1. posted \subseteq Releases /\ version \in Releases
  BY AskedTyped DEF TypeOK
<1>2. allowed \subseteq Releases /\ \A r \in allowed : channel = "stable" => ~Dev(r)
  BY <1>1 DEF OfChannel
<1>3. listed \subseteq allowed
  BY <1>2 DEF Tried
<1> SUFFICES ASSUME NEW broken \in SUBSET listed
             PROVE  LET answer == Answer(version, channel, broken)
                        fetched == listed \ broken
                    IN IF answer = Current
                       THEN \A r \in fetched : ~Ahead(r, version)
                       ELSE /\ answer \in fetched /\ \A r \in fetched : ~Before(r, answer)
                            /\ \/ Ahead(answer, version)
                               \/ Downgrades(answer, version, channel)
                               \/ Dev(version) /\ version \notin fetched
  BY Zenon DEF AnswersAreRight
<1> DEFINE fetched == listed \ broken
           good == First[fetched]
           offers == {r \in good : Offered(r, version, channel)}
           answer == Answer(version, channel, broken)
<1>4. fetched \subseteq Releases /\ fetched \subseteq allowed
  BY <1>2, <1>3
<1>5. good = {r \in fetched : \A s \in fetched : ~Before(s, r)}
  BY <1>4 DEF First
<1>6. answer = IF offers = {} THEN Current ELSE CHOOSE r \in offers : TRUE
  BY Zenon DEF Answer, Validated
<1> HIDE DEF listed, allowed, answer, version, good
<1>7. CASE offers = {}
  <2>1. answer = Current
    BY <1>6, <1>7
  <2>2. ASSUME NEW r \in fetched, Ahead(r, version) PROVE FALSE
    <3>1. PICK b \in fetched : \A s \in fetched : ~Before(s, b)
      BY <1>4, BestExists
    <3>2. b \in good /\ ~Offered(b, version, channel) /\ ~Before(r, b)
      BY <1>5, <1>7, <3>1
    <3>3. /\ Version[b] \in [base : Nat, dev : BOOLEAN, date : Nat]
          /\ Version[r] \in [base : Nat, dev : BOOLEAN, date : Nat]
          /\ Version[version] \in [base : Nat, dev : BOOLEAN, date : Nat]
      BY <1>1, <1>4, UpdaterAssumption DEF version
    <3>. QED
      BY <2>2, <3>2, <3>3 DEF Ahead, Before, Offered, Greater, Equal, Base, Dev
  <2>. QED
    BY <2>1, <2>2 DEF answer
<1>8. CASE offers # {}
  <2>1. answer \in offers
    BY <1>6, <1>8
  <2>2. answer \in fetched /\ (\A r \in fetched : ~Before(r, answer))
            /\ Offered(answer, version, channel)
    BY <1>5, <2>1
  <2>3. answer # Current /\ (channel = "stable" => ~Dev(answer))
    BY <1>2, <1>4, <2>2, UpdaterAssumption
  <2>4. version \in Releases /\ answer \in Releases
    BY <1>1, <1>4, <2>2 DEF version
  <2>5. /\ Version[answer] \in [base : Nat, dev : BOOLEAN, date : Nat]
        /\ Version[version] \in [base : Nat, dev : BOOLEAN, date : Nat]
        /\ Version[answer].date = Version[version].date => answer = version
    BY <2>4, UpdaterAssumption
  <2>6. \/ Ahead(answer, version)
        \/ Downgrades(answer, version, channel)
        \/ Dev(version) /\ version \notin fetched
    BY <2>2, <2>3, <2>5
    DEF Ahead, Before, Offered, Downgrades, Greater, Equal, Base, Dev
  <2>. QED
    BY <2>2, <2>3, <2>6 DEF answer, fetched
<1>. QED
  BY <1>7, <1>8

(* A flow that is not idle has its release; moving on keeps it.             *)
LEMMA GoesTyped ==
  ASSUME flow \in [Flows -> FlowTypes], NEW f \in Flows, ~At(f, "idle"),
         NEW there \in {"idle", "revalidating", "recording", "handed", "confirming",
             "clearing"},
         Goes(f, there)
  PROVE  /\ Rel(f) \in Releases
         /\ flow' \in [Flows -> FlowTypes]
         /\ flow'[f].at = there /\ flow'[f].rel = Rel(f)
         /\ \A g \in Flows \ {f} : flow'[g] = flow[g]
<1>1. flow[f] \in [at : {"idle", "revalidating", "recording", "handed", "confirming",
          "clearing"},
                   rel : Releases]
  BY DEF At, FlowTypes
<1> DEFINE moved == [flow[f] EXCEPT !.at = there]
<1>2. moved \in FlowTypes /\ moved.at = there /\ moved.rel = Rel(f) /\ Rel(f) \in Releases
  BY <1>1 DEF FlowTypes, Rel
<1>3. flow' = [flow EXCEPT ![f] = moved]
  BY DEF Goes
<1> HIDE DEF moved
<1>. QED
  BY <1>2, <1>3
-----------------------------------------------------------------------------
(* What the transactions do to the cache                                   *)

(* Writing a check replaces nothing but the check that was cached.         *)
LEMMA FoundIs ==
  ASSUME file \in Caches, NEW c \in CheckTypes, GoodCheck(c)
  PROVE  /\ Found(c) \in Caches /\ GoodCache(Found(c))
         /\ Found(c).notified = file.notified /\ Found(c).pending = file.pending
         /\ Found(c).promoted = file.promoted
<1>1. [version |-> c.version, channel |-> c.channel, result |-> c.answer] \in Checks
  BY DEF CheckTypes, Checks
<1>2. /\ c.version \in Releases /\ c.channel \in Channels
      /\ NewsFor(c.version, c.channel, c.answer)
  BY DEF CheckTypes, GoodCheck
<1> HIDE DEF Checks, Pendings
<1>3. /\ Found(c) \in Caches
      /\ Found(c).checked = [version |-> c.version, channel |-> c.channel, result |-> c.answer]
      /\ Found(c).notified = file.notified /\ Found(c).pending = file.pending
      /\ Found(c).promoted = file.promoted
  BY <1>1 DEF Found, Loaded, Caches
<1>. QED
  BY <1>2, <1>3 DEF GoodCache

(* A new pending install, or none, is written without what is stale.        *)
WithPending(c, p) == [ClearStale(c) EXCEPT !.pending = p]

(* Writing a pending install forgets the check and the tag.                *)
LEMMA StaleCleared ==
  ASSUME NEW c \in Caches, NEW p \in Pendings \cup {None}
  PROVE  /\ WithPending(c, p) \in Caches
         /\ WithPending(c, p).checked = None /\ WithPending(c, p).notified = None
         /\ WithPending(c, p).pending = p /\ WithPending(c, p).promoted = c.promoted
<1> HIDE DEF Checks, Pendings
<1>. QED
  BY DEF WithPending, ClearStale, Caches

(* So does promoting one.                                                  *)
LEMMA StalePromoted ==
  ASSUME NEW c \in Caches, NEW q \in Releases, NEW d,
         d = [ClearStale(c) EXCEPT !.pending = None, !.promoted = q]
  PROVE  /\ d \in Caches /\ d.checked = None /\ d.notified = None
         /\ d.pending = None /\ d.promoted = q
<1> HIDE DEF Checks, Pendings
<1>. QED
  BY DEF ClearStale, Caches

(* The clock of a pending install changes nothing else of it.              *)
LEMMA FreshAgain ==
  ASSUME NEW c \in Caches, c.pending # None, NEW b \in BOOLEAN
  PROVE  /\ c.pending.rel \in Releases
         /\ LET p == [c.pending EXCEPT !.fresh = b]
            IN p \in Pendings /\ p.rel = c.pending.rel /\ p # None
<1>1. c.pending \in Pendings
  BY DEF Caches
<1>. QED
  BY <1>1, UpdaterAssumption DEF Pendings

(* A pending install that is confirmed.                                    *)
Renewed(c) == [ClearStale(c) EXCEPT !.pending.fresh = TRUE]

(* Confirming keeps the install pending under its version.                 *)
LEMMA RenewedIs ==
  ASSUME NEW c \in Caches, c.pending # None
  PROVE  /\ Renewed(c) \in Caches /\ Renewed(c).checked = None /\ Renewed(c).notified = None
         /\ Renewed(c).pending # None /\ Renewed(c).pending.rel = c.pending.rel
         /\ Renewed(c).promoted = c.promoted
<1> DEFINE p == [c.pending EXCEPT !.fresh = TRUE]
<1>1. p \in Pendings /\ p.rel = c.pending.rel /\ p # None
  BY FreshAgain
<1>2. Renewed(c) = WithPending(c, p)
  BY DEF Renewed, WithPending, ClearStale, Caches
<1> HIDE DEF p
<1>3. /\ WithPending(c, p) \in Caches
      /\ WithPending(c, p).checked = None /\ WithPending(c, p).notified = None
      /\ WithPending(c, p).pending = p /\ WithPending(c, p).promoted = c.promoted
  BY <1>1, StaleCleared
<1>. QED
  BY <1>1, <1>2, <1>3

(* The end of the grace period forgets nothing.                            *)
LEMMA OverdueIs ==
  ASSUME NEW c \in Caches
  PROVE  /\ Overdue(c) \in Caches /\ Overdue(c).checked = c.checked
         /\ Overdue(c).notified = c.notified /\ Overdue(c).promoted = c.promoted
         /\ Overdue(c).pending = None <=> c.pending = None
         /\ c.pending # None => Overdue(c).pending.rel = c.pending.rel
<1>1. CASE c.pending = None
  BY <1>1 DEF Overdue
<1>2. CASE c.pending # None
  <2> DEFINE p == [c.pending EXCEPT !.fresh = FALSE]
  <2>1. p \in Pendings /\ p.rel = c.pending.rel /\ p # None
    BY <1>2, FreshAgain
  <2>2. Overdue(c) = [c EXCEPT !.pending = p]
    BY <1>2 DEF Overdue
  <2> HIDE DEF p, Checks, Pendings
  <2>. QED
    BY <1>2, <2>1, <2>2 DEF Caches
<1>. QED
  BY <1>1, <1>2

(* Reconciling leaves the cache alone, or settles what was pending.        *)
LEMMA SettledIs ==
  ASSUME NEW c \in Caches, running \in Releases
  PROVE  /\ Settled(c) \in Caches
         /\ \/ Settled(c) = c /\ ~IsPending(c, running)
            \/ /\ Settled(c).checked = None /\ Settled(c).notified = None
               /\ c.pending # None /\ Settled(c).pending = None
               /\ Settled(c).promoted = (IF IsPending(c, running) THEN running ELSE c.promoted)
<1>1. CASE IsPending(c, running)
  <2>1. Settled(c) = [ClearStale(c) EXCEPT !.pending = None, !.promoted = running]
    BY <1>1 DEF Settled
  <2>2. /\ Settled(c) \in Caches /\ Settled(c).checked = None /\ Settled(c).notified = None
        /\ Settled(c).pending = None /\ Settled(c).promoted = running
    BY <2>1, StalePromoted
  <2>. QED
    BY <1>1, <2>2 DEF IsPending
<1>2. CASE ~IsPending(c, running) /\ c.pending # None /\ ~c.pending.fresh
  <2>1. Settled(c) = WithPending(c, None)
    BY <1>2 DEF Settled, WithPending
  <2>. QED
    BY <1>2, <2>1, StaleCleared
<1>3. CASE ~IsPending(c, running) /\ ~(c.pending # None /\ ~c.pending.fresh)
  BY <1>3 DEF Settled
<1>. QED
  BY <1>1, <1>2, <1>3

(* A check that is made is about the version it was made for.              *)
LEMMA CheckIs ==
  ASSUME WorldOK, NEW version \in Releases, NEW broken
  PROVE  /\ CheckOf(version, broken) \in CheckTypes /\ GoodCheck(CheckOf(version, broken))
         /\ CheckOf(version, broken).version = version
<1>1. posted \subseteq Releases /\ channel \in Channels
  BY DEF WorldOK
<1>2. /\ Answer(version, channel, broken) \in Releases \cup {Current}
      /\ NewsFor(version, channel, Answer(version, channel, broken))
  BY <1>1, AnswerIsNews
<1>. QED
  BY <1>1, <1>2 DEF CheckOf, CheckTypes, GoodCheck

(* An answer from memory is as good as one from the network.               *)
LEMMA QuickIs ==
  ASSUME WorldOK, CacheOK, NEW version \in Releases, NEW force \in BOOLEAN
  PROVE  /\ Quick(version, force) \in Releases \cup {Current, Failed, None}
         /\ NewsFor(version, channel, Quick(version, force))
<1>1. mem.checked \in Checks \cup {None} /\ GoodCache(mem)
  BY DEF CacheOK, Caches
<1>2. ASSUME Reusable(version)
      PROVE  /\ mem.checked.result \in Releases \cup {Current}
             /\ NewsFor(version, channel, mem.checked.result)
  BY <1>1, <1>2 DEF Reusable, GoodCache, Checks
<1>3. \A x \in {Current, Failed, None} : NewsFor(version, channel, x)
  BY UpdaterAssumption DEF NewsFor
<1>4. \/ Quick(version, force) \in {Current, Failed, None}
      \/ Reusable(version) /\ Quick(version, force) = mem.checked.result
  BY DEF Quick
<1>. QED
  BY <1>2, <1>3, <1>4
-----------------------------------------------------------------------------
(* Which steps change what                                                 *)

Restarting == \E r \in Releases : DeckyInstalls(r) \/ Restarts(r)
Checking == \E r \in Releases, force \in BOOLEAN : PanelChecks(r, force)
Flowing == \E f \in Flows : Click(f) \/ Revalidate(f) \/ Record(f) \/ HandOver(f)
    \/ Confirm(f) \/ Withdraw(f)
Caching ==
  \/ PanelAnswered \/ LateAnswered \/ PollAnswered \/ PollMarks
  \/ \E f \in Flows : Record(f) \/ Confirm(f) \/ Withdraw(f)
  \/ Restarting \/ Reconcile \/ DayPasses \/ GraceEnds

(* The transactions, a start and the passing of time change the cache.     *)
LEMMA CacheMoves ==
  [Next]_vars => UNCHANGED <<file, mem, behind>> \/ Caching
<1> USE DEF vars, backendVars
<1>1. ASSUME NEW r \in Releases, NEW force \in BOOLEAN, PanelChecks(r, force)
      PROVE  UNCHANGED <<file, mem, behind>>
  BY <1>1 DEF PanelChecks
<1>2. ASSUME PanelTimesOut \/ Hydrate \/ PollStarts \/ PollChecks \/ SwitchChannel
          \/ CooldownEnds
      PROVE  UNCHANGED <<file, mem, behind>>
  BY <1>2 DEF PanelTimesOut, Hydrate, PollStarts, PollChecks, SwitchChannel, CooldownEnds
<1>3. ASSUME NEW f \in Flows, Click(f) \/ Revalidate(f) \/ HandOver(f)
      PROVE  UNCHANGED <<file, mem, behind>>
  BY <1>3 DEF Click, Revalidate, HandOver
<1>4. ASSUME NEW r \in Releases, DeckyGivesUp(r) \/ Publish(r)
      PROVE  UNCHANGED <<file, mem, behind>>
  BY <1>4 DEF DeckyGivesUp, Publish
<1>. QED
  BY <1>1, <1>2, <1>3, <1>4 DEF Next, Caching, Restarting

(* The tick changes by its own steps, and with the process.                *)
LEMMA PollMoves ==
  [Next]_vars =>
    UNCHANGED <<poll, running>>
      \/ PollStarts \/ PollChecks \/ PollAnswered \/ PollMarks \/ Restarting
<1> USE DEF vars, backendVars, panelVars, flowVars
<1>1. ASSUME NEW r \in Releases, NEW force \in BOOLEAN, PanelChecks(r, force)
      PROVE  UNCHANGED <<poll, running>>
  BY <1>1 DEF PanelChecks
<1>2. ASSUME PanelAnswered \/ PanelTimesOut \/ Hydrate \/ LateAnswered \/ Reconcile
             \/ SwitchChannel \/ DayPasses \/ GraceEnds \/ CooldownEnds
      PROVE  UNCHANGED <<poll, running>>
  BY <1>2 DEF PanelAnswered, PanelTimesOut, Hydrate, LateAnswered, Reconcile,
    SwitchChannel, DayPasses, GraceEnds, CooldownEnds
<1>3. ASSUME NEW f \in Flows, Click(f) \/ Revalidate(f) \/ Record(f) \/ HandOver(f)
          \/ Confirm(f) \/ Withdraw(f)
      PROVE  UNCHANGED <<poll, running>>
  BY <1>3 DEF Click, Revalidate, Record, HandOver, Confirm, Withdraw
<1>4. ASSUME NEW r \in Releases, DeckyGivesUp(r) \/ Publish(r)
      PROVE  UNCHANGED <<poll, running>>
  BY <1>4 DEF DeckyGivesUp, Publish
<1>. QED
  BY <1>1, <1>2, <1>3, <1>4 DEF Next, Restarting

(* A process is what it is until it is reconciled or replaced.             *)
LEMMA RunMoves ==
  [Next]_vars => UNCHANGED <<running, started>> \/ Reconcile \/ Restarting
<1> USE DEF vars, backendVars, panelVars, flowVars
<1>1. ASSUME NEW r \in Releases, NEW force \in BOOLEAN, PanelChecks(r, force)
      PROVE  UNCHANGED <<running, started>>
  BY <1>1 DEF PanelChecks
<1>2. ASSUME PanelAnswered \/ PanelTimesOut \/ Hydrate \/ LateAnswered
             \/ SwitchChannel \/ DayPasses \/ GraceEnds \/ CooldownEnds
      PROVE  UNCHANGED <<running, started>>
  BY <1>2 DEF PanelAnswered, PanelTimesOut, Hydrate, LateAnswered,
    SwitchChannel, DayPasses, GraceEnds, CooldownEnds
<1>3. ASSUME PollStarts \/ PollChecks \/ PollAnswered \/ PollMarks
      PROVE  UNCHANGED <<running, started>>
  BY <1>3 DEF PollStarts, PollChecks, PollAnswered, PollMarks
<1>4. ASSUME NEW f \in Flows, Click(f) \/ Revalidate(f) \/ Record(f) \/ HandOver(f)
          \/ Confirm(f) \/ Withdraw(f)
      PROVE  UNCHANGED <<running, started>>
  BY <1>4 DEF Click, Revalidate, Record, HandOver, Confirm, Withdraw
<1>5. ASSUME NEW r \in Releases, DeckyGivesUp(r) \/ Publish(r)
      PROVE  UNCHANGED <<running, started>>
  BY <1>5 DEF DeckyGivesUp, Publish
<1>. QED
  BY <1>1, <1>2, <1>3, <1>4, <1>5 DEF Next, Restarting

(* The flows change by their own steps, and with the process.              *)
LEMMA FlowMoves ==
  [Next]_vars => UNCHANGED flow \/ Flowing \/ Restarting
<1> USE DEF vars, backendVars, panelVars, flowVars
<1>1. ASSUME NEW r \in Releases, NEW force \in BOOLEAN, PanelChecks(r, force)
      PROVE  UNCHANGED flow
  BY <1>1 DEF PanelChecks
<1>2. ASSUME PanelAnswered \/ PanelTimesOut \/ Hydrate \/ LateAnswered \/ Reconcile
             \/ SwitchChannel \/ DayPasses \/ GraceEnds \/ CooldownEnds
      PROVE  UNCHANGED flow
  BY <1>2 DEF PanelAnswered, PanelTimesOut, Hydrate, LateAnswered, Reconcile,
    SwitchChannel, DayPasses, GraceEnds, CooldownEnds
<1>3. ASSUME PollStarts \/ PollChecks \/ PollAnswered \/ PollMarks
      PROVE  UNCHANGED flow
  BY <1>3 DEF PollStarts, PollChecks, PollAnswered, PollMarks
<1>4. ASSUME NEW r \in Releases, DeckyGivesUp(r) \/ Publish(r)
      PROVE  UNCHANGED flow
  BY <1>4 DEF DeckyGivesUp, Publish
<1>. QED
  BY <1>1, <1>2, <1>3, <1>4 DEF Next, Flowing, Restarting

(* The histories change with what is marked, recorded, confirmed,          *)
(* withdrawn, settled or installed.                                        *)
LEMMA PastMoves ==
  [Next]_vars =>
    UNCHANGED pastVars \/ PollMarks \/ Reconcile \/ Restarting
      \/ \E f \in Flows : Record(f) \/ Confirm(f) \/ Withdraw(f)
<1> USE DEF vars, pastVars
<1>1. ASSUME NEW r \in Releases, NEW force \in BOOLEAN, PanelChecks(r, force)
      PROVE  UNCHANGED pastVars
  BY <1>1 DEF PanelChecks
<1>2. ASSUME PanelAnswered \/ PanelTimesOut \/ Hydrate \/ LateAnswered
             \/ SwitchChannel \/ DayPasses \/ GraceEnds \/ CooldownEnds
      PROVE  UNCHANGED pastVars
  BY <1>2 DEF PanelAnswered, PanelTimesOut, Hydrate, LateAnswered,
    SwitchChannel, DayPasses, GraceEnds, CooldownEnds
<1>3. ASSUME PollStarts \/ PollChecks \/ PollAnswered
      PROVE  UNCHANGED pastVars
  BY <1>3 DEF PollStarts, PollChecks, PollAnswered
<1>4. ASSUME NEW f \in Flows, Click(f) \/ Revalidate(f) \/ HandOver(f)
      PROVE  UNCHANGED pastVars
  BY <1>4 DEF Click, Revalidate, HandOver
<1>5. ASSUME NEW r \in Releases, DeckyGivesUp(r) \/ Publish(r)
      PROVE  UNCHANGED pastVars
  BY <1>5 DEF DeckyGivesUp, Publish
<1>. QED
  BY <1>1, <1>2, <1>3, <1>4, <1>5 DEF Next, Restarting

(* What the panel knows changes by its checks, with the flows, and with    *)
(* the process.                                                            *)
LEMMA PanelMoves ==
  [Next]_vars =>
    UNCHANGED panelVars \/ Checking \/ PanelAnswered \/ PanelTimesOut \/ Hydrate \/ LateAnswered
      \/ Restarting
      \/ \E f \in Flows : Record(f) \/ HandOver(f) \/ Confirm(f) \/ Withdraw(f)
<1> USE DEF vars, panelVars
<1>1. ASSUME PollStarts \/ PollChecks \/ PollAnswered \/ PollMarks
      PROVE  UNCHANGED panelVars
  BY <1>1 DEF PollStarts, PollChecks, PollAnswered, PollMarks
<1>2. ASSUME Reconcile \/ SwitchChannel \/ DayPasses \/ GraceEnds \/ CooldownEnds
      PROVE  UNCHANGED panelVars
  BY <1>2 DEF Reconcile, SwitchChannel, DayPasses, GraceEnds, CooldownEnds
<1>3. ASSUME NEW f \in Flows, Click(f) \/ Revalidate(f)
      PROVE  UNCHANGED panelVars
  BY <1>3 DEF Click, Revalidate
<1>4. ASSUME NEW r \in Releases, DeckyGivesUp(r) \/ Publish(r)
      PROVE  UNCHANGED panelVars
  BY <1>4 DEF DeckyGivesUp, Publish
<1>. QED
  BY <1>1, <1>2, <1>3, <1>4 DEF Next, Restarting, Checking
-----------------------------------------------------------------------------
(* Every step keeps the types and what is known of the checks              *)

(* What a start takes over from the process before.                        *)
LEMMA SurvivorsTyped ==
  ASSUME PanelOK, PollOK, NEW c \in Survivors
  PROVE  c \in CheckTypes \cup {None} /\ (c # None => GoodCheck(c))
<1> DEFINE mine == IF poll.at = "checking" THEN {poll.check} ELSE {}
<1>1. \A d \in ({panel, late} \cup mine) \ {None} : d \in CheckTypes /\ GoodCheck(d)
  BY CheckingTyped DEF PanelOK, PollOK
<1>2. ASSUME NEW d \in CheckTypes, GoodCheck(d)
      PROVE  [d EXCEPT !.old = TRUE] \in CheckTypes /\ GoodCheck([d EXCEPT !.old = TRUE])
  BY <1>2 DEF CheckTypes, GoodCheck
<1>3. c = None \/ \E d \in ({panel, late} \cup mine) \ {None} : c = [d EXCEPT !.old = TRUE]
  BY DEF Survivors
<1>. QED
  BY <1>1, <1>2, <1>3

(* Releases, settings, process and Decky keep their types.                 *)
LEMMA WorldStep == Typed /\ [Next]_vars => WorldOK'
<1> SUFFICES ASSUME Typed, [Next]_vars PROVE WorldOK'
  OBVIOUS
<1> USE DEF Typed, WorldOK, vars, backendVars, panelVars, flowVars
<1>1. ASSUME NEW r \in Releases, NEW force \in BOOLEAN, PanelChecks(r, force) PROVE WorldOK'
  BY <1>1 DEF PanelChecks, Fetches, FetchFails
<1>2. ASSUME PanelAnswered \/ PanelTimesOut \/ Hydrate \/ LateAnswered PROVE WorldOK'
  BY <1>2 DEF PanelAnswered, PanelTimesOut, Hydrate, LateAnswered
<1>3. ASSUME PollStarts \/ PollAnswered \/ PollMarks PROVE WorldOK'
  BY <1>3 DEF PollStarts, PollAnswered, PollMarks
<1>4. ASSUME PollChecks PROVE WorldOK'
  BY <1>4 DEF PollChecks, Fetches, FetchFails
<1>5. ASSUME NEW f \in Flows, Click(f) \/ Revalidate(f) PROVE WorldOK'
  BY <1>5 DEF Click, Revalidate
<1>6. ASSUME NEW f \in Flows, Record(f) \/ HandOver(f) PROVE WorldOK'
  <2>1. \A g \in Flows : ~At(g, "idle") => Rel(g) \in Releases
    BY DEF FlowOK, FlowTypes, At, Rel
  <2>2. ~At(f, "idle")
    BY <1>6 DEF Record, HandOver, At
  <2>. QED
    BY <1>6, <2>1, <2>2 DEF Record, HandOver
<1>7. ASSUME NEW f \in Flows, Confirm(f) \/ Withdraw(f) PROVE WorldOK'
  BY <1>7 DEF Confirm, Withdraw
<1>8. ASSUME NEW r \in Releases, DeckyInstalls(r) \/ DeckyGivesUp(r) \/ Restarts(r)
          \/ Publish(r)
      PROVE  WorldOK'
  BY <1>8 DEF DeckyInstalls, DeckyGivesUp, Restarts, Publish, Start
<1>9. ASSUME Reconcile \/ SwitchChannel \/ DayPasses \/ GraceEnds \/ CooldownEnds PROVE WorldOK'
  BY <1>9 DEF Reconcile, SwitchChannel, DayPasses, GraceEnds, CooldownEnds
<1>. QED
  BY <1>1, <1>2, <1>3, <1>4, <1>5, <1>6, <1>7, <1>8, <1>9 DEF Next

(* Every flow that is under way has its release.                           *)
LEMMA FlowStep == Typed /\ [Next]_vars => FlowOK'
<1> SUFFICES ASSUME Typed, [Next]_vars PROVE FlowOK'
  OBVIOUS
<1> USE DEF Typed, FlowOK
<1>1. CASE UNCHANGED flow
  BY <1>1
<1>2. ASSUME NEW f \in Flows, Click(f) PROVE FlowOK'
  <2>1. shown \in Releases
    BY <1>2 DEF Click, PanelOK
  <2>2. [at |-> "revalidating", rel |-> shown] \in FlowTypes
    BY <2>1 DEF FlowTypes
  <2> HIDE DEF FlowTypes
  <2>. QED
    BY <1>2, <2>2 DEF Click
<1>3. ASSUME NEW f \in Flows, Revalidate(f) \/ Record(f) \/ HandOver(f) \/ Confirm(f)
          \/ Withdraw(f)
      PROVE  FlowOK'
  <2>1. ~At(f, "idle")
    BY <1>3 DEF Revalidate, Record, HandOver, Confirm, Withdraw, At
  <2>2. Goes(f, "recording") \/ Goes(f, "clearing") \/ Goes(f, "handed")
            \/ Goes(f, "confirming")
          \/ Goes(f, "idle")
    BY <1>3 DEF Revalidate, Record, HandOver, Confirm, Withdraw
  <2>. QED
    BY <2>1, <2>2, GoesTyped
<1>4. CASE Restarting
  <2>1. flow' = [f \in Flows |-> [at |-> "idle"]]
    BY <1>4 DEF Restarting, DeckyInstalls, Restarts, Start
  <2>2. [at |-> "idle"] \in FlowTypes
    BY DEF FlowTypes
  <2>. QED
    BY <2>1, <2>2
<1>. QED
  BY <1>1, <1>2, <1>3, <1>4, FlowMoves DEF Flowing

(* The histories keep their types.                                         *)
LEMMA PastStep == Typed /\ [Next]_vars => PastOK'
<1> SUFFICES ASSUME Typed, [Next]_vars PROVE PastOK'
  OBVIOUS
<1> USE DEF Typed, PastOK
<1>1. CASE UNCHANGED pastVars
  BY <1>1 DEF pastVars
<1>2. CASE PollMarks
  BY <1>2, ToastedTyped DEF PollMarks, PollOK
<1>3. ASSUME NEW f \in Flows, Record(f) \/ Confirm(f) \/ Withdraw(f) PROVE PastOK'
  <2>1. Rel(f) \in Releases
    BY <1>3 DEF FlowOK, FlowTypes, Rel, Record, Confirm, Withdraw, At
  <2>. QED
    BY <1>3, <2>1 DEF Record, Confirm, Withdraw
<1>4. CASE Restarting
  BY <1>4 DEF Restarting, DeckyInstalls, Restarts, Start
<1>5. CASE Reconcile
  BY <1>5 DEF Reconcile
<1>. QED
  BY <1>1, <1>2, <1>3, <1>4, <1>5, PastMoves

(* Checks written by a transaction, or by a process of before.             *)
LEMMA FoundSaved ==
  ASSUME CacheOK, NEW c \in CheckTypes, GoodCheck(c), Saved(Found(c)) \/ Breaks(Found(c))
  PROVE  CacheOK'
<1>1. Found(c) \in Caches /\ GoodCache(Found(c))
  BY FoundIs DEF CacheOK
<1>. QED
  BY <1>1 DEF CacheOK, Saved, Breaks, NotSaved, MemoryIsFile, GoodCache

(* So do transactions that forget the check, or change nothing.            *)
LEMMA StaleSaved ==
  ASSUME CacheOK, NEW d \in Caches, d.checked = None \/ d = file, Saved(d) \/ Breaks(d)
  PROVE  CacheOK'
BY DEF CacheOK, Saved, Breaks, NotSaved, MemoryIsFile, GoodCache

(* Every transaction writes a well-formed cache to the file and to memory  *)
(* alike, with a check that answers for its version and channel or with    *)
(* none.                                                                   *)
LEMMA CacheStep == Typed /\ [Next]_vars => CacheOK'
<1> SUFFICES ASSUME Typed, [Next]_vars PROVE CacheOK'
  OBVIOUS
<1>0. CacheOK /\ PanelOK /\ PollOK /\ WorldOK /\ FlowOK
  BY DEF Typed
<1>1. CASE UNCHANGED <<file, mem, behind>>
  BY <1>0, <1>1 DEF CacheOK, MemoryIsFile, GoodCache
<1>2. CASE PanelAnswered
  BY <1>0, <1>2, FoundSaved DEF PanelAnswered, PanelOK
<1>3. CASE LateAnswered
  <2>1. late \in CheckTypes /\ GoodCheck(late)
    BY <1>0, <1>3 DEF LateAnswered, PanelOK
  <2>2. Found(late) \in Caches /\ GoodCache(Found(late))
    BY <1>0, <2>1, FoundIs DEF CacheOK
  <2>3. CASE file' = Found(late) /\ behind' = TRUE /\ mem' = mem
    BY <1>0, <2>2, <2>3 DEF CacheOK, MemoryIsFile, GoodCache
  <2>4. CASE UNCHANGED <<file, mem, behind>>
    BY <1>1, <2>4
  <2>5. CASE Saved(Found(late)) \/ Breaks(Found(late))
    BY <1>0, <2>1, <2>5, FoundSaved
  <2>. QED
    BY <1>3, <2>3, <2>4, <2>5 DEF LateAnswered
<1>4. CASE PollAnswered
  BY <1>0, <1>4, CheckingTyped, FoundSaved DEF PollAnswered, PollOK
<1>5. CASE PollMarks
  <2> DEFINE d == [file EXCEPT !.notified = poll.rel]
  <2>1. poll.rel \in Releases
    BY <1>0, <1>5, ToastedTyped DEF PollMarks, PollOK
  <2>2. d \in Caches /\ d.checked = file.checked
    BY <1>0, <2>1 DEF CacheOK, Caches
  <2>3. GoodCache(d)
    BY <1>0, <2>2 DEF CacheOK, GoodCache
  <2>4. Saved(d) \/ Breaks(d)
    BY <1>5 DEF PollMarks, Loaded
  <2> HIDE DEF d
  <2>. QED
    BY <1>0, <2>2, <2>3, <2>4 DEF CacheOK, Saved, Breaks, NotSaved, MemoryIsFile, GoodCache
<1>6. ASSUME NEW f \in Flows, Record(f) PROVE CacheOK'
  <2> DEFINE p == [rel |-> Rel(f), fresh |-> TRUE]
  <2>1. Saved(WithPending(file, p)) \/ Breaks(WithPending(file, p))
    BY <1>6 DEF Record, Loaded, WithPending
  <2>2. p \in Pendings
    BY <1>0, <1>6 DEF FlowOK, FlowTypes, Rel, Record, At, Pendings
  <2> HIDE DEF p
  <2>3. WithPending(file, p) \in Caches /\ WithPending(file, p).checked = None
    BY <1>0, <2>2, StaleCleared DEF CacheOK
  <2>. QED
    BY <1>0, <2>1, <2>3, StaleSaved
<1>7. ASSUME NEW f \in Flows, Confirm(f) PROVE CacheOK'
  <2> DEFINE d == IF IsPending(file, Rel(f)) THEN Renewed(file) ELSE file
  <2>1. d \in Caches /\ (d.checked = None \/ d = file)
    BY <1>0, RenewedIs DEF CacheOK, IsPending
  <2>2. Saved(d) \/ Breaks(d)
    BY <1>7 DEF Confirm, Loaded, Renewed
  <2>. QED
    BY <1>0, <2>1, <2>2, StaleSaved
<1>8. ASSUME NEW f \in Flows, Withdraw(f) PROVE CacheOK'
  <2> DEFINE d == IF IsPending(file, Rel(f)) THEN WithPending(file, None) ELSE file
  <2>1. Saved(d) \/ Breaks(d)
    BY <1>8 DEF Withdraw, Loaded, WithPending
  <2>2. d \in Caches /\ (d.checked = None \/ d = file)
    BY <1>0, StaleCleared DEF CacheOK
  <2>. QED
    BY <1>0, <2>1, <2>2, StaleSaved
<1>9. CASE Restarting
  <2>1. NoCache \in Caches /\ NoCache.checked = None
    BY DEF NoCache, Caches
  <2>2. file' = file /\ mem' \in {file, NoCache} /\ (behind' \/ mem' = file)
            /\ behind' \in BOOLEAN
    BY <1>9 DEF Restarting, DeckyInstalls, Restarts, Start
  <2>. QED
    BY <1>0, <2>1, <2>2 DEF CacheOK, MemoryIsFile, GoodCache
<1>10. CASE Reconcile
  <2>1. Saved(Settled(file)) \/ Breaks(Settled(file))
    BY <1>10 DEF Reconcile, Loaded
  <2>2. Settled(file) \in Caches /\ (Settled(file).checked = None \/ Settled(file) = file)
    BY <1>0, SettledIs DEF CacheOK, WorldOK
  <2>. QED
    BY <1>0, <2>1, <2>2, StaleSaved
<1>11. CASE DayPasses
  <2>1. \A c \in Caches : [c EXCEPT !.checked = None] \in Caches
            /\ [c EXCEPT !.checked = None].checked = None
    BY DEF Caches
  <2>. QED
    BY <1>0, <1>11, <2>1 DEF DayPasses, CacheOK, MemoryIsFile, GoodCache
<1>12. CASE GraceEnds
  <2>1. file' = Overdue(file) /\ mem' = Overdue(mem) /\ behind' = behind
    BY <1>12 DEF GraceEnds
  <2>2. \A c \in Caches : Overdue(c) \in Caches /\ Overdue(c).checked = c.checked
    BY OverdueIs
  <2>. QED
    BY <1>0, <2>1, <2>2 DEF CacheOK, MemoryIsFile, GoodCache
<1>. QED
  BY <1>1, <1>2, <1>3, <1>4, <1>5, <1>6, <1>7, <1>8, <1>9, <1>10, <1>11, <1>12,
    CacheMoves DEF Caching

(* A tick in its stages.                                                   *)
LEMMA PollShapes ==
  /\ [at |-> "idle"] \in PollTypes
  /\ \A v \in Releases, x \in Releases \cup {None} :
       [at |-> "asked", version |-> v, seen |-> x] \in PollTypes
  /\ \A c \in CheckTypes, x \in Releases \cup {None} :
       [at |-> "checking", seen |-> x, check |-> c] \in PollTypes
  /\ \A r \in Releases, ch \in Channels :
       [at |-> "toasted", rel |-> r, channel |-> ch] \in PollTypes
<1> HIDE DEF CheckTypes, Channels
<1>. QED
  BY DEF PollTypes

(* An answer is toasted if it is news.                                     *)
LEMMA AnsweredIs ==
  ASSUME NEW answer, NEW ch \in Channels, NEW version \in Releases, running = version,
         running' = running, NewsFor(version, ch, answer), Answered(answer, ch)
  PROVE  PollOK'
<1>1. CASE answer \in Releases \ {poll.seen}
  <2>1. poll' = [at |-> "toasted", rel |-> answer, channel |-> ch]
    BY <1>1 DEF Answered
  <2>. QED
    BY <1>1, <2>1, PollShapes DEF PollOK, NewsFor
<1>2. CASE answer \notin Releases \ {poll.seen}
  <2>1. poll' = [at |-> "idle"]
    BY <1>2 DEF Answered
  <2>. QED
    BY <2>1, PollShapes DEF PollOK
<1>. QED
  BY <1>1, <1>2

(* A tick asks about the version that runs and toasts what that one may be *)
(* updated to.                                                             *)
LEMMA PollStep == Typed /\ [Next]_vars => PollOK'
<1> SUFFICES ASSUME Typed, [Next]_vars PROVE PollOK'
  OBVIOUS
<1>0. CacheOK /\ PollOK /\ WorldOK
  BY DEF Typed
<1>1. CASE UNCHANGED <<poll, running>>
  BY <1>0, <1>1 DEF PollOK, GoodCheck, NewsFor
<1>2. CASE PollStarts
  <2>1. mem.pending = None /\ poll' = [at |-> "asked", version |-> running,
            seen |-> mem.notified]
        /\ running' = running
    BY <1>2 DEF PollStarts, Effective
  <2>2. mem.notified \in Releases \cup {None} /\ running \in Releases
    BY <1>0 DEF CacheOK, WorldOK, Caches
  <2>. QED
    BY <2>1, <2>2, PollShapes DEF PollOK
<1>3. CASE PollChecks
  <2>1. poll.version = running /\ running \in Releases /\ poll.seen \in Releases \cup {None}
        /\ running' = running /\ channel \in Channels
    BY <1>0, <1>3, AskedTyped DEF PollChecks, PollOK, WorldOK
  <2>2. ASSUME Answered(Quick(running, FALSE), channel) PROVE PollOK'
    BY <1>0, <2>1, <2>2, QuickIs, AnsweredIs
  <2>3. ASSUME NEW broken, poll' = [at |-> "checking", seen |-> poll.seen,
            check |-> CheckOf(running, broken)]
        PROVE  PollOK'
    <3> DEFINE c == CheckOf(running, broken)
    <3>1. c \in CheckTypes /\ GoodCheck(c) /\ c.version = running
      BY <1>0, <2>1, CheckIs
    <3>2. poll' \in PollTypes /\ poll'.at = "checking" /\ poll'.check = c
      BY <2>1, <2>3, <3>1, PollShapes
    <3> HIDE DEF c
    <3>. QED
      BY <2>1, <3>1, <3>2 DEF PollOK, GoodCheck, NewsFor
  <2>4. ASSUME Answered(Failed, channel) PROVE PollOK'
    <3>1. NewsFor(running, channel, Failed)
      BY UpdaterAssumption DEF NewsFor
    <3>. QED
      BY <2>1, <2>4, <3>1, AnsweredIs
  <2>. QED
    BY <1>3, <2>1, <2>2, <2>3, <2>4 DEF PollChecks
<1>4. CASE PollAnswered
  <2>1. poll.check.version = running /\ running \in Releases /\ poll.check \in CheckTypes
        /\ GoodCheck(poll.check) /\ running' = running /\ channel \in Channels
    BY <1>0, <1>4, CheckingTyped DEF PollAnswered, PollOK, WorldOK
  <2>2. poll.check.channel \in Channels
        /\ NewsFor(running, poll.check.channel, poll.check.answer)
    BY <2>1 DEF CheckTypes, GoodCheck
  <2>3. NewsFor(running, channel, Failed)
    BY UpdaterAssumption DEF NewsFor
  <2>4. Answered(poll.check.answer, poll.check.channel) \/ Answered(Failed, channel)
    BY <1>4 DEF PollAnswered
  <2>. QED
    BY <2>1, <2>2, <2>3, <2>4, AnsweredIs
<1>5. CASE PollMarks \/ Restarting
  <2>1. poll' = [at |-> "idle"]
    BY <1>5 DEF PollMarks, Restarting, DeckyInstalls, Restarts, Start
  <2>. QED
    BY <2>1, PollShapes DEF PollOK
<1>. QED
  BY <1>1, <1>2, <1>3, <1>4, <1>5, PollMoves
-----------------------------------------------------------------------------
(* The panel                                                               *)

(* The panel's check, and the late one, answer for their version and       *)
(* channel.                                                                *)
LEMMA PanelStep == Typed /\ [Next]_vars => PanelOK'
<1> SUFFICES ASSUME Typed, [Next]_vars PROVE PanelOK'
  OBVIOUS
<1>0. CacheOK /\ PanelOK /\ PollOK /\ WorldOK /\ FlowOK
  BY DEF Typed
<1>1. CASE UNCHANGED panelVars
  BY <1>0, <1>1 DEF panelVars, PanelOK, GoodCheck, NewsFor
<1>2. ASSUME NEW r \in Releases, NEW force \in BOOLEAN, PanelChecks(r, force) PROVE PanelOK'
  <2>1. CASE UNCHANGED panel
    BY <1>0, <1>2, <2>1, QuickIs, UpdaterAssumption
    DEF PanelChecks, PanelShows, PanelOK, GoodCheck, NewsFor
  <2>2. ASSUME NEW broken, panel' = CheckOf(r, broken), UNCHANGED shown PROVE PanelOK'
    <3>1. panel' \in CheckTypes /\ GoodCheck(panel')
      BY <1>0, <2>2, CheckIs
    <3>. QED
      BY <1>0, <1>2, <2>2, <3>1 DEF PanelChecks, PanelOK, GoodCheck, NewsFor
  <2>. QED
    BY <1>2, <2>1, <2>2 DEF PanelChecks
<1>3. CASE PanelAnswered
  <2>1. panel.answer \in Releases \cup {Current}
    BY <1>0, <1>3 DEF PanelAnswered, PanelOK, CheckTypes
  <2>. QED
    BY <1>0, <1>3, <2>1 DEF PanelAnswered, PanelShows, PanelOK, GoodCheck, NewsFor
<1>4. CASE PanelTimesOut
  BY <1>0, <1>4 DEF PanelTimesOut, DropPanelCheck, PanelOK, GoodCheck, NewsFor
<1>5. CASE Hydrate
  <2>1. mem.pending.rel \in Releases
    BY <1>0, <1>5 DEF Hydrate, CacheOK, Caches, Pendings
  <2>. QED
    BY <1>0, <1>5, <2>1 DEF Hydrate, DropPanelCheck, PanelOK, GoodCheck, NewsFor
<1>6. CASE LateAnswered
  BY <1>0, <1>6 DEF LateAnswered, PanelOK, GoodCheck, NewsFor
<1>7. CASE Restarting
  <2>1. /\ late' \in Survivors /\ panel' = None /\ shown' = None /\ override' = None
        /\ current' \in Releases
    BY <1>7 DEF Restarting, DeckyInstalls, Restarts, Start
  <2>. QED
    BY <1>0, <2>1, SurvivorsTyped DEF PanelOK, GoodCheck, NewsFor
<1>8. ASSUME NEW f \in Flows, Record(f) \/ HandOver(f) \/ Confirm(f) \/ Withdraw(f)
      PROVE  PanelOK'
  <2>1. Rel(f) \in Releases
    BY <1>0, <1>8 DEF FlowOK, FlowTypes, Rel, Record, HandOver, Confirm, Withdraw, At
  <2>. QED
    BY <1>0, <1>8, <2>1
    DEF Record, HandOver, Confirm, Withdraw, InstallStarted, DropPanelCheck, PanelOK,
      GoodCheck, NewsFor
<1>. QED
  BY <1>1, <1>2, <1>3, <1>4, <1>5, <1>6, <1>7, <1>8, PanelMoves DEF Checking
-----------------------------------------------------------------------------
(* The tag marked and the install pending                                  *)

(* Most steps leave what is marked, pending and promoted in the file alone, *)
(* and memory as it is or as the file.                                     *)
Steady ==
  /\ file'.notified = file.notified /\ file'.pending = file.pending
         /\ file'.promoted = file.promoted
  /\ \/ mem'.notified = mem.notified /\ mem'.pending = mem.pending
     \/ mem'.notified = file.notified /\ mem'.pending = file.pending

(* Writing a check is steady, also if another process does it.             *)
LEMMA FoundSteady ==
  ASSUME CacheOK, NEW c \in CheckTypes, GoodCheck(c),
         \/ Saved(Found(c))
         \/ Breaks(Found(c))
         \/ file' = Found(c) /\ mem' = mem
  PROVE  Steady
<1>1. /\ Found(c).notified = file.notified /\ Found(c).pending = file.pending
      /\ Found(c).promoted = file.promoted
  BY FoundIs DEF CacheOK
<1>. QED
  BY <1>1 DEF Steady, Saved, Breaks, NotSaved

(* The steps that are not steady.                                          *)
LEMMA SteadySteps ==
  Typed /\ [Next]_vars =>
    Steady \/ PollMarks \/ Restarting \/ Reconcile \/ GraceEnds
      \/ \E f \in Flows : Record(f) \/ Confirm(f) \/ Withdraw(f)
<1> SUFFICES ASSUME Typed, [Next]_vars
             PROVE  Steady \/ PollMarks \/ Restarting \/ Reconcile \/ GraceEnds
                      \/ \E f \in Flows : Record(f) \/ Confirm(f) \/ Withdraw(f)
  OBVIOUS
<1>0. CacheOK /\ PanelOK /\ PollOK
  BY DEF Typed
<1>1. CASE UNCHANGED <<file, mem, behind>>
  BY <1>1 DEF Steady
<1>2. CASE PanelAnswered
  BY <1>0, <1>2, FoundSteady DEF PanelAnswered, PanelOK
<1>3. CASE LateAnswered
  <2>1. late \in CheckTypes /\ GoodCheck(late)
    BY <1>0, <1>3 DEF LateAnswered, PanelOK
  <2>2. \/ Saved(Found(late)) \/ Breaks(Found(late))
        \/ file' = Found(late) /\ mem' = mem
        \/ UNCHANGED <<file, mem, behind>>
    BY <1>3 DEF LateAnswered
  <2>. QED
    BY <1>0, <1>1, <2>1, <2>2, FoundSteady
<1>4. CASE PollAnswered
  BY <1>0, <1>4, CheckingTyped, FoundSteady DEF PollAnswered, PollOK
<1>5. CASE DayPasses
  <2>1. \A c \in Caches : LET d == [c EXCEPT !.checked = None]
                          IN d.notified = c.notified /\ d.pending = c.pending
                              /\ d.promoted = c.promoted
    BY DEF Caches
  <2>. QED
    BY <1>0, <1>5, <2>1 DEF DayPasses, Steady, CacheOK
<1>. QED
  BY <1>1, <1>2, <1>3, <1>4, <1>5, CacheMoves DEF Caching

(* What the other transactions write.                                      *)
LEMMA MarkWrites ==
  ASSUME Typed, PollMarks
  PROVE  /\ poll.rel \in Releases
         /\ file'.pending = file.pending /\ file'.promoted = file.promoted
         /\ \/ marked' = poll.rel /\ file'.notified = poll.rel /\ mem' = file'
            \/ UNCHANGED <<file, mem, marked>>
<1>1. poll.rel \in Releases
  BY ToastedTyped DEF Typed, PollMarks, PollOK
<1> DEFINE d == [file EXCEPT !.notified = poll.rel]
<1>2. d.notified = poll.rel /\ d.pending = file.pending /\ d.promoted = file.promoted
  BY DEF Typed, CacheOK, Caches
<1>3. \/ Saved(d) /\ marked' = poll.rel
      \/ Breaks(d) /\ UNCHANGED marked
  BY DEF PollMarks, Loaded
<1> HIDE DEF d
<1>. QED
  BY <1>1, <1>2, <1>3 DEF Saved, Breaks, NotSaved

(* Record: the install is pending in the file and in memory, or nothing is *)
(* written.                                                                *)
LEMMA RecordWrites ==
  ASSUME Typed, NEW f \in Flows, Record(f)
  PROVE  /\ Rel(f) \in Releases /\ file'.promoted = file.promoted
         /\ \/ /\ asked' = Rel(f) /\ marked' = None
                      /\ due' = (IF started = "yes" THEN due ELSE None)
               /\ IsPending(file', Rel(f)) /\ mem' = file'
            \/ UNCHANGED <<file, mem, asked, due, marked>>
<1> DEFINE p == [rel |-> Rel(f), fresh |-> TRUE]
<1>1. Rel(f) \in Releases
  BY DEF Typed, FlowOK, FlowTypes, Rel, Record, At
<1>2. p \in Pendings /\ p.rel = Rel(f)
  BY <1>1 DEF Pendings
<1>5. None \notin Pendings
  BY UpdaterAssumption DEF Pendings
<1>3. \/ /\ Saved(WithPending(file, p))
         /\ asked' = Rel(f) /\ marked' = None /\ due' = (IF started = "yes" THEN due ELSE None)
      \/ Breaks(WithPending(file, p)) /\ UNCHANGED <<asked, due, marked>>
  BY DEF Record, Loaded, WithPending
<1> HIDE DEF p
<1>4. WithPending(file, p).pending = p /\ WithPending(file, p).promoted = file.promoted
  BY <1>2, StaleCleared DEF Typed, CacheOK
<1>. QED
  BY <1>1, <1>2, <1>3, <1>4, <1>5 DEF Saved, Breaks, NotSaved, IsPending

(* Confirm: the install is pending as before, or nothing is written.       *)
LEMMA ConfirmWrites ==
  ASSUME Typed, NEW f \in Flows, Confirm(f)
  PROVE  /\ UNCHANGED <<asked, due>> /\ file'.promoted = file.promoted
         /\ \/ marked' = None /\ mem' = file' /\ IsPending(file, Rel(f))
                   /\ IsPending(file', Rel(f))
            \/ UNCHANGED <<marked, file>> /\ mem' \in {file, mem}
<1>0. UNCHANGED <<asked, due>>
  BY DEF Confirm
<1>1. IsPending(file, Rel(f)) =>
        IsPending(Renewed(file), Rel(f)) /\ Renewed(file).promoted = file.promoted
  BY RenewedIs DEF Typed, CacheOK, IsPending
<1>2. CASE IsPending(file, Rel(f))
  <2>1. \/ Saved(Renewed(file)) /\ marked' = None
        \/ Breaks(Renewed(file)) /\ UNCHANGED marked
    BY <1>2 DEF Confirm, Loaded, Renewed
  <2>. QED
    BY <1>0, <1>1, <1>2, <2>1 DEF Saved, Breaks, NotSaved
<1>3. CASE ~IsPending(file, Rel(f))
  <2>1. (Saved(file) \/ Breaks(file)) /\ UNCHANGED marked
    BY <1>3 DEF Confirm, Loaded
  <2>. QED
    BY <1>0, <1>3, <2>1 DEF Saved, Breaks, NotSaved
<1>. QED
  BY <1>2, <1>3

(* Withdraw: what is pending under that version is dropped, or nothing is. *)
LEMMA WithdrawWrites ==
  ASSUME Typed, NEW f \in Flows, Withdraw(f)
  PROVE  /\ due' = due /\ file'.promoted = file.promoted
         /\ \/ /\ marked' = None /\ mem' = file' /\ IsPending(file, Rel(f))
                      /\ file'.pending = None
               /\ asked' = (IF asked = Rel(f) THEN None ELSE asked)
            \/ UNCHANGED <<marked, file>> /\ mem' \in {file, mem} /\ asked' \in {asked, None}
<1>0. due' = due
  BY DEF Withdraw
<1>1. /\ WithPending(file, None).pending = None
      /\ WithPending(file, None).promoted = file.promoted
  BY StaleCleared DEF Typed, CacheOK
<1>2. CASE IsPending(file, Rel(f))
  <2>1. \/ Saved(WithPending(file, None)) /\ marked' = None
               /\ asked' = (IF asked = Rel(f) THEN None ELSE asked)
        \/ Breaks(WithPending(file, None)) /\ UNCHANGED <<asked, marked>>
    BY <1>2 DEF Withdraw, Loaded, WithPending
  <2>. QED
    BY <1>0, <1>1, <1>2, <2>1 DEF Saved, Breaks, NotSaved
<1>3. CASE ~IsPending(file, Rel(f))
  <2>1. (Saved(file) \/ Breaks(file)) /\ UNCHANGED marked /\ asked' \in {asked, None}
    BY <1>3 DEF Withdraw, Loaded
  <2>. QED
    BY <1>0, <1>3, <2>1 DEF Saved, Breaks, NotSaved
<1>. QED
  BY <1>2, <1>3

(* A start reads the file or goes on without.                              *)
LEMMA StartWrites ==
  ASSUME Typed, Restarting
  PROVE  /\ UNCHANGED <<file, asked>> /\ poll' = [at |-> "idle"]
         /\ \/ mem' = file /\ UNCHANGED marked
            \/ mem' = NoCache /\ marked' = None
BY DEF Restarting, DeckyInstalls, Restarts, Start

(* Reconcile: nothing was to settle, or the pending install is dropped and *)
(* promoted if it runs, or nothing could be written.                       *)
LEMMA ReconcileWrites ==
  ASSUME Typed, Reconcile
  PROVE  /\ running' = running /\ due' = due
         /\ \/ /\ mem' = file /\ started' = "yes" /\ ~IsPending(file, running)
               /\ UNCHANGED <<file, marked>> /\ asked' \in {asked, None}
            \/ /\ mem' = file' /\ started' = "yes" /\ file'.pending = None
                      /\ asked' = None /\ marked' = None
               /\ file'.promoted = (IF IsPending(file, running) THEN running ELSE file.promoted)
            \/ UNCHANGED <<file, mem, marked, asked>> /\ started' = "failed"
<1>0. running' = running /\ due' = due
  BY DEF Reconcile
<1>1. CASE Breaks(Settled(file)) /\ started' = "failed" /\ UNCHANGED <<asked, marked>>
  BY <1>0, <1>1 DEF Breaks, NotSaved
<1>2. CASE /\ Saved(Settled(file)) /\ started' = "yes"
           /\ asked' = (IF Settled(file).pending = None THEN None ELSE asked)
           /\ marked' = (IF Settled(file) = file THEN marked ELSE None)
  <2>1. \/ Settled(file) = file /\ ~IsPending(file, running)
        \/ /\ file.pending # None /\ Settled(file).pending = None
           /\ Settled(file).promoted =
                (IF IsPending(file, running) THEN running ELSE file.promoted)
    BY SettledIs DEF Typed, CacheOK, WorldOK
  <2> HIDE DEF Settled
  <2>. QED
    BY <1>0, <1>2, <2>1 DEF Saved
<1>. QED
  BY <1>1, <1>2 DEF Reconcile, Loaded

(* The tag that was marked last stays in the file, in memory and in the    *)
(* tick, until it is forgotten in all of them.                             *)
LEMMA MarkingStep == Typed /\ Marking /\ [Next]_vars => Marking'
<1> SUFFICES ASSUME Typed, Marking, [Next]_vars PROVE Marking'
  OBVIOUS
<1>0. /\ CacheOK /\ PollOK
      /\ marked \in Releases \cup {None} /\ None \notin Releases /\ Failed \notin Releases
  BY UpdaterAssumption DEF Typed, PastOK
<1>1. ASSUME UNCHANGED poll, marked' \in {marked, None},
             marked' # None => file'.notified = marked /\ mem'.notified = marked
      PROVE  Marking'
  <2>1. poll.at = "toasted" => poll.rel # None
    BY <1>0, ToastedTyped DEF PollOK
  <2>. QED
    BY <1>1, <2>1 DEF Marking
<1>2. CASE PollStarts
  BY <1>2 DEF PollStarts, Marking, pastVars, backendVars
<1>3. ASSUME NEW answer, NEW ch, Answered(answer, ch), UNCHANGED marked, Steady,
          poll.at \in {"asked", "checking"}
      PROVE  Marking'
  <2>1. marked # None => file'.notified = marked /\ mem'.notified = marked /\ poll.seen = marked
    BY <1>3 DEF Marking, Steady
  <2>2. poll'.at = "idle" \/ (poll'.at = "toasted" /\ poll'.rel \in Releases \ {poll.seen})
    BY <1>3 DEF Answered
  <2>. QED
    BY <1>0, <1>3, <2>1, <2>2 DEF Marking
<1>4. CASE PollChecks
  <2>1. UNCHANGED <<file, mem, marked>> /\ Steady /\ poll.at = "asked"
    BY <1>4 DEF PollChecks, pastVars, Steady
  <2>2. ASSUME NEW c, poll' = [at |-> "checking", seen |-> poll.seen, check |-> c]
        PROVE  Marking'
    BY <2>1, <2>2 DEF Marking
  <2>. QED
    BY <1>3, <1>4, <2>1, <2>2 DEF PollChecks
<1>5. CASE PollAnswered
  <2>1. poll.check \in CheckTypes /\ GoodCheck(poll.check) /\ UNCHANGED marked
            /\ poll.at = "checking"
    BY <1>0, <1>5, CheckingTyped DEF PollAnswered, PollOK, pastVars
  <2>2. Steady
    BY <1>0, <1>5, <2>1, FoundSteady DEF PollAnswered
  <2>. QED
    BY <1>3, <1>5, <2>1, <2>2 DEF PollAnswered
<1>6. CASE PollMarks
  <2>1. poll'.at = "idle"
    BY <1>6 DEF PollMarks
  <2>. QED
    BY <1>6, <2>1, MarkWrites DEF Marking
<1>7. CASE Restarting
  BY <1>7, StartWrites DEF Marking
<1>8. ASSUME NEW f \in Flows, Record(f) \/ Confirm(f) \/ Withdraw(f) PROVE Marking'
  <2>1. UNCHANGED poll
    BY <1>8 DEF Record, Confirm, Withdraw
  <2>2. \/ marked' = None
        \/ UNCHANGED <<marked, file>> /\ mem' \in {file, mem}
    BY <1>8, RecordWrites, ConfirmWrites, WithdrawWrites
  <2>. QED
    BY <1>1, <2>1, <2>2 DEF Marking
<1>9. CASE Reconcile
  <2>1. UNCHANGED poll
    BY <1>9 DEF Reconcile
  <2>. QED
    BY <1>1, <1>9, <2>1, ReconcileWrites DEF Marking
<1>10. CASE GraceEnds
  <2>1. UNCHANGED <<poll, marked>> /\ file' = Overdue(file) /\ mem' = Overdue(mem)
    BY <1>10 DEF GraceEnds, pastVars
  <2>2. file'.notified = file.notified /\ mem'.notified = mem.notified
    BY <1>0, <2>1, OverdueIs DEF CacheOK
  <2>. QED
    BY <1>1, <2>1, <2>2 DEF Marking
<1>11. CASE UNCHANGED poll /\ UNCHANGED pastVars /\ Steady
  BY <1>1, <1>11 DEF Marking, Steady, pastVars
<1>. QED
  BY <1>2, <1>4, <1>5, <1>6, <1>7, <1>8, <1>9, <1>10, <1>11, PollMoves, PastMoves, SteadySteps

(* The install that was asked for last stays pending until it is withdrawn *)
(* or settled.                                                             *)
LEMMA PendingStep == Typed /\ Pending /\ [Next]_vars => Pending'
<1> SUFFICES ASSUME Typed, Pending, [Next]_vars PROVE Pending'
  OBVIOUS
<1>0. CacheOK
  BY DEF Typed
<1>1. ASSUME file'.pending = file.pending, asked' \in {asked, None},
             mem'.pending # None => mem'.pending = file.pending
      PROVE  Pending'
  BY <1>1 DEF Pending, IsPending
<1>2. CASE UNCHANGED pastVars /\ Steady
  BY <1>1, <1>2 DEF Pending, Steady, pastVars
<1>3. CASE PollMarks
  BY <1>1, <1>3, MarkWrites DEF Pending, PollMarks
<1>4. CASE Restarting
  <2>1. NoCache.pending = None
    BY DEF NoCache
  <2>. QED
    BY <1>1, <1>4, <2>1, StartWrites
<1>5. ASSUME NEW f \in Flows, Record(f) PROVE Pending'
  BY <1>5, RecordWrites DEF Pending
<1>6. ASSUME NEW f \in Flows, Confirm(f) PROVE Pending'
  BY <1>6, ConfirmWrites DEF Pending, IsPending
<1>7. ASSUME NEW f \in Flows, Withdraw(f) PROVE Pending'
  BY <1>7, WithdrawWrites DEF Pending, IsPending
<1>8. CASE Reconcile
  BY <1>8, ReconcileWrites DEF Pending
<1>9. CASE GraceEnds
  <2>1. UNCHANGED asked /\ file' = Overdue(file) /\ mem' = Overdue(mem)
    BY <1>9 DEF GraceEnds, pastVars
  <2>2. mem.pending # None => mem'.pending = file'.pending
    BY <2>1, <1>0 DEF Pending, Overdue, CacheOK, Caches
  <2>. QED
    BY <1>0, <2>1, <2>2, OverdueIs DEF Pending, CacheOK, IsPending
<1>. QED
  BY <1>2, <1>3, <1>4, <1>5, <1>6, <1>7, <1>8, <1>9, PastMoves, SteadySteps
-----------------------------------------------------------------------------
(* The install that has to be remembered                                   *)

(* The panel goes on taking the version that runs for installed: what it    *)
(* shows is another release, and there is nothing to catch up with.        *)
LEMMA PanelUndisturbed ==
  ASSUME Typed, Pending, [Next]_vars, due # None, IsPending(file, running), Undisturbed,
         started # "yes", due' # None, ~Restarting
  PROVE  /\ current' = running /\ override' = None /\ shown' # running
         /\ panel' # None => panel'.version = running
<1>0. /\ CacheOK /\ PanelOK /\ WorldOK
      /\ None \notin Releases
  BY UpdaterAssumption DEF Typed
<1>1. CASE UNCHANGED panelVars
  BY <1>1 DEF panelVars, Undisturbed
<1>2. ASSUME NEW r \in Releases, NEW force \in BOOLEAN, PanelChecks(r, force)
      PROVE  /\ current' = running /\ override' = None /\ shown' # running
             /\ panel' # None => panel'.version = running
  <2>1. r = running /\ running \in Releases /\ UNCHANGED <<current, override>>
    BY <1>0, <1>2 DEF PanelChecks, Believed, Undisturbed, WorldOK
  <2>2. ASSUME NEW answer, PanelShows(running, answer) PROVE shown' # running
    BY <1>0, <2>1, <2>2 DEF PanelShows, Undisturbed
  <2>3. \A broken : CheckOf(running, broken).version = running
    BY <1>0, <2>1, CheckIs
  <2>. QED
    BY <1>2, <2>1, <2>2, <2>3 DEF PanelChecks, Undisturbed
<1>3. CASE PanelAnswered
  BY <1>0, <1>3 DEF PanelAnswered, PanelShows, Undisturbed, WorldOK
<1>4. CASE PanelTimesOut
  BY <1>4 DEF PanelTimesOut, DropPanelCheck, Undisturbed
<1>5. ~Hydrate
  BY DEF Hydrate, Undisturbed, Pending, IsPending
<1>6. CASE LateAnswered
  BY <1>6 DEF LateAnswered, Undisturbed
<1>7. ASSUME NEW f \in Flows, Record(f) \/ HandOver(f) \/ Confirm(f) \/ Withdraw(f)
      PROVE  /\ UNCHANGED <<panel, shown, current>>
             /\ override' \in {override, None}
  <2>1. ~HandOver(f) /\ ~Confirm(f)
    BY DEF HandOver, Confirm, At, Undisturbed
  <2>2. CASE Record(f)
    BY <2>2 DEF Record
  <2>3. CASE Withdraw(f)
    BY <2>3 DEF Withdraw
  <2>. QED
    BY <1>7, <2>1, <2>2, <2>3
<1>. QED
  BY <1>1, <1>2, <1>3, <1>4, <1>5, <1>6, <1>7, PanelMoves DEF Checking, Undisturbed

(* The flows there are install another release, and none gets past          *)
(* recording it while the start is not reconciled.                         *)
LEMMA FlowsUndisturbed ==
  ASSUME Typed, [Next]_vars, due # None, Undisturbed, started # "yes", due' # None, ~Restarting
  PROVE  \A g \in Flows : flow'[g].at = "idle" \/
           (flow'[g].at \in {"revalidating", "recording", "clearing"} /\ flow'[g].rel # running)
<1>0. FlowOK
  BY DEF Typed
<1>1. CASE UNCHANGED flow
  BY <1>1 DEF Undisturbed, At, Rel
<1>2. ASSUME NEW f \in Flows, Click(f)
      PROVE  \A g \in Flows : flow'[g].at = "idle" \/
               (flow'[g].at \in {"revalidating", "recording", "clearing"}
                   /\ flow'[g].rel # running)
  <2> DEFINE new == [at |-> "revalidating", rel |-> shown]
  <2>1. \A g \in Flows : flow'[g] = IF g = f THEN new ELSE flow[g]
    BY <1>0, <1>2 DEF Click, FlowOK
  <2>2. new.at = "revalidating" /\ new.rel # running
    BY DEF Undisturbed
  <2> HIDE DEF new
  <2>. QED
    BY <2>1, <2>2 DEF Undisturbed, At, Rel
<1>3. ASSUME NEW f \in Flows, Revalidate(f) \/ Record(f) \/ HandOver(f) \/ Confirm(f)
          \/ Withdraw(f)
      PROVE  \A g \in Flows : flow'[g].at = "idle" \/
               (flow'[g].at \in {"revalidating", "recording", "clearing"}
                   /\ flow'[g].rel # running)
  <2>1. Rel(f) # running
    BY <1>3 DEF Undisturbed, Revalidate, Record, HandOver, Confirm, Withdraw, At
  <2>2. ~At(f, "idle")
    BY <1>3 DEF Revalidate, Record, HandOver, Confirm, Withdraw, At
  <2>3. ~HandOver(f) /\ ~Confirm(f)
    BY DEF HandOver, Confirm, At, Undisturbed
  <2>4. Goes(f, "recording") \/ Goes(f, "clearing") \/ Goes(f, "idle")
    <3>1. CASE Revalidate(f)
      BY <3>1 DEF Revalidate
    <3>2. CASE Record(f)
      BY <3>2 DEF Record
    <3>3. CASE Withdraw(f)
      BY <3>3 DEF Withdraw
    <3>. QED
      BY <1>3, <2>3, <3>1, <3>2, <3>3
  <2>5. /\ flow'[f].at \in {"recording", "clearing", "idle"} /\ flow'[f].rel = Rel(f)
        /\ \A g \in Flows \ {f} : flow'[g] = flow[g]
    BY <1>0, <2>2, <2>4, GoesTyped DEF FlowOK
  <2>. QED
    BY <2>1, <2>5 DEF Undisturbed, At, Rel
<1>. QED
  BY <1>1, <1>2, <1>3, FlowMoves DEF Flowing

(* An install that Decky has carried out is promoted, or still pending     *)
(* while nobody can withdraw it.                                           *)
LEMMA InstallingStep == Typed /\ Pending /\ Installing /\ [Next]_vars => Installing'
<1> SUFFICES ASSUME Typed, Pending, Installing, [Next]_vars PROVE Installing'
  OBVIOUS
<1>0. /\ CacheOK /\ None \notin Releases
  BY UpdaterAssumption DEF Typed
<1>1. CASE Restarting
  <2>1. /\ due' \in {running', None}
        /\ due' # None => (due' = due /\ due = running) \/ asked = due'
        /\ started' = "no" /\ file' = file /\ running' \in Releases
        /\ current' = running' /\ override' = None /\ shown' = None /\ panel' = None
        /\ flow' = [f \in Flows |-> [at |-> "idle"]]
    BY <1>1 DEF Restarting, DeckyInstalls, Restarts, Start, Installing
  <2>2. due' # None /\ file.promoted # due' => IsPending(file, due')
    BY <2>1 DEF Pending, Installing
  <2>. QED
    BY <1>0, <2>1, <2>2 DEF Installing, Undisturbed, At, IsPending
<1>2. CASE ~Restarting
  <2>1. due' \in {due, None} /\ running' = running
    BY <1>2, PastMoves, PollMoves, RecordWrites, ConfirmWrites, WithdrawWrites, ReconcileWrites
    DEF pastVars, PollMarks, PollStarts, PollChecks, PollAnswered
  <2>2. SUFFICES ASSUME due' # None, file'.promoted # due'
                 PROVE  started' # "yes" /\ IsPending(file', due') /\ Undisturbed'
    BY <2>1 DEF Installing
  <2>3. due' = due /\ due = running /\ file.promoted # due
    <3>1. file'.promoted = file.promoted \/ file'.promoted = running
      BY <1>0, <1>2, SteadySteps, MarkWrites, RecordWrites, ConfirmWrites, WithdrawWrites,
        ReconcileWrites, OverdueIs
      DEF Steady, GraceEnds, CacheOK
    <3>. QED
      BY <2>1, <2>2, <3>1 DEF Installing
  <2>4. started # "yes" /\ IsPending(file, running) /\ Undisturbed
    BY <2>2, <2>3 DEF Installing
  <2>5. started' # "yes"
    <3>1. CASE Reconcile
      BY <2>2, <2>3, <2>4, <3>1, ReconcileWrites
    <3>. QED
      BY <1>2, <2>4, <3>1, RunMoves
  <2>6. IsPending(file', due')
    <3>1. CASE Steady \/ PollMarks
      BY <2>3, <2>4, <3>1, MarkWrites DEF Steady, IsPending
    <3>2. CASE Reconcile
      BY <2>3, <2>4, <2>5, <3>2, ReconcileWrites
    <3>3. CASE GraceEnds
      BY <1>0, <2>3, <2>4, <3>3, OverdueIs DEF GraceEnds, IsPending, CacheOK
    <3>4. ASSUME NEW f \in Flows, Record(f) PROVE IsPending(file', due')
      BY <2>2, <2>3, <2>4, <3>4, RecordWrites
    <3>5. ASSUME NEW f \in Flows, Confirm(f) PROVE FALSE
      BY <2>4, <3>5 DEF Confirm, At, Undisturbed
    <3>6. ASSUME NEW f \in Flows, Withdraw(f) PROVE IsPending(file', due')
      <4>1. Rel(f) # running
        BY <2>4, <3>6 DEF Withdraw, At, Undisturbed
      <4>. QED
        BY <2>3, <2>4, <3>6, <4>1, WithdrawWrites DEF IsPending
    <3>. QED
      BY <1>2, <3>1, <3>2, <3>3, <3>4, <3>5, <3>6, SteadySteps
  <2>7. Undisturbed'
    BY <1>2, <2>1, <2>2, <2>3, <2>4, PanelUndisturbed, FlowsUndisturbed DEF Undisturbed, At, Rel
  <2>. QED
    BY <2>5, <2>6, <2>7
<1>. QED
  BY <1>1, <1>2
-----------------------------------------------------------------------------
(* The theorems                                                            *)

(* An empty cache, no flow and no check: the invariant holds at the start.  *)
LEMMA InitHolds == Init => IInv
<1> SUFFICES ASSUME Init PROVE IInv
  OBVIOUS
<1>0. None \notin Releases
  BY UpdaterAssumption
<1>1. NoCache \in Caches /\ NoCache.checked = None /\ NoCache.notified = None
          /\ NoCache.pending = None
  BY DEF NoCache, Caches
<1>2. WorldOK
  BY UpdaterAssumption DEF Init, WorldOK
<1>3. CacheOK
  BY <1>1 DEF Init, CacheOK, GoodCache, MemoryIsFile
<1>4. PanelOK /\ PastOK
  BY UpdaterAssumption DEF Init, PanelOK, PastOK
<1>5. PollOK
  BY PollShapes DEF Init, PollOK
<1>6. FlowOK
  <2>1. [at |-> "idle"] \in FlowTypes
    BY DEF FlowTypes
  <2>. QED
    BY <2>1 DEF Init, FlowOK
<1>7. Marking /\ Pending /\ Installing
  BY <1>1 DEF Init, Marking, Pending, Installing
<1>. QED
  BY <1>2, <1>3, <1>4, <1>5, <1>6, <1>7 DEF IInv, Typed

(* The inductive invariant holds throughout.                               *)
THEOREM UpdaterInvariant == Spec => []IInv
<1>1. IInv /\ [Next]_vars => IInv'
  BY WorldStep, CacheStep, PanelStep, PollStep, FlowStep, PastStep, MarkingStep,
    PendingStep, InstallingStep
  DEF IInv, Typed
<1>. QED
  BY InitHolds, <1>1, PTL DEF Spec

(* Settings, caches, checks, ticks and flows stay well formed.              *)
THEOREM TypeCorrect == Spec => []TypeOK
<1>1. IInv => TypeOK
  BY DEF IInv, Typed, WorldOK, CacheOK, PanelOK, PollOK, FlowOK, PastOK, TypeOK
<1>. QED
  BY UpdaterInvariant, <1>1, PTL

(* Every check, install, mark or failed write leaves the cache in memory as *)
(* the file is.                                                            *)
THEOREM MemoryCorrect == Spec => []MemoryIsFile
<1>1. IInv => MemoryIsFile
  BY DEF IInv, Typed, CacheOK
<1>. QED
  BY UpdaterInvariant, <1>1, PTL

(* What a check answers is right whatever releases there are and whichever  *)
(* manifests are broken.                                                   *)
THEOREM AnswersCorrect == Spec => []AnswersAreRight
  BY TypeCorrect, AnswersRight, PTL

(* An install that Decky carried out for us is promoted by the start that   *)
(* is reconciled after it.                                                 *)
THEOREM InstallsRemembered == Spec => []InstallIsRemembered
<1>1. IInv => InstallIsRemembered
  BY DEF IInv, Installing, InstallIsRemembered
<1>. QED
  BY UpdaterInvariant, <1>1, PTL

(* A toast is news: of another version than the one that runs, allowed by   *)
(* the channel, and not the tag that was marked last.                      *)
THEOREM ToastsNews == Spec => []ToastIsNews
<1>1. IInv => ToastIsNews
  BY ToastedTyped DEF IInv, Typed, PollOK, Marking, ToastIsNews, NewsFor
<1>. QED
  BY UpdaterInvariant, <1>1, PTL
=============================================================================
