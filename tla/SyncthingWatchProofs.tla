----------------------- MODULE SyncthingWatchProofs ------------------------
(***************************************************************************)
(* The invariants of SyncthingWatch, for any peers, folder states, signals *)
(* and bounds, queues of events of any length among them.  A completion is *)
(* good for a write when the peer that it tells of has the write.  The     *)
(* inductive invariant has the types, and then                             *)
(*   Starting  nothing is noted or published until the watch has begun;    *)
(*   Known     what the watch knows of the sequence, and what it has noted; *)
(*   Queued    what the completions still to be read are good for;         *)
(*   Believed  what those the watch counts as fresh are good for;          *)
(*   Shown     what the last sample and the monitor make of it.            *)
(* A pass handles a queue of events at once.  That it keeps the invariant  *)
(* is an induction over the queue: of the events up to which it would not, *)
(* there would be a first one.                                             *)
(***************************************************************************)
EXTENDS SyncthingWatch, WellFoundedInduction, TLAPS

Numbers == 0..MaxWrites + 1
States == FolderStates \cup {"unknown"}

Events ==
  [kind : {"StateChanged"}, to : States]
    \cup [kind : {"FolderSummary"}, to : States, seq : Numbers, need : BOOLEAN]
    \cup [kind : {"LocalIndexUpdated"}, seq : Numbers]
    \cup [kind : {"FolderCompletion"}, peer : Peers, completion : Completions]
    \cup [kind : {"RemoteDownloadProgress"}, peer : Peers, on : BOOLEAN]
    \cup [kind : {"ConfigSaved"}]
    \cup [kind : Signals, on : BOOLEAN]

Watches ==
  [state : States, seq : Numbers, need : BOOLEAN, noted : 1..MaxWrites + 1 \cup {None},
   hold : BOOLEAN, fresh : SUBSET {"change", "scan", "finished"},
   recent : SUBSET (Signals \cup {"index"}), remote : SUBSET Peers,
   peers : [Peers -> Completions \cup {None}], silent : BOOLEAN]

Samples ==
  [status : {"activity"}, state : States, uploading : BOOLEAN, settled : BOOLEAN,
   busy : BOOLEAN, noted : 1..MaxWrites + 1 \cup {None}, seq : Numbers]
    \cup {Ended("failed"), Ended("stopped")}

MonitorStates ==
  [step : {"watching", "complete", "cancelled"}, ready : BOOLEAN, seen : BOOLEAN,
   settled : 0..Quorum, handoff : Numbers \cup {None}, news : BOOLEAN,
   taken : Numbers \cup {None}]

FolderTyped ==
  /\ disk \in Numbers /\ index \in Numbers /\ index <= disk /\ 1 <= index
  /\ has \in [Peers -> Numbers] /\ \A d \in Peers : has[d] <= index
  /\ up \subseteq Peers /\ folder \in FolderStates /\ incoming \in BOOLEAN
QueueTyped == queue \in Seq(Events) /\ Len(queue) <= MaxQueue
ThreadTyped ==
  /\ phase \in Phases /\ connected \subseteq Peers /\ streak \in 0..Confirmations
  /\ pc \in {"first status", "cursor", "completions", "second status", "look", "status", "read",
             "reload", "done"}
  /\ watch \in Watches /\ stop \in BOOLEAN
ShownTyped == sample \in Samples \cup {None} /\ monitor \in MonitorStates
PastTyped == first \in Numbers /\ first <= index /\ outrun \in BOOLEAN
Typed == FolderTyped /\ QueueTyped /\ ThreadTyped /\ ShownTyped /\ PastTyped

Starting ==
  /\ pc \in {"first status", "cursor", "completions", "second status"} =>
       sample = None /\ ~monitor.news /\ watch.noted = None /\ ~watch.silent
  /\ pc = "first status" => watch = NoWatch
  /\ monitor.news => sample \in Samples

(* What has been noted is indexed, and so is the sequence; a sequence      *)
(* beyond the first was noted, unless a summary or a reload moved it on.   *)
KnownBy(w) ==
  /\ w.seq <= index /\ (w.noted # None => w.noted <= index)
  /\ PostGame /\ ~w.silent /\ w.seq > first => w.noted # None /\ w.seq <= w.noted
Known == KnownBy(watch)

IsCompletion(e) == e.kind = "FolderCompletion" /\ e.completion.need = 0
IsIndexed(e) == e.kind = "LocalIndexUpdated"

(* Events tell of writes that are indexed.  A completion that is queued is *)
(* good for the writes told before it, and for the index unless the news   *)
(* of it come later in the queue.                                          *)
Queued ==
  /\ \A i \in DOMAIN queue : queue[i].kind \in {"LocalIndexUpdated", "FolderSummary"} =>
       queue[i].seq <= index
  /\ \A i \in DOMAIN queue : IsCompletion(queue[i]) =>
       /\ \A j \in 1..i - 1 : IsIndexed(queue[j]) => queue[j].seq <= has[queue[i].peer]
       /\ \/ has[queue[i].peer] = index
          \/ \E j \in DOMAIN queue : i < j /\ IsIndexed(queue[j]) /\ queue[j].seq = index

(* What a watch holds for complete is good for the mutation it noted, and  *)
(* so is what it will hold for complete when it reads on from event n.     *)
GoodFrom(w, n) ==
  w.noted # None =>
    /\ \A d \in Peers : Complete(w.peers[d]) => w.noted <= has[d]
    /\ \A i \in DOMAIN queue : n <= i /\ IsCompletion(queue[i]) =>
         w.noted <= has[queue[i].peer]
Believed == PostGame /\ ~outrun => GoodFrom(watch, 1)

(* What a sample says: settled is not uploading; a sample that uploads     *)
(* nothing was right about the mutation; and its sequence was noted, unless *)
(* it is no later than the first.                                          *)
Told(s, w) ==
  /\ s.settled => ~s.uploading
  /\ PostGame /\ s.status = "activity" =>
       /\ ~outrun /\ s.noted # None /\ ~s.uploading => \E d \in Peers : has[d] >= s.noted
       /\ ~w.silent => s.seq <= first \/ (s.noted # None /\ s.seq <= s.noted)
Shown ==
  /\ sample # None \/ monitor.news => Told(sample, watch)
  /\ CompleteIsConfirmed
  /\ (monitor.step = "complete") = (monitor.taken # None)
  /\ monitor.step = "watching" => monitor.settled # Quorum

IInv == Typed /\ Starting /\ Known /\ Queued /\ Believed /\ Shown
-----------------------------------------------------------------------------
(* Induction over a queue                                                  *)

(* A nonempty set of numbers has a least one.                              *)
LEMMA LeastExists ==
  ASSUME NEW S \in SUBSET Nat, S # {}
  PROVE  \E n \in S : \A m \in S : n <= m
<1>1. PICK n \in S : \A m \in S : <<m, n>> \notin OpToRel(<, Nat)
  BY NatLessThanWellFounded, WFMin, Zenon
<1>2. \A m \in S : ~(m < n)
  BY <1>1, Zenon DEF OpToRel
<1>. QED BY <1>2

(* What breaks somewhere is broken at the start, or breaks at one step.    *)
LEMMA FirstBreak ==
  ASSUME NEW L \in Nat, NEW S \in SUBSET (0..L), S # {}
  PROVE  \E n \in S : n = 0 \/ (n - 1 \in 0..L /\ n - 1 \notin S)
<1>1. PICK n \in S : \A m \in S : n <= m
  BY LeastExists
<1>. QED BY <1>1

(* A nonempty set of the first numbers has a greatest one.                 *)
LEMMA MaxIs ==
  ASSUME NEW L \in Nat, NEW S \in SUBSET (1..L), S # {}
  PROVE  Max(S) \in S /\ \A m \in S : m <= Max(S)
<1>. DEFINE below == {L - m : m \in S}
<1>1. PICK k \in below : \A m \in below : k <= m
  <2>1. below \subseteq Nat /\ below # {}
    <3>1. \A m \in S : L - m \in Nat
      OBVIOUS
    <3>. QED BY <3>1
  <2>. HIDE DEF below
  <2>. QED BY <2>1, LeastExists
<1>2. PICK n \in S : k = L - n
  BY <1>1
<1>3. \A m \in S : n >= m
  <2>. TAKE m \in S
  <2>1. L - m \in below
    OBVIOUS
  <2>2. k <= L - m
    BY <1>1, <2>1
  <2>. QED BY <1>2, <2>2
<1>. QED BY <1>2, <1>3 DEF Max

(* A fold from the left starts with its base and handles one event after   *)
(* the other.                                                              *)
Folds(w, q, after) ==
  /\ after[0] = w
  /\ \A n \in 1..Len(q) : after[n] = Handled(after[n - 1], q[n])
  /\ FoldLeft(Handled, w, q) = after[Len(q)]

LEMMA FoldSteps ==
  ASSUME NEW w, NEW q \in Seq(Events)
  PROVE  \E after : Folds(w, q, after)
<1>. DEFINE L == Len(q)
            Iterates(f, n) ==
              f = [s \in SUBSET (1..n) |->
                     IF s = {} THEN w ELSE Handled(f[s \ {Max(s)}], q[Max(s)])]
            Missing == {n \in 0..L : ~ \E f : Iterates(f, n)}
<1>1. L \in Nat /\ DOMAIN q = 1..L
  OBVIOUS
<1>2. \E f : Iterates(f, L)
  <2>1. ASSUME Missing # {} PROVE FALSE
    <3>1. PICK n \in Missing : n = 0 \/ (n - 1 \in 0..L /\ n - 1 \notin Missing)
      <4>. HIDE DEF Missing
      <4>1. Missing \in SUBSET (0..L)
        BY DEF Missing
      <4>. QED BY <1>1, <2>1, <4>1, FirstBreak
    <3>2. CASE n = 0
      <4>. DEFINE g == [s \in SUBSET (1..0) |-> w]
      <4>1. \A s \in SUBSET (1..0) : s = {}
        OBVIOUS
      <4>2. Iterates(g, 0)
        BY <4>1
      <4>. QED BY <3>2, <4>2
    <3>3. CASE n # 0
      <4>0. n - 1 \in 0..L /\ n \in 1..L
        BY <3>1, <3>3
      <4>n. n \in Nat /\ n - 1 \in Nat
        BY <1>1, <4>0
      <4>1. PICK f : Iterates(f, n - 1)
        BY <3>1, <3>3
      <4>. DEFINE g == [s \in SUBSET (1..n) |->
                          IF s = {} THEN w ELSE Handled(f[s \ {Max(s)}], q[Max(s)])]
      <4>2. \A s \in SUBSET (1..(n - 1)) : s \in SUBSET (1..n) /\ g[s] = f[s]
        <5>. TAKE s \in SUBSET (1..(n - 1))
        <5>1. s \in SUBSET (1..n)
          BY <4>0
        <5>2. f[s] = IF s = {} THEN w ELSE Handled(f[s \ {Max(s)}], q[Max(s)])
          BY <4>1, Zenon
        <5>. QED BY <5>1, <5>2, Zenon
      <4>3. \A s \in SUBSET (1..n) : s # {} => g[s \ {Max(s)}] = f[s \ {Max(s)}]
        <5>. SUFFICES ASSUME NEW s \in SUBSET (1..n), s # {}
                      PROVE  g[s \ {Max(s)}] = f[s \ {Max(s)}]
          OBVIOUS
        <5>1. Max(s) \in s /\ \A m \in s : m <= Max(s)
          BY <4>n, MaxIs
        <5>2. s \ {Max(s)} \in SUBSET (1..(n - 1))
          <6>. DEFINE x == Max(s)
          <6>1. x \in 1..n /\ s \subseteq 1..n /\ \A m \in s : m <= x
            BY <5>1
          <6>. HIDE DEF x
          <6>2. \A m \in s \ {x} : m \in 1..(n - 1)
            BY <4>n, <6>1
          <6>. QED BY <6>2 DEF x
        <5>. QED BY <4>2, <5>2, Zenon
      <4>4. Iterates(g, n)
        <5>. DEFINE h(x, s) == IF s = {} THEN w ELSE Handled(x[s \ {Max(s)}], q[Max(s)])
        <5>1. \A s \in SUBSET (1..n) : h(f, s) = h(g, s)
          BY <4>3, Zenon
        <5>. HIDE DEF h
        <5>2. [s \in SUBSET (1..n) |-> h(f, s)] = [s \in SUBSET (1..n) |-> h(g, s)]
          BY <5>1, Zenon
        <5>. QED BY <5>2, Zenon DEF h
      <4>. QED BY <4>4
    <3>. QED BY <3>2, <3>3
  <2>2. L \in 0..L
    BY <1>1
  <2>3. L \notin Missing
    <3>. HIDE DEF Missing
    <3>. QED BY <2>1
  <2>. QED BY <2>2, <2>3
<1>3. PICK f : Iterates(f, L)
  BY <1>2
<1>. DEFINE it == CHOOSE x : Iterates(x, L)
<1>4. Iterates(it, L)
  BY <1>2, Zenon
<1>5. FoldLeft(Handled, w, q) = it[1..L]
  BY <1>1, Zenon DEF FoldLeft, MapThenFoldSet
<1>. HIDE DEF it
<1>. DEFINE after == [n \in 0..L |-> it[1..n]]
<1>6. after[0] = w
  <2>1. 1..0 = {} /\ 1..0 \in SUBSET (1..L) /\ 0 \in 0..L
    BY <1>1
  <2>. QED BY <1>4, <2>1, Zenon
<1>7. ASSUME NEW n \in 1..L PROVE after[n] = Handled(after[n - 1], q[n])
  <2>1. 1..n \in SUBSET (1..L) /\ 1..n # {} /\ n - 1 \in 0..L /\ n \in 0..L
    BY <1>1
  <2>2. Max(1..n) \in 1..n /\ \A m \in 1..n : m <= Max(1..n)
    <3>1. n \in Nat
      BY <1>1
    <3>. QED BY <2>1, <3>1, MaxIs
  <2>3. Max(1..n) = n /\ (1..n) \ {n} = 1..(n - 1)
    BY <2>1, <2>2
  <2>4. it[1..n] = Handled(it[(1..n) \ {Max(1..n)}], q[Max(1..n)])
    BY <1>4, <2>1, Zenon
  <2>. QED BY <2>1, <2>3, <2>4, Zenon
<1>8. FoldLeft(Handled, w, q) = after[L]
  <2>1. L \in 0..L
    BY <1>1
  <2>. QED BY <1>5, <2>1, Zenon
<1>. HIDE DEF after
<1>9. Folds(w, q, after)
  BY <1>6, <1>7, <1>8, Zenon DEF Folds
<1>. QED BY <1>9
-----------------------------------------------------------------------------
(* What the operators of the watch do                                      *)

(* Same sequence, same mutation, same peers. *)
Keeps(w, v) ==
  v.seq = w.seq /\ v.noted = w.noted /\ v.silent = w.silent /\ v.peers = w.peers
(* What peers said before is stale, and the mutation is s. *)
Notes(v, s) == v.noted = s /\ \A d \in Peers : ~Complete(v.peers[d])

LEMMA Constants ==
  /\ MaxWrites \in Nat /\ Confirmations \in Nat /\ None \notin Nat /\ None \notin Peers
  /\ MaxWrites + 1 \in Nat
BY WatchAssumption

LEMMA NoteIs ==
  ASSUME NEW w \in Watches, NEW s \in 1..MaxWrites + 1
  PROVE  /\ Note(w, s) \in Watches /\ Note(w, s).seq = w.seq /\ Note(w, s).silent = w.silent
         /\ Notes(Note(w, s), s)
<1>. DEFINE stale == [d \in Peers |-> IF w.peers[d] = None THEN None
                                      ELSE [w.peers[d] EXCEPT !.fresh = FALSE]]
<1>1. w.peers \in [Peers -> Completions \cup {None}]
  BY DEF Watches
<1>2. stale \in [Peers -> Completions \cup {None}] /\ \A d \in Peers : ~Complete(stale[d])
  <2>. SUFFICES ASSUME NEW d \in Peers
                PROVE  stale[d] \in Completions \cup {None} /\ ~Complete(stale[d])
    OBVIOUS
  <2>1. CASE w.peers[d] = None
    BY <2>1 DEF Complete
  <2>2. CASE w.peers[d] # None
    <3>1. w.peers[d] \in Completions
      BY <1>1, <2>2
    <3>. QED BY <2>2, <3>1 DEF Completions, Complete
  <2>. QED BY <2>1, <2>2
<1>3. Note(w, s) = [w EXCEPT !.noted = s, !.hold = TRUE, !.peers = stale]
  BY DEF Note, Watches
<1>. HIDE DEF stale
<1>. QED BY <1>2, <1>3 DEF Watches, Notes

LEMMA ReportedIs ==
  ASSUME NEW w \in Watches, NEW s, s.to \in States, s.seq \in Numbers, s.need \in BOOLEAN
  PROVE  LET v == Reported(w, s) IN
         v \in Watches /\ v.seq = s.seq /\ v.noted = w.noted /\ v.silent = w.silent
           /\ v.peers = w.peers
BY DEF Reported, Watches

LEMMA ReplacedIs ==
  ASSUME NEW w \in Watches, NEW s, s.to \in States, s.seq \in Numbers, s.need \in BOOLEAN
  PROVE  LET v == Replaced(w, s) IN
         v \in Watches /\ v.seq = s.seq /\ v.noted = w.noted /\ v.peers = w.peers
           /\ v.silent = (w.silent \/ s.seq > w.seq)
<1>. DEFINE r == Reported(w, s)
<1>1. r \in Watches /\ r.seq = s.seq /\ r.noted = w.noted /\ r.silent = w.silent
        /\ r.peers = w.peers
  BY ReportedIs
<1>2. Replaced(w, s) = [r EXCEPT !.silent = w.silent \/ s.seq > w.seq]
  BY <1>1 DEF Replaced, Watches
<1>3. (w.silent \/ s.seq > w.seq) \in BOOLEAN
  OBVIOUS
<1>. HIDE DEF r
<1>. QED BY <1>1, <1>2, <1>3 DEF Watches

LEMMA LightIs ==
  ASSUME NEW w \in Watches, NEW fresh \in SUBSET {"change", "scan", "finished"},
         NEW recent \in SUBSET (Signals \cup {"index"})
  PROVE  Light(w, fresh, recent) \in Watches /\ Keeps(w, Light(w, fresh, recent))
BY DEF Light, Watches, Keeps

LEMMA DarkenIs ==
  ASSUME NEW w \in Watches, NEW recent
  PROVE  Darken(w, recent) \in Watches /\ Keeps(w, Darken(w, recent))
BY DEF Darken, Watches, Keeps

LEMMA AgedIs ==
  ASSUME NEW w \in Watches, NEW v \in Aged(w)
  PROVE  v \in Watches /\ Keeps(w, v)
<1>1. Quiet(w) \in Watches /\ Keeps(w, Quiet(w))
  BY DEF Quiet, Watches, Keeps
<1>2. [Quiet(w) EXCEPT !.recent = {}, !.remote = {}] \in Watches
        /\ Keeps(w, [Quiet(w) EXCEPT !.recent = {}, !.remote = {}])
  BY <1>1 DEF Watches, Keeps
<1>. QED BY <1>1, <1>2 DEF Aged, Keeps

(* apply_folder_status notes a sequence beyond the last one after a game.  *)
LEMMA AppliedIs ==
  ASSUME NEW w \in Watches, FolderTyped
  PROVE  LET v == Applied(w, Status) IN
         /\ v \in Watches /\ v.seq = index /\ v.silent = w.silent
         /\ IF PostGame /\ index > w.seq THEN Notes(v, index)
            ELSE v.noted = w.noted /\ v.peers = w.peers
<1>. DEFINE moved == IF w.seq # 0 /\ Status.seq # w.seq
                     THEN [w EXCEPT !.recent = @ \cup {"index"}] ELSE w
            n == IF PostGame /\ Status.seq > w.seq THEN Note(moved, Status.seq) ELSE moved
<1>1. /\ Status.to \in States /\ Status.seq = index /\ Status.need \in BOOLEAN
      /\ index \in Numbers /\ w.seq \in Numbers
  BY DEF Status, FolderTyped, States, Watches
<1>2. moved \in Watches /\ Keeps(w, moved)
  BY DEF Watches, Keeps
<1>. HIDE DEF moved
<1>3. /\ n \in Watches /\ n.silent = w.silent
      /\ IF PostGame /\ index > w.seq THEN Notes(n, index)
         ELSE n.noted = w.noted /\ n.peers = w.peers
  <2>1. CASE PostGame /\ index > w.seq
    <3>1. index \in 1..MaxWrites + 1
      BY <1>1, <2>1, Constants DEF Numbers
    <3>. QED BY <1>1, <1>2, <2>1, <3>1, NoteIs DEF Keeps
  <2>2. CASE ~(PostGame /\ index > w.seq)
    BY <1>1, <1>2, <2>2 DEF Keeps
  <2>. QED BY <2>1, <2>2
<1>. HIDE DEF n
<1>4. Applied(w, Status) = Reported(n, Status)
  BY DEF Applied, n, moved
<1>. QED BY <1>1, <1>3, <1>4, ReportedIs DEF Notes

(* The kinds of events are told apart. *)
LEMMA EventIs ==
  ASSUME NEW e \in Events
  PROVE  \/ e.kind = "StateChanged" /\ e.to \in States
         \/ e.kind = "FolderSummary" /\ e.to \in States /\ e.seq \in Numbers /\ e.need \in BOOLEAN
         \/ e.kind = "LocalIndexUpdated" /\ e.seq \in Numbers
         \/ e.kind = "FolderCompletion" /\ e.peer \in Peers /\ e.completion \in Completions
         \/ e.kind = "RemoteDownloadProgress" /\ e.peer \in Peers /\ e.on \in BOOLEAN
         \/ e.kind = "ConfigSaved"
         \/ e.kind \in Signals /\ e.kind \in {"change", "scan", "download", "item"}
              /\ e.on \in BOOLEAN
BY WatchAssumption DEF Events

(* process_event: what it does to the sequence, the mutation and the peers. *)
LEMMA HandledIs ==
  ASSUME NEW w \in Watches, NEW e \in Events
  PROVE  LET v == Handled(w, e) IN
         /\ v \in Watches
         /\ \/ e.kind \notin {"FolderSummary", "LocalIndexUpdated"} /\ Keeps(w, v)
            \/ /\ e.kind = "FolderSummary" /\ v.seq = e.seq /\ v.noted = w.noted
               /\ v.peers = w.peers /\ v.silent = (w.silent \/ e.seq > w.seq)
            \/ /\ IsIndexed(e) /\ v.seq = e.seq /\ v.silent = w.silent
               /\ IF e.seq > w.seq THEN Notes(v, e.seq)
                  ELSE v.noted = w.noted /\ v.peers = w.peers
            \/ /\ e.kind = "FolderCompletion" /\ v.seq = w.seq /\ v.noted = w.noted
               /\ v.silent = w.silent
               /\ v.peers = [w.peers EXCEPT ![e.peer] = e.completion]
<1>. DEFINE v == Handled(w, e)
<1>1. CASE e.kind = "StateChanged"
  <2>1. v = [w EXCEPT !.state = e.to] /\ e.to \in States
    BY <1>1, EventIs, WatchAssumption DEF Handled
  <2>. HIDE DEF v
  <2>. QED BY <1>1, <2>1 DEF Watches, Keeps, v
<1>2. CASE e.kind = "FolderSummary"
  <2>1. v = Replaced(w, e) /\ e.to \in States /\ e.seq \in Numbers /\ e.need \in BOOLEAN
    BY <1>2, EventIs, WatchAssumption DEF Handled
  <2>. QED BY <1>2, <2>1, ReplacedIs
<1>3. CASE e.kind = "LocalIndexUpdated"
  <2>. DEFINE lit == Light(w, {}, {"index"})
              n == IF e.seq > w.seq THEN Note(lit, e.seq) ELSE lit
  <2>1. v = [n EXCEPT !.seq = e.seq] /\ e.seq \in Numbers /\ w.seq \in Numbers
    BY <1>3, EventIs, WatchAssumption DEF Handled, Watches
  <2>2. lit \in Watches /\ Keeps(w, lit)
    BY LightIs
  <2>. HIDE DEF lit
  <2>3. n \in Watches /\ n.silent = w.silent
        /\ IF e.seq > w.seq THEN Notes(n, e.seq) ELSE n.noted = w.noted /\ n.peers = w.peers
    <3>1. CASE e.seq > w.seq
      <4>1. e.seq \in 1..MaxWrites + 1
        BY <2>1, <3>1, Constants DEF Numbers
      <4>. QED BY <2>2, <3>1, <4>1, NoteIs DEF Keeps
    <3>2. CASE ~(e.seq > w.seq)
      BY <2>2, <3>2 DEF Keeps
    <3>. QED BY <3>1, <3>2
  <2>. HIDE DEF n, v
  <2>4. v \in Watches /\ v.seq = e.seq /\ v.silent = n.silent /\ v.noted = n.noted
        /\ v.peers = n.peers
    BY <2>1, <2>3 DEF Watches
  <2>. QED BY <1>3, <2>3, <2>4 DEF Notes, IsIndexed, v
<1>4. CASE e.kind = "FolderCompletion"
  <2>1. e.peer \in Peers /\ e.completion \in Completions
    BY <1>4, EventIs, WatchAssumption
  <2>2. CASE PostGame
    <3>1. v = [w EXCEPT !.hold = w.hold \/ e.completion.need > 0,
                        !.peers = [w.peers EXCEPT ![e.peer] = e.completion]]
      BY <1>4, <2>2 DEF Handled, Watches
    <3>2. [w.peers EXCEPT ![e.peer] = e.completion] \in [Peers -> Completions \cup {None}]
            /\ (w.hold \/ e.completion.need > 0) \in BOOLEAN
      BY <2>1 DEF Watches
    <3>. HIDE DEF v
    <3>3. v \in Watches /\ v.seq = w.seq /\ v.noted = w.noted /\ v.silent = w.silent
            /\ v.peers = [w.peers EXCEPT ![e.peer] = e.completion]
      BY <3>1, <3>2 DEF Watches
    <3>. QED BY <1>4, <3>3 DEF v
  <2>3. CASE ~PostGame
    <3>1. v = w
      BY <1>4, <2>3 DEF Handled
    <3>. QED BY <1>4, <3>1 DEF Keeps
  <2>. QED BY <2>2, <2>3
<1>5. CASE e.kind = "RemoteDownloadProgress"
  <2>1. v = [w EXCEPT !.remote = IF e.on THEN @ \cup {e.peer} ELSE @ \ {e.peer}]
          /\ e.peer \in Peers
    BY <1>5, EventIs, WatchAssumption DEF Handled
  <2>. HIDE DEF v
  <2>. QED BY <1>5, <2>1 DEF Watches, Keeps, v
<1>6. CASE e.kind = "ConfigSaved"
  <2>1. v = w
    BY <1>6 DEF Handled
  <2>. QED BY <1>6, <2>1 DEF Keeps
<1>7. CASE e.kind \in Signals /\ e.kind \in {"change", "scan", "download", "item"}
  <2>0. e.kind \notin {"FolderSummary", "LocalIndexUpdated"}
    BY <1>7
  <2>1. CASE e.kind = "change"
    <3>1. v = Light(w, {"change"}, {"change"})
      BY <2>1 DEF Handled
    <3>. QED BY <1>7, <2>0, <2>1, <3>1, LightIs
  <2>2. CASE e.kind = "scan"
    <3>1. v = Light(w, {"scan"}, {"scan"})
      BY <2>2 DEF Handled
    <3>. QED BY <1>7, <2>0, <2>2, <3>1, LightIs
  <2>3. CASE e.kind = "download"
    <3>1. v = IF e.on THEN Light(w, {}, {"download", "index"}) ELSE Darken(w, {"download"})
      BY <2>3 DEF Handled
    <3>. QED BY <1>7, <2>0, <2>3, <3>1, LightIs, DarkenIs
  <2>4. CASE e.kind = "item"
    <3>1. v = IF e.on THEN Light(w, {}, {"item"})
              ELSE Light(Darken(w, {"item"}), {"finished"}, {})
      BY <2>4 DEF Handled
    <3>2. Darken(w, {"item"}) \in Watches /\ Keeps(w, Darken(w, {"item"}))
      BY DarkenIs
    <3>3. Light(w, {}, {"item"}) \in Watches /\ Keeps(w, Light(w, {}, {"item"}))
      BY <1>7, <2>4, LightIs
    <3>4. LET l == Light(Darken(w, {"item"}), {"finished"}, {}) IN
          l \in Watches /\ Keeps(Darken(w, {"item"}), l)
      BY <3>2, LightIs
    <3>. QED BY <2>0, <3>1, <3>2, <3>3, <3>4 DEF Keeps
  <2>. QED BY <1>7, <2>1, <2>2, <2>3, <2>4
<1>. QED BY <1>1, <1>2, <1>3, <1>4, <1>5, <1>6, <1>7, EventIs
-----------------------------------------------------------------------------
(* A pass over the queue                                                   *)

(* What holds of the watch after the events before number n.               *)
GoodBefore(w, n) ==
  /\ w \in Watches /\ KnownBy(w) /\ (watch.silent => w.silent)
  /\ PostGame /\ ~outrun => GoodFrom(w, n)

LEMMA HandleKeeps ==
  ASSUME Typed, Queued, NEW n \in 1..Len(queue), NEW w, GoodBefore(w, n)
  PROVE  GoodBefore(Handled(w, queue[n]), n + 1)
<1>. DEFINE e == queue[n]  v == Handled(w, e)
<1>1. e \in Events /\ DOMAIN queue = 1..Len(queue) /\ Len(queue) \in Nat
  BY DEF Typed, QueueTyped
<1>2. w \in Watches /\ w.seq \in Numbers /\ w.silent \in BOOLEAN
        /\ w.peers \in [Peers -> Completions \cup {None}]
  BY DEF GoodBefore, Watches
<1>3. first \in Numbers /\ index \in Numbers /\ has \in [Peers -> Numbers]
  BY DEF Typed, PastTyped, FolderTyped
<1>4. \A i \in DOMAIN queue : n + 1 <= i => n <= i
  BY <1>1
<1>5. e.kind \in {"LocalIndexUpdated", "FolderSummary"} => e.seq <= index
  BY <1>1 DEF Queued
<1>6. CASE e.kind \notin {"FolderSummary", "LocalIndexUpdated"} /\ v \in Watches /\ Keeps(w, v)
  BY <1>4, <1>6 DEF GoodBefore, KnownBy, GoodFrom, Keeps
<1>7. CASE /\ e.kind = "FolderSummary" /\ v.seq = e.seq /\ v.noted = w.noted
           /\ v.peers = w.peers /\ v.silent = (w.silent \/ e.seq > w.seq) /\ v \in Watches
  <2>1. e.seq <= index /\ e.seq \in Numbers
    BY <1>1, <1>5, <1>7, EventIs, WatchAssumption
  <2>2. w.noted # None => w.noted \in Nat
    BY <1>2, Constants DEF Watches
  <2>3. KnownBy(v)
    <3>1. KnownBy(w)
      BY DEF GoodBefore
    <3>2. ASSUME PostGame, ~v.silent, v.seq > first
          PROVE  v.noted # None /\ v.seq <= v.noted
      <4>1. ~w.silent /\ ~(e.seq > w.seq) /\ v.seq = e.seq
        BY <1>7, <3>2
      <4>2. w.seq > first /\ e.seq <= w.seq
        BY <1>2, <1>3, <2>1, <3>2, <4>1 DEF Numbers
      <4>3. w.noted # None /\ w.seq <= w.noted
        BY <3>1, <3>2, <4>1, <4>2 DEF KnownBy
      <4>. HIDE DEF v, e
      <4>4. v.noted = w.noted
        BY <1>7
      <4>5. w.noted \in Nat /\ e.seq \in Nat /\ w.seq \in Nat
        BY <1>2, <2>1, <2>2, <4>3, Constants DEF Numbers
      <4>6. e.seq <= w.noted
        BY <4>2, <4>3, <4>5
      <4>. QED BY <4>1, <4>3, <4>4, <4>6
    <3>3. v.seq <= index /\ (v.noted # None => v.noted <= index)
      BY <1>7, <2>1, <3>1 DEF KnownBy
    <3>. QED BY <3>2, <3>3 DEF KnownBy
  <2>4. PostGame /\ ~outrun => GoodFrom(v, n + 1)
    BY <1>4, <1>7 DEF GoodBefore, GoodFrom
  <2>. QED BY <1>7, <2>3, <2>4 DEF GoodBefore
<1>8. CASE /\ IsIndexed(e) /\ v.seq = e.seq /\ v.silent = w.silent /\ v \in Watches
           /\ IF e.seq > w.seq THEN Notes(v, e.seq) ELSE v.noted = w.noted /\ v.peers = w.peers
  <2>1. e.seq <= index /\ e.seq \in Numbers
    BY <1>1, <1>5, <1>8, EventIs, WatchAssumption DEF IsIndexed
  <2>2. w.noted # None => w.noted \in Nat
    BY <1>2, Constants DEF Watches
  <2>3. CASE e.seq > w.seq
    <3>1. v.noted = e.seq /\ e.seq # None /\ \A d \in Peers : ~Complete(v.peers[d])
      BY <1>8, <2>1, <2>3, Constants DEF Notes, Numbers
    <3>2. KnownBy(v)
      BY <1>8, <2>1, <3>1, Constants DEF KnownBy, Numbers
    <3>3. \A i \in DOMAIN queue : n + 1 <= i /\ IsCompletion(queue[i]) =>
            e.seq <= has[queue[i].peer]
      <4>. SUFFICES ASSUME NEW i \in DOMAIN queue, n + 1 <= i, IsCompletion(queue[i])
                    PROVE  e.seq <= has[queue[i].peer]
        OBVIOUS
      <4>1. n \in 1..(i - 1)
        BY <1>1
      <4>. QED BY <1>8, <4>1 DEF Queued
    <3>4. GoodFrom(v, n + 1)
      BY <3>1, <3>3 DEF GoodFrom
    <3>. QED BY <1>8, <3>2, <3>4 DEF GoodBefore
  <2>4. CASE ~(e.seq > w.seq)
    <3>1. KnownBy(v)
      BY <1>2, <1>3, <1>8, <2>1, <2>2, <2>4, Constants DEF GoodBefore, KnownBy, Numbers
    <3>2. PostGame /\ ~outrun => GoodFrom(v, n + 1)
      BY <1>4, <1>8, <2>4 DEF GoodBefore, GoodFrom
    <3>. QED BY <1>8, <3>1, <3>2 DEF GoodBefore
  <2>. QED BY <2>3, <2>4
<1>9. CASE /\ e.kind = "FolderCompletion" /\ v.seq = w.seq /\ v.noted = w.noted
           /\ v.silent = w.silent /\ v.peers = [w.peers EXCEPT ![e.peer] = e.completion]
           /\ v \in Watches
  <2>1. e.peer \in Peers
    BY <1>1, <1>9, EventIs, WatchAssumption
  <2>2. ASSUME PostGame, ~outrun, w.noted # None, NEW d \in Peers, Complete(v.peers[d])
        PROVE  w.noted <= has[d]
    <3>1. CASE d = e.peer
      <4>1. IsCompletion(e)
        BY <1>2, <1>9, <2>1, <2>2, <3>1 DEF Complete, IsCompletion
      <4>. QED BY <1>1, <2>2, <3>1, <4>1 DEF GoodBefore, GoodFrom
    <3>2. CASE d # e.peer
      <4>1. v.peers[d] = w.peers[d]
        BY <1>2, <1>9, <3>2
      <4>. QED BY <2>2, <4>1 DEF GoodBefore, GoodFrom
    <3>. QED BY <3>1, <3>2
  <2>3. PostGame /\ ~outrun => GoodFrom(v, n + 1)
    BY <1>4, <1>9, <2>2 DEF GoodBefore, GoodFrom
  <2>. QED BY <1>9, <2>3 DEF GoodBefore, KnownBy
<1>10. /\ v \in Watches
       /\ \/ e.kind \notin {"FolderSummary", "LocalIndexUpdated"} /\ Keeps(w, v)
          \/ /\ e.kind = "FolderSummary" /\ v.seq = e.seq /\ v.noted = w.noted
             /\ v.peers = w.peers /\ v.silent = (w.silent \/ e.seq > w.seq)
          \/ /\ IsIndexed(e) /\ v.seq = e.seq /\ v.silent = w.silent
             /\ IF e.seq > w.seq THEN Notes(v, e.seq) ELSE v.noted = w.noted /\ v.peers = w.peers
          \/ /\ e.kind = "FolderCompletion" /\ v.seq = w.seq /\ v.noted = w.noted
             /\ v.silent = w.silent /\ v.peers = [w.peers EXCEPT ![e.peer] = e.completion]
  BY <1>1, <1>2, HandledIs, Zenon
<1>. HIDE DEF v, e
<1>. QED BY <1>6, <1>7, <1>8, <1>9, <1>10, Zenon

(* After a pass the watch has nothing to read, and still believes right.   *)
LEMMA PassKeeps ==
  ASSUME Typed, Known, Queued, Believed
  PROVE  GoodBefore(FoldLeft(Handled, watch, queue), Len(queue) + 1)
<1>. DEFINE L == Len(queue)
<1>1. queue \in Seq(Events) /\ L \in Nat
  BY DEF Typed, QueueTyped
<1>2. PICK after : Folds(watch, queue, after)
  BY <1>1, FoldSteps
<1>. DEFINE broken == {n \in 0..L : ~GoodBefore(after[n], n + 1)}
<1>3. broken = {}
  <2>. SUFFICES ASSUME broken # {} PROVE FALSE
    OBVIOUS
  <2>1. PICK n \in broken : n = 0 \/ (n - 1 \in 0..L /\ n - 1 \notin broken)
    <3>1. broken \in SUBSET (0..L)
      OBVIOUS
    <3>. HIDE DEF broken
    <3>. QED BY <1>1, <3>1, FirstBreak
  <2>2. CASE n = 0
    <3>1. GoodBefore(watch, 1)
      BY DEF Typed, ThreadTyped, Known, Believed, GoodBefore
    <3>. QED BY <1>2, <2>1, <2>2, <3>1 DEF Folds
  <2>3. CASE n # 0
    <3>1. n \in 1..L /\ GoodBefore(after[n - 1], n)
      BY <1>1, <2>1, <2>3
    <3>2. GoodBefore(Handled(after[n - 1], queue[n]), n + 1)
      BY <3>1, HandleKeeps
    <3>. QED BY <1>2, <2>1, <3>1, <3>2 DEF Folds
  <2>. QED BY <2>2, <2>3
<1>4. GoodBefore(after[L], L + 1)
  BY <1>1, <1>3
<1>. QED BY <1>2, <1>4 DEF Folds
-----------------------------------------------------------------------------
(* A status, and a sample                                                  *)

(* A status that does not outrun a completion keeps what is believed: the  *)
(* completions to be read are good for the index, which is what it notes.  *)
LEMMA StatusKeeps ==
  ASSUME Typed, Queued, NEW w \in Watches, KnownBy(w), PostGame /\ ~outrun => GoodFrom(w, 1)
  PROVE  LET v == Applied(w, Status) IN
         /\ v \in Watches /\ KnownBy(v) /\ v.silent = w.silent
         /\ PostGame /\ ~(outrun \/ Outruns(w)) => GoodFrom(v, 1)
<1>. DEFINE v == Applied(w, Status)
<1>1. /\ v \in Watches /\ v.seq = index /\ v.silent = w.silent
      /\ IF PostGame /\ index > w.seq THEN Notes(v, index)
         ELSE v.noted = w.noted /\ v.peers = w.peers
  BY AppliedIs DEF Typed
<1>2. /\ index \in Nat /\ first \in Nat /\ w.seq \in Nat /\ index # None
      /\ w.seq <= index
  BY Constants DEF Typed, FolderTyped, PastTyped, Numbers, Watches, KnownBy
<1>. HIDE DEF v
<1>3. KnownBy(v)
  <2>1. CASE PostGame /\ index > w.seq
    BY <1>1, <1>2, <2>1 DEF KnownBy, Notes
  <2>2. CASE ~(PostGame /\ index > w.seq)
    <3>1. PostGame => w.seq = index
      BY <1>2, <2>2
    <3>. QED BY <1>1, <1>2, <2>2, <3>1 DEF KnownBy
  <2>. QED BY <2>1, <2>2
<1>4. ASSUME PostGame, ~outrun, ~Outruns(w) PROVE GoodFrom(v, 1)
  <2>1. CASE index > w.seq
    <3>1. v.noted = index /\ \A d \in Peers : ~Complete(v.peers[d])
      BY <1>1, <1>4, <2>1 DEF Notes
    <3>2. ASSUME NEW i \in DOMAIN queue, IsCompletion(queue[i])
          PROVE  index <= has[queue[i].peer]
      <4>1. CASE has[queue[i].peer] = index
        BY <1>2, <4>1
      <4>2. ASSUME NEW j \in DOMAIN queue, i < j, IsIndexed(queue[j]), queue[j].seq = index
            PROVE  FALSE
        BY <1>4, <2>1, <3>2, <4>2 DEF Outruns, IsCompletion, IsIndexed
      <4>. QED BY <3>2, <4>1, <4>2 DEF Queued
    <3>. QED BY <3>1, <3>2 DEF GoodFrom
  <2>2. CASE ~(index > w.seq)
    BY <1>1, <1>4, <2>2 DEF GoodFrom
  <2>. QED BY <2>1, <2>2
<1>. QED BY <1>1, <1>3, <1>4 DEF v

(* A sample of what the watch knows tells no more than that.               *)
LEMMA ActivityTells ==
  ASSUME ThreadTyped, FolderTyped, NEW w \in Watches, KnownBy(w), NEW n, NEW o, NEW m,
         PostGame /\ ~o => GoodFrom(w, m)
  PROVE  LET s == Activity(w, n) IN
         /\ s \in Samples /\ s.status = "activity" /\ s.noted = w.noted /\ s.seq = w.seq
         /\ s.settled => ~s.uploading
         /\ PostGame /\ ~o /\ s.noted # None /\ ~s.uploading =>
              \E d \in Peers : has[d] >= s.noted
<1>. DEFINE s == Activity(w, n)
<1>1. /\ s.status = "activity" /\ s.noted = w.noted /\ s.seq = w.seq
      /\ s.uploading = Uploading(w, n) /\ s.settled = Settled(w, n)
  BY DEF Activity
<1>2. s \in Samples
  <2>1. Uploading(w, n) \in BOOLEAN /\ Settled(w, n) \in BOOLEAN
    BY DEF Uploading, Settled
  <2>. QED BY <2>1 DEF Activity, Samples, Watches
<1>3. s.settled => ~s.uploading
  BY <1>1 DEF Settled
<1>4. ASSUME PostGame, ~o, w.noted # None, ~Uploading(w, n)
      PROVE  \E d \in Peers : has[d] >= w.noted
  <2>1. PICK d \in connected : Complete(w.peers[d])
    BY <1>4 DEF Uploading, Pending
  <2>2. d \in Peers
    BY DEF ThreadTyped
  <2>3. w.noted <= has[d]
    BY <1>4, <2>1, <2>2 DEF GoodFrom
  <2>4. w.noted \in Nat /\ has[d] \in Nat
    BY <1>4, <2>2, Constants DEF Watches, FolderTyped, Numbers
  <2>. QED BY <2>2, <2>3, <2>4
<1>. QED BY <1>1, <1>2, <1>3, <1>4
-----------------------------------------------------------------------------
(* What run_watch does at a step                                           *)

Publishes == \E s \in Samples : Publish(s) /\ Told(s, watch)'

(* The thread leaves Syncthing alone, and reads all of the queue or none;   *)
(* what it comes to know is right, and so is the sample that it publishes. *)
Does ==
  /\ UNCHANGED <<syncthingVars, phase, stop>>
  /\ queue' = queue \/ queue' = <<>>
  /\ ThreadTyped' /\ PastTyped' /\ Starting'
  /\ first <= first' /\ (outrun => outrun') /\ (watch.silent => watch'.silent)
  /\ Known' /\ Believed'
  /\ UNCHANGED <<sample, monitor>> \/ Publishes

(* What is believed of the events from number n on is believed when they    *)
(* are all read, or when n is the first of those that are left.            *)
LEMMA BelievedAfter ==
  ASSUME NEW w, NEW n, GoodFrom(w, n), has' = has, watch' = w,
         queue' = <<>> \/ (queue' = queue /\ n = 1)
  PROVE  GoodFrom(watch, 1)'
<1>1. CASE queue' = <<>>
  <2>1. DOMAIN queue' = {}
    BY <1>1
  <2>. QED BY <2>1 DEF GoodFrom
<1>2. CASE queue' = queue /\ n = 1
  BY <1>2 DEF GoodFrom
<1>. QED BY <1>1, <1>2

(* A watch that ends says nothing of the folder.                           *)
LEMMA EndedTells ==
  ASSUME NEW status \in {"failed", "stopped"}
  PROVE  Ended(status) \in Samples /\ Told(Ended(status), watch)'
BY DEF Ended, Samples, Told

LEMMA ActivityPublishes ==
  ASSUME ThreadTyped, FolderTyped, PastTyped, NEW w \in Watches, KnownBy(w),
         NEW n, PostGame /\ ~outrun' => GoodFrom(w, n),
         NEW k, Publish(Activity(w, k)), watch' = w, has' = has, PostGame' <=> PostGame,
         first' = first
  PROVE  Publishes
<1>1. PICK s \in Samples :
        /\ s = Activity(w, k)
        /\ s.status = "activity" /\ s.noted = w.noted /\ s.seq = w.seq
        /\ s.settled => ~s.uploading
        /\ PostGame /\ ~outrun' /\ s.noted # None /\ ~s.uploading =>
             \E d \in Peers : has[d] >= s.noted
  BY ActivityTells
<1>2. PostGame /\ ~w.silent => s.seq <= first \/ (s.noted # None /\ s.seq <= s.noted)
  <2>1. w.seq \in Nat /\ first \in Nat
    BY DEF PastTyped, Numbers, Watches
  <2>. QED BY <1>1, <2>1 DEF KnownBy
<1>3. Told(s, watch)'
  BY <1>1, <1>2 DEF Told
<1>. QED BY <1>1, <1>3 DEF Publishes

(* The end of a pass: whatever the pass found out is published.            *)
LEMMA FinishDoes ==
  ASSUME IInv, NEW w \in Watches, KnownBy(w), watch.silent => w.silent,
         NEW n, PostGame /\ ~outrun => GoodFrom(w, n),
         pc \in {"read", "reload"}, Finish(w), queue' = <<>> \/ (queue' = queue /\ n = 1)
  PROVE  Does
<1>1. /\ UNCHANGED <<syncthingVars, phase, stop>> /\ watch' = w /\ connected' = connected
      /\ first' = first /\ outrun' = outrun
  BY DEF Finish, pastVars
<1>2. has' = has /\ index' = index /\ (PostGame' <=> PostGame)
  BY <1>1 DEF syncthingVars, PostGame
<1>3. streak' \in 0..Confirmations
  <2>1. streak \in 0..Confirmations /\ Confirmations \in Nat
    BY Constants DEF IInv, Typed, ThreadTyped
  <2>2. streak' = Streak(w) \/ streak' = streak
    BY DEF Finish
  <2>. QED BY <2>1, <2>2 DEF Streak
<1>4. Known'
  BY <1>1, <1>2 DEF Known, KnownBy
<1>5. Believed'
  <2>1. CASE PostGame /\ ~outrun
    BY <1>1, <1>2, <2>1, BelievedAfter DEF Believed
  <2>2. CASE ~(PostGame /\ ~outrun)
    BY <1>1, <1>2, <2>2 DEF Believed
  <2>. QED BY <2>1, <2>2
<1>6. pc' \in {"look", "done"}
  BY DEF Finish
<1>7. Publishes
  <2>1. CASE Publish(Ended("failed"))
    BY <2>1, EndedTells DEF Publishes
  <2>2. ASSUME NEW k, Publish(Activity(w, k)) PROVE Publishes
    BY <1>1, <1>2, <2>2, ActivityPublishes DEF IInv, Typed
  <2>. QED BY <2>1, <2>2 DEF Finish
<1>8. ThreadTyped' /\ PastTyped'
  BY <1>1, <1>2, <1>3, <1>6 DEF IInv, Typed, ThreadTyped, PastTyped
<1>9. Starting'
  <2>1. sample' \in Samples
    BY <1>7 DEF Publishes, Publish
  <2>. QED BY <1>6, <2>1 DEF Starting
<1>10. first <= first'
  BY <1>1 DEF IInv, Typed, PastTyped, Numbers
<1>. QED BY <1>1, <1>4, <1>5, <1>7, <1>8, <1>9, <1>10 DEF Does

LEMMA PastNumbers ==
  ASSUME PastTyped, FolderTyped
  PROVE  first \in Numbers /\ first \in Nat /\ index \in Numbers /\ index \in Nat /\ first <= index
           /\ outrun \in BOOLEAN
BY Constants DEF PastTyped, FolderTyped, Numbers

LEMMA PastKept ==
  ASSUME PastTyped, FolderTyped, index' = index, first' \in {first, index}, outrun' \in BOOLEAN
  PROVE  PastTyped' /\ first <= first'
BY PastNumbers DEF PastTyped

(* A step that only goes on, and leaves what the watch knows as it is.     *)
LEMMA Undisturbed ==
  ASSUME ThreadTyped, FolderTyped, PastTyped, Known, Believed,
         UNCHANGED <<syncthingVars, phase, stop, watch, streak, pastVars>>,
         queue' = queue \/ queue' = <<>>, connected' \subseteq Peers,
         pc' \in {"cursor", "completions", "second status", "look", "status", "read", "reload",
                  "done"}
  PROVE  ThreadTyped' /\ PastTyped' /\ Known' /\ Believed' /\ first <= first'
<1>1. ThreadTyped'
  BY DEF ThreadTyped
<1>2. PastTyped' /\ first <= first'
  <2>1. first' = first /\ outrun' = outrun /\ index' = index
    BY DEF pastVars, syncthingVars
  <2>2. first' \in {first, index} /\ outrun' \in BOOLEAN
    BY <2>1, PastNumbers
  <2>. QED BY <2>1, <2>2, PastKept
<1>3. Known'
  BY DEF Known, KnownBy, PostGame, syncthingVars, pastVars
<1>4. has' = has /\ (PostGame' <=> PostGame) /\ watch' = watch /\ outrun' = outrun
  BY DEF syncthingVars, PostGame, pastVars
<1>5. Believed'
  <2>1. CASE PostGame /\ ~outrun
    BY <1>4, <2>1, BelievedAfter DEF Believed
  <2>2. CASE ~(PostGame /\ ~outrun)
    BY <1>4, <2>2 DEF Believed
  <2>. QED BY <2>1, <2>2
<1>. QED BY <1>1, <1>2, <1>3, <1>5

(* Every step of the thread.                                               *)
LEMMA RunWatchDoes ==
  ASSUME IInv, RunWatch
  PROVE  Does
<1>. USE DEF IInv
<1>0. /\ Typed /\ Starting /\ Known /\ Queued /\ Believed /\ FolderTyped /\ ThreadTyped /\ PastTyped
      /\ watch \in Watches /\ KnownBy(watch) /\ (PostGame /\ ~outrun => GoodFrom(watch, 1))
  BY DEF Typed, ThreadTyped, Known, Believed
<1>n. first \in Nat /\ index \in Nat /\ first <= index /\ first \in Numbers /\ index \in Numbers
  BY <1>0, Constants DEF PastTyped, FolderTyped, Numbers
<1>. DEFINE Same == UNCHANGED <<syncthingVars, phase, stop>>
<1>1. CASE InitFails
  <2>1. Same /\ UNCHANGED <<queue, watch, connected, streak, pastVars>> /\ pc' = "done"
    BY <1>1 DEF InitFails
  <2>2. Publishes
    BY <1>1, EndedTells DEF InitFails, Publishes
  <2>3. Starting'
    BY <2>1, <2>2 DEF Starting, Publishes, Publish
  <2>4. ThreadTyped' /\ PastTyped' /\ Known' /\ Believed' /\ first <= first'
    BY <1>0, <2>1, Undisturbed DEF ThreadTyped
  <2>. QED BY <2>1, <2>2, <2>3, <2>4 DEF Does, pastVars
<1>2. CASE FirstStatus
  <2>1. Same /\ UNCHANGED <<queue, connected, streak, sample, monitor, outrun>>
          /\ pc = "first status" /\ pc' = "cursor" /\ first' = index
          /\ watch' = Reported(watch, Status)
    BY <1>2 DEF FirstStatus, At
  <2>2. /\ Status.to \in States /\ Status.seq = index /\ Status.need \in BOOLEAN
        /\ index \in Numbers
    BY <1>0 DEF Status, FolderTyped, States
  <2>3. /\ watch' \in Watches /\ watch'.seq = index /\ watch'.noted = watch.noted
        /\ watch'.silent = watch.silent /\ watch'.peers = watch.peers
    BY <1>0, <2>1, <2>2, ReportedIs
  <2>4. watch.noted = None /\ ~watch.silent
    BY <1>0, <2>1 DEF Starting
  <2>5. Starting' /\ ThreadTyped' /\ PastTyped'
    <3>1. Starting'
      BY <1>0, <2>1, <2>3, <2>4 DEF Starting
    <3>2. ThreadTyped'
      BY <1>0, <2>1, <2>3 DEF ThreadTyped
    <3>3. PastTyped'
      <4>1. index' = index
        BY <2>1 DEF syncthingVars
      <4>2. first' \in {first, index} /\ outrun' \in BOOLEAN
        BY <1>0, <2>1, PastNumbers
      <4>. QED BY <1>0, <4>1, <4>2, PastKept
    <3>. QED BY <3>1, <3>2, <3>3
  <2>6. Known' /\ Believed'
    <3>1. index' = index /\ watch'.noted = None
      BY <2>1, <2>3, <2>4 DEF syncthingVars
    <3>2. watch'.seq = index' /\ watch'.seq = first' /\ index \in Nat
      BY <1>n, <2>1, <2>3, <3>1
    <3>3. Known'
      <4>. HIDE <2>1
      <4>. QED BY <3>1, <3>2 DEF Known, KnownBy
    <3>. QED BY <3>1, <3>3 DEF Believed, GoodFrom
  <2>. QED BY <1>0, <1>n, <2>1, <2>3, <2>5, <2>6 DEF Does
<1>3. CASE Cursor
  <2>1. Same /\ UNCHANGED <<watch, connected, streak, pastVars>> /\ pc = "cursor" /\ queue' = <<>>
          /\ pc' \in {"completions", "look"} /\ (PostGame => pc' = "completions")
    BY <1>3 DEF Cursor, At
  <2>2. IF PostGame THEN UNCHANGED <<sample, monitor>> ELSE Publishes
    <3>1. CASE PostGame
      BY <1>3, <3>1 DEF Cursor
    <3>2. CASE ~PostGame
      <4>1. has' = has /\ (PostGame' <=> PostGame) /\ first' = first /\ watch' = watch
        BY <2>1 DEF syncthingVars, PostGame, pastVars
      <4>2. Publish(Activity(watch, streak))
        BY <1>3, <3>2 DEF Cursor
      <4>3. PostGame /\ ~outrun' => GoodFrom(watch, 1)
        BY <3>2
      <4>. QED BY <1>0, <3>2, <4>1, <4>2, <4>3, ActivityPublishes
    <3>. QED BY <3>1, <3>2
  <2>3. Starting'
    <3>1. CASE PostGame
      BY <1>0, <2>1, <2>2, <3>1 DEF Starting
    <3>2. CASE ~PostGame
      <4>1. pc' = "look"
        BY <1>3, <3>2 DEF Cursor, At
      <4>2. sample' \in Samples
        BY <2>2, <3>2 DEF Publishes, Publish
      <4>. QED BY <4>1, <4>2 DEF Starting
    <3>. QED BY <3>1, <3>2
  <2>4. ThreadTyped' /\ PastTyped' /\ Known' /\ Believed' /\ first <= first'
    BY <1>0, <2>1, Undisturbed DEF ThreadTyped
  <2>. QED BY <2>1, <2>2, <2>3, <2>4 DEF Does, pastVars
<1>4. ASSUME NEW d \in Peers, AskPeer(d) PROVE Does
  <2>1. Same /\ UNCHANGED <<queue, connected, streak, sample, monitor, pastVars>>
          /\ pc = "completions" /\ watch' = [watch EXCEPT !.peers[d] = Completion(d)]
    BY <1>4 DEF AskPeer
  <2>2. Completion(d) \in Completions /\ pc' \in {"completions", "second status"}
    <3>1. index - has[d] \in 0..MaxWrites + 1
      BY <1>0, Constants DEF FolderTyped, Numbers
    <3>2. pc' \in {"completions", "second status"}
      BY <1>4 DEF AskPeer
    <3>. QED BY <3>1, <3>2 DEF Completion, Completions
  <2>3. /\ watch' \in Watches /\ watch'.seq = watch.seq /\ watch'.noted = watch.noted
        /\ watch'.silent = watch.silent
    <3>. DEFINE c == Completion(d)
    <3>1. c \in Completions \cup {None} /\ watch' = [watch EXCEPT !.peers[d] = c]
      BY <2>1, <2>2
    <3>. HIDE DEF c
    <3>. QED BY <1>0, <3>1 DEF Watches
  <2>4. watch.noted = None
    BY <1>0, <2>1 DEF Starting
  <2>5. ThreadTyped' /\ PastTyped' /\ first <= first'
    <3>1. index' = index /\ first' = first /\ outrun' = outrun
      BY <2>1 DEF syncthingVars, pastVars
    <3>2. ThreadTyped'
      BY <1>0, <2>1, <2>2, <2>3 DEF ThreadTyped
    <3>3. first' \in {first, index} /\ outrun' \in BOOLEAN
      BY <1>0, <3>1, PastNumbers
    <3>. QED BY <1>0, <3>1, <3>2, <3>3, PastKept
  <2>6. Starting'
    BY <1>0, <2>1, <2>2, <2>3 DEF Starting
  <2>7. Known' /\ Believed'
    <3>1. index' = index /\ first' = first /\ (PostGame' <=> PostGame) /\ watch'.noted = None
      BY <2>1, <2>3, <2>4 DEF syncthingVars, pastVars, PostGame
    <3>. QED BY <1>0, <2>3, <3>1 DEF Known, KnownBy, Believed, GoodFrom
  <2>. QED BY <2>1, <2>3, <2>5, <2>6, <2>7 DEF Does, pastVars
<1>5. CASE SecondStatus
  <2>1. Same /\ UNCHANGED <<queue, connected, streak, first>> /\ pc' = "look"
          /\ Publish(Activity(watch', streak))
    BY <1>5 DEF SecondStatus, At
  <2>2. /\ watch' \in Watches /\ KnownBy(watch') /\ watch'.silent = watch.silent
        /\ (PostGame /\ ~outrun' => GoodFrom(watch', 1)) /\ (outrun => outrun')
        /\ outrun' \in BOOLEAN
    <3>1. CASE watch' = watch /\ outrun' = outrun
      BY <1>0, <3>1 DEF PastTyped
    <3>2. CASE watch' = Applied(watch, Status) /\ outrun' = (outrun \/ Outruns(watch))
      <4>1. outrun' \in BOOLEAN /\ (outrun => outrun')
        BY <3>2
      <4>. QED BY <1>0, <3>2, <4>1, StatusKeeps
    <3>. QED BY <1>5, <3>1, <3>2 DEF SecondStatus
  <2>3. Publishes
    <3>1. has' = has /\ (PostGame' <=> PostGame) /\ first' = first
      BY <2>1 DEF syncthingVars, PostGame
    <3>2. ASSUME NEW w, w = watch' PROVE Publishes
      BY <1>0, <2>1, <2>2, <3>1, <3>2, ActivityPublishes
    <3>. QED BY <3>2
  <2>4. Starting'
    BY <2>1, <2>3 DEF Starting, Publishes, Publish
  <2>5. ThreadTyped' /\ PastTyped' /\ Known' /\ Believed' /\ first <= first'
    <3>1. /\ index' = index /\ first' = first /\ (PostGame' <=> PostGame) /\ has' = has
          /\ queue' = queue
      BY <2>1 DEF syncthingVars, PostGame
    <3>2. ThreadTyped' /\ PastTyped' /\ first <= first'
      <4>1. ThreadTyped'
        BY <1>0, <2>1, <2>2 DEF ThreadTyped
      <4>2. first' \in {first, index}
        BY <2>1
      <4>. QED BY <1>0, <2>2, <3>1, <4>1, <4>2, PastKept
    <3>. QED BY <2>2, <3>1, <3>2 DEF Known, KnownBy, Believed, GoodFrom
  <2>. QED BY <2>1, <2>2, <2>3, <2>4, <2>5 DEF Does
<1>6. CASE Stops
  <2>1. Same /\ UNCHANGED <<queue, watch, connected, streak, sample, monitor, pastVars>>
          /\ pc' = "done"
    BY <1>6 DEF Stops, At
  <2>2. Starting'
    BY <1>0, <2>1 DEF Starting
  <2>3. ThreadTyped' /\ PastTyped' /\ Known' /\ Believed' /\ first <= first'
    BY <1>0, <2>1, Undisturbed DEF ThreadTyped
  <2>. QED BY <2>1, <2>2, <2>3 DEF Does, pastVars
<1>7. CASE Expires
  <2>1. Same /\ UNCHANGED <<queue, watch, streak, pastVars>> /\ pc' = "done"
    BY <1>7 DEF Expires, At
  <2>2. connected' \subseteq Peers
    BY <1>0, <1>7 DEF Expires, ThreadTyped, FolderTyped
  <2>3. Publishes
    BY <1>7, EndedTells DEF Expires, Publishes
  <2>4. Starting'
    BY <2>1, <2>3 DEF Starting, Publishes, Publish
  <2>5. ThreadTyped' /\ PastTyped' /\ Known' /\ Believed' /\ first <= first'
    BY <1>0, <2>1, <2>2, Undisturbed
  <2>. QED BY <2>1, <2>3, <2>4, <2>5 DEF Does, pastVars
<1>8. CASE Connections
  <2>1. Same /\ UNCHANGED <<queue, streak, sample, monitor, pastVars>>
          /\ pc = "look" /\ pc' = "status" /\ watch' \in Aged(watch)
    BY <1>8 DEF Connections, At
  <2>2. connected' \subseteq Peers
    BY <1>0, <1>8 DEF Connections, ThreadTyped, FolderTyped
  <2>3. /\ watch' \in Watches /\ KnownBy(watch') /\ watch'.silent = watch.silent
        /\ PostGame /\ ~outrun => GoodFrom(watch', 1)
    BY <1>0, <2>1, AgedIs DEF Keeps, KnownBy, GoodFrom
  <2>4. Starting'
    BY <1>0, <2>1 DEF Starting
  <2>5. ThreadTyped' /\ PastTyped' /\ Known' /\ Believed' /\ first <= first'
    <3>1. /\ index' = index /\ first' = first /\ (PostGame' <=> PostGame) /\ has' = has
          /\ queue' = queue /\ outrun' = outrun
      BY <2>1 DEF syncthingVars, pastVars, PostGame
    <3>2. ThreadTyped' /\ PastTyped' /\ first <= first'
      <4>1. ThreadTyped'
        BY <1>0, <2>1, <2>2, <2>3 DEF ThreadTyped
      <4>2. first' \in {first, index} /\ outrun' \in BOOLEAN
        BY <1>0, <3>1, PastNumbers
      <4>. QED BY <1>0, <3>1, <4>1, <4>2, PastKept
    <3>. QED BY <2>3, <3>1, <3>2 DEF Known, KnownBy, Believed, GoodFrom
  <2>. QED BY <2>1, <2>3, <2>4, <2>5 DEF Does, pastVars
<1>9. CASE Look
  <2>1. Same /\ UNCHANGED <<queue, connected, streak, sample, monitor, first>>
          /\ pc = "status" /\ pc' = "read"
    BY <1>9 DEF Look, At
  <2>5. /\ watch' \in Watches /\ KnownBy(watch') /\ watch'.silent = watch.silent
        /\ (PostGame /\ ~outrun' => GoodFrom(watch', 1)) /\ (outrun => outrun')
        /\ outrun' \in BOOLEAN
    <3>1. CASE watch' = watch /\ outrun' = outrun
      BY <1>0, <3>1 DEF PastTyped
    <3>2. CASE watch' = Applied(watch, Status) /\ outrun' = (outrun \/ Outruns(watch))
      <4>1. outrun' \in BOOLEAN /\ (outrun => outrun')
        BY <3>2
      <4>. QED BY <1>0, <3>2, <4>1, StatusKeeps
    <3>. QED BY <1>9, <3>1, <3>2 DEF Look
  <2>6. Starting'
    BY <1>0, <2>1 DEF Starting
  <2>7. ThreadTyped' /\ PastTyped' /\ Known' /\ Believed' /\ first <= first'
    <3>1. /\ index' = index /\ first' = first /\ (PostGame' <=> PostGame) /\ has' = has
          /\ queue' = queue
      BY <2>1 DEF syncthingVars, PostGame
    <3>2. ThreadTyped' /\ PastTyped' /\ first <= first'
      <4>1. ThreadTyped'
        BY <1>0, <2>1, <2>5 DEF ThreadTyped
      <4>2. first' \in {first, index}
        BY <2>1
      <4>. QED BY <1>0, <2>5, <3>1, <4>1, <4>2, PastKept
    <3>. QED BY <2>5, <3>1, <3>2 DEF Known, KnownBy, Believed, GoodFrom
  <2>. QED BY <2>1, <2>5, <2>6, <2>7 DEF Does
<1>10. CASE Read
  <2>. DEFINE w == FoldLeft(Handled, watch, queue)
  <2>1. /\ w \in Watches /\ KnownBy(w) /\ (watch.silent => w.silent)
        /\ PostGame /\ ~outrun => GoodFrom(w, Len(queue) + 1)
    BY <1>0, PassKeeps DEF GoodBefore
  <2>. HIDE DEF w
  <2>2. CASE queue' = <<>> /\ Finish(w)
    <3>1. pc \in {"read", "reload"}
      BY <1>10 DEF Read
    <3>. QED BY <2>1, <2>2, <3>1, FinishDoes
  <2>3. CASE queue' = queue /\ Finish(watch)
    <3>1. pc \in {"read", "reload"}
      BY <1>10 DEF Read
    <3>. QED BY <1>0, <2>3, <3>1, FinishDoes
  <2>4. CASE /\ queue' = <<>> /\ pc' = "reload" /\ watch' = w
             /\ UNCHANGED <<syncthingVars, phase, connected, streak, sample, stop, monitor, pastVars>>
    <3>1. Known'
      BY <2>1, <2>4 DEF Known, KnownBy, PostGame, syncthingVars, pastVars
    <3>2. Believed'
      <4>1. CASE PostGame /\ ~outrun
        BY <2>1, <2>4, <4>1, BelievedAfter DEF Believed, syncthingVars
      <4>2. CASE ~(PostGame /\ ~outrun)
        BY <2>4, <4>2 DEF Believed, PostGame, pastVars
      <4>. QED BY <4>1, <4>2
    <3>3. ThreadTyped' /\ PastTyped' /\ Starting' /\ first <= first'
      <4>1. index' = index /\ first' = first /\ outrun' = outrun
        BY <2>4 DEF syncthingVars, pastVars
      <4>2. Starting' /\ ThreadTyped'
        BY <1>0, <2>1, <2>4 DEF ThreadTyped, Starting
      <4>3. first' \in {first, index} /\ outrun' \in BOOLEAN
        BY <1>0, <4>1, PastNumbers
      <4>. QED BY <1>0, <4>1, <4>2, <4>3, PastKept
    <3>. QED BY <2>1, <2>4, <3>1, <3>2, <3>3 DEF Does, pastVars
  <2>. QED BY <1>10, <2>2, <2>3, <2>4 DEF Read, w
<1>11. CASE Reload
  <2>0. pc \in {"read", "reload"} /\ queue' = queue
    BY <1>11 DEF Reload
  <2>1. CASE Finish(Replaced(watch, Status))
    <3>. DEFINE w == Replaced(watch, Status)
    <3>1. /\ Status.to \in States /\ Status.seq = index /\ Status.need \in BOOLEAN
          /\ index \in Numbers
      BY <1>0 DEF Status, FolderTyped, States
    <3>2. /\ w \in Watches /\ w.seq = index /\ w.noted = watch.noted /\ w.peers = watch.peers
          /\ w.silent = (watch.silent \/ index > watch.seq)
      BY <1>0, <3>1, ReplacedIs
    <3>. HIDE DEF w
    <3>3. watch.seq \in Nat /\ watch.seq <= index
      BY <1>0, Constants DEF Watches, Numbers, KnownBy
    <3>4. KnownBy(w)
      <4>1. ~w.silent => watch.seq = index /\ ~watch.silent
        <5>. SUFFICES ASSUME ~w.silent PROVE watch.seq = index /\ ~watch.silent
          OBVIOUS
        <5>1. ~(index > watch.seq) /\ ~watch.silent
          BY <3>2
        <5>2. index \in Nat
          BY <1>0, PastNumbers
        <5>. QED BY <3>3, <5>1, <5>2
      <4>. QED BY <1>0, <1>n, <3>2, <4>1 DEF KnownBy
    <3>5. PostGame /\ ~outrun => GoodFrom(w, 1)
      BY <1>0, <3>2 DEF GoodFrom
    <3>. QED BY <2>0, <2>1, <3>2, <3>4, <3>5, FinishDoes DEF w
  <2>2. CASE Finish(Reported(watch, Unknown))
    <3>. DEFINE w == Reported(watch, Unknown)
    <3>1. Unknown.to \in States /\ Unknown.seq = 0 /\ 0 \in Numbers /\ Unknown.need \in BOOLEAN
      BY Constants DEF Unknown, States, Numbers
    <3>2. /\ w \in Watches /\ w.seq = 0 /\ w.noted = watch.noted /\ w.peers = watch.peers
          /\ w.silent = watch.silent
      BY <1>0, <3>1, ReportedIs
    <3>. HIDE DEF w
    <3>3. KnownBy(w)
      <4>1. w.seq <= index /\ ~(w.seq > first)
        BY <1>n, <3>2
      <4>. QED BY <1>0, <3>2, <4>1 DEF KnownBy
    <3>4. PostGame /\ ~outrun => GoodFrom(w, 1)
      BY <1>0, <3>2 DEF GoodFrom
    <3>. QED BY <2>0, <2>2, <3>2, <3>3, <3>4, FinishDoes DEF w
  <2>. QED BY <1>11, <2>1, <2>2 DEF Reload
<1>. QED BY <1>1, <1>2, <1>3, <1>4, <1>5, <1>6, <1>7, <1>8, <1>9, <1>10, <1>11 DEF RunWatch
-----------------------------------------------------------------------------
(* What Syncthing does at a step                                           *)

IsNews(e) == e.kind \in {"LocalIndexUpdated", "FolderSummary"}

(* The kinds of events that matter exclude each other. *)
LEMMA KindsDiffer ==
  ASSUME NEW e
  PROVE  /\ IsCompletion(e) => ~IsIndexed(e) /\ ~IsNews(e)
         /\ IsIndexed(e) => IsNews(e)
BY DEF IsCompletion, IsIndexed, IsNews

LEMMA EmitIs ==
  ASSUME QueueTyped, NEW e \in Events, Emit(e)
  PROVE  /\ QueueTyped' /\ Len(queue) \in Nat
         /\ DOMAIN queue = 1..Len(queue) /\ DOMAIN queue' = 1..Len(queue) + 1
         /\ \A i \in 1..Len(queue) : queue'[i] = queue[i]
         /\ queue'[Len(queue) + 1] = e
<1>1. queue \in Seq(Events) /\ queue' = Append(queue, e) /\ Len(queue) < MaxQueue /\ MaxQueue \in Nat
  BY WatchAssumption DEF QueueTyped, Emit
<1>2. queue' \in Seq(Events) /\ Len(queue') = Len(queue) + 1
  BY <1>1
<1>3. Len(queue) + 1 <= MaxQueue
  BY <1>1
<1>. QED BY <1>1, <1>2, <1>3 DEF QueueTyped

(* An event is added to the queue.  It tells of no write but the last that *)
(* is indexed; a completion tells of a peer that has them all; and the     *)
(* index moves on only with the news of it.                                *)
LEMMA EmitKeeps ==
  ASSUME Typed, Known, Queued, Believed, NEW e \in Events, Emit(e), FolderTyped',
         IsNews(e) => e.seq <= index', IsCompletion(e) => has[e.peer] = index /\ e.peer \in Peers,
         index <= index', index' = index \/ (IsIndexed(e) /\ e.seq = index'),
         has' = has, UNCHANGED <<watch, outrun>>, PostGame' <=> PostGame
  PROVE  Queued' /\ Believed'
<1>. DEFINE L == Len(queue)
<1>1. /\ L \in Nat /\ DOMAIN queue = 1..L /\ DOMAIN queue' = 1..L + 1
      /\ \A i \in 1..L : queue'[i] = queue[i]
      /\ queue'[L + 1] = e
  BY EmitIs DEF Typed
<1>2. index \in Nat /\ index' \in Nat /\ has \in [Peers -> Numbers]
  BY Constants DEF Typed, FolderTyped, Numbers
<1>3. ASSUME NEW i \in 1..L + 1, IsNews(queue'[i]) PROVE queue'[i].seq <= index'
  <2>1. CASE i = L + 1
    BY <1>1, <1>3, <2>1
  <2>2. CASE i # L + 1
    <3>1. i \in 1..L /\ queue'[i] = queue[i]
      BY <1>1, <2>2
    <3>2. queue[i].seq <= index /\ queue[i].seq \in Nat
      <4>1. queue[i] \in Events
        BY <1>1, <3>1 DEF Typed, QueueTyped
      <4>2. queue[i].seq \in Numbers
        BY <1>3, <3>1, <4>1, EventIs, WatchAssumption DEF IsNews
      <4>. QED BY <1>1, <1>3, <3>1, <4>2, Constants DEF Queued, IsNews, Numbers
    <3>. QED BY <1>2, <3>1, <3>2
  <2>. QED BY <2>1, <2>2
<1>4. ASSUME NEW i \in 1..L + 1, IsCompletion(queue'[i])
      PROVE  /\ \A j \in 1..i - 1 : IsIndexed(queue'[j]) => queue'[j].seq <= has[queue'[i].peer]
             /\ \/ has[queue'[i].peer] = index'
                \/ \E j \in 1..L + 1 : i < j /\ IsIndexed(queue'[j]) /\ queue'[j].seq = index'
  <2>1. CASE i = L + 1
    <3>1. queue'[i] = e /\ has[e.peer] = index /\ index' = index
      BY <1>1, <1>4, <2>1, KindsDiffer
    <3>2. ASSUME NEW j \in 1..i - 1, IsIndexed(queue'[j]) PROVE queue'[j].seq <= index'
      <4>1. j \in 1..L + 1 /\ IsNews(queue'[j])
        BY <1>1, <2>1, <3>2, KindsDiffer
      <4>. QED BY <1>3, <4>1
    <3>. QED BY <3>1, <3>2
  <2>2. CASE i # L + 1
    <3>1. i \in 1..L /\ queue'[i] = queue[i] /\ \A j \in 1..i - 1 : queue'[j] = queue[j]
      BY <1>1, <2>2
    <3>2. /\ \A j \in 1..i - 1 : IsIndexed(queue[j]) => queue[j].seq <= has[queue[i].peer]
          /\ \/ has[queue[i].peer] = index
             \/ \E j \in 1..L : i < j /\ IsIndexed(queue[j]) /\ queue[j].seq = index
      BY <1>1, <1>4, <3>1 DEF Queued
    <3>3. CASE index' = index
      <4>1. CASE has[queue[i].peer] = index
        BY <3>1, <3>2, <3>3, <4>1
      <4>2. ASSUME NEW j \in 1..L, i < j, IsIndexed(queue[j]), queue[j].seq = index
            PROVE  \E k \in 1..L + 1 : i < k /\ IsIndexed(queue'[k]) /\ queue'[k].seq = index'
        <5>1. j \in 1..L + 1 /\ queue'[j] = queue[j]
          BY <1>1
        <5>. QED BY <3>3, <4>2, <5>1
      <4>. QED BY <3>1, <3>2, <4>1, <4>2
    <3>4. CASE IsIndexed(e) /\ e.seq = index'
      <4>1. L + 1 \in 1..L + 1 /\ i < L + 1
        BY <1>1, <3>1
      <4>. QED BY <1>1, <3>1, <3>2, <3>4, <4>1
    <3>. QED BY <3>3, <3>4
  <2>. QED BY <2>1, <2>2
<1>5. Queued'
  BY <1>1, <1>3, <1>4 DEF Queued, IsNews
<1>6. ASSUME PostGame, ~outrun PROVE GoodFrom(watch, 1)'
  <2>. SUFFICES ASSUME watch.noted # None
                PROVE  /\ \A d \in Peers : Complete(watch.peers[d]) => watch.noted <= has[d]
                       /\ \A i \in 1..L + 1 : 1 <= i /\ IsCompletion(queue'[i]) =>
                            watch.noted <= has[queue'[i].peer]
    BY <1>1 DEF GoodFrom
  <2>1. GoodFrom(watch, 1)
    BY <1>6 DEF Believed
  <2>2. ASSUME NEW i \in 1..L + 1, IsCompletion(queue'[i]) PROVE watch.noted <= has[queue'[i].peer]
    <3>1. CASE i = L + 1
      BY <1>1, <2>2, <3>1 DEF Known, KnownBy
    <3>2. CASE i # L + 1
      <4>1. i \in 1..L /\ queue'[i] = queue[i] /\ 1 <= i
        BY <1>1, <3>2
      <4>. QED BY <1>1, <2>1, <2>2, <4>1 DEF GoodFrom
    <3>. QED BY <3>1, <3>2
  <2>. QED BY <2>1, <2>2 DEF GoodFrom
<1>7. Believed'
  BY <1>6 DEF Believed
<1>. QED BY <1>5, <1>7

(* Nothing is added to the queue, and a peer may catch up with the index.  *)
LEMMA PullKeeps ==
  ASSUME Typed, Known, Queued, Believed, FolderTyped', queue' = queue \/ queue' = <<>>, index' = index,
         \A d \in Peers : has'[d] = has[d] \/ has'[d] = index,
         UNCHANGED <<watch, outrun>>, PostGame' <=> PostGame
  PROVE  Queued' /\ Believed'
<1>0. /\ index \in Nat /\ has \in [Peers -> Nat] /\ has' \in [Peers -> Nat]
      /\ \A d \in Peers : has[d] <= index
  BY Constants DEF Typed, FolderTyped, Numbers
<1>1. ASSUME NEW d \in Peers, NEW s \in Nat, s <= has[d] PROVE s <= has'[d]
  BY <1>0, <1>1
<1>n. watch.noted # None => watch.noted \in Nat
  <2>1. watch \in Watches
    BY DEF Typed, ThreadTyped
  <2>. QED BY <2>1, Constants DEF Watches
<1>2. CASE queue' = <<>>
  <2>1. DOMAIN queue' = {}
    BY <1>2
  <2>2. ASSUME GoodFrom(watch, 1) PROVE GoodFrom(watch, 1)'
    BY <1>1, <1>n, <2>1, <2>2 DEF GoodFrom
  <2>. QED BY <2>1, <2>2 DEF Queued, Believed
<1>3. CASE queue' = queue
  <2>1. ASSUME NEW i \in DOMAIN queue PROVE queue[i] \in Events
    BY DEF Typed, QueueTyped
  <2>2. ASSUME NEW i \in DOMAIN queue, IsCompletion(queue[i]) PROVE queue[i].peer \in Peers
    BY <2>1, <2>2, EventIs, WatchAssumption DEF IsCompletion
  <2>3. ASSUME NEW i \in DOMAIN queue, IsIndexed(queue[i]) PROVE queue[i].seq \in Nat
    BY <2>1, <2>3, EventIs, WatchAssumption, Constants DEF IsIndexed, Numbers
  <2>4. ASSUME NEW i \in DOMAIN queue, IsCompletion(queue[i])
        PROVE  /\ \A j \in 1..i - 1 : IsIndexed(queue[j]) => queue[j].seq <= has'[queue[i].peer]
               /\ \/ has'[queue[i].peer] = index
                  \/ \E j \in DOMAIN queue : i < j /\ IsIndexed(queue[j]) /\ queue[j].seq = index
    <3>1. \A j \in 1..i - 1 : j \in DOMAIN queue
      BY DEF Typed, QueueTyped
    <3>2. \A j \in 1..i - 1 : IsIndexed(queue[j]) => queue[j].seq <= has[queue[i].peer]
      BY <2>4 DEF Queued
    <3>3. \/ has[queue[i].peer] = index
          \/ \E j \in DOMAIN queue : i < j /\ IsIndexed(queue[j]) /\ queue[j].seq = index
      BY <2>4 DEF Queued
    <3>4. has'[queue[i].peer] = has[queue[i].peer] \/ has'[queue[i].peer] = index
      BY <2>2, <2>4
    <3>5. \A j \in 1..i - 1 : IsIndexed(queue[j]) => queue[j].seq <= has'[queue[i].peer]
      BY <1>1, <2>2, <2>3, <2>4, <3>1, <3>2
    <3>. QED BY <3>3, <3>4, <3>5
  <2>5. Queued'
    BY <1>3, <2>4 DEF Queued
  <2>6. ASSUME GoodFrom(watch, 1) PROVE GoodFrom(watch, 1)'
    BY <1>1, <1>3, <1>n, <2>2, <2>6 DEF GoodFrom
  <2>. QED BY <2>5, <2>6 DEF Believed
<1>. QED BY <1>2, <1>3

(* Neither the sample nor the context changes, and the peers lose nothing. *)
LEMMA ShownKept ==
  ASSUME Typed, Starting, Shown, FolderTyped', PastTyped', \A d \in Peers : has[d] <= has'[d],
         first <= first', outrun => outrun', watch.silent => watch'.silent,
         sample' = sample, monitor'.step = monitor.step, monitor'.handoff = monitor.handoff,
         monitor'.taken = monitor.taken, monitor'.settled = monitor.settled,
         monitor'.news = monitor.news, PostGame' <=> PostGame
  PROVE  Shown'
<1>1. /\ first \in Nat /\ first' \in Nat /\ has \in [Peers -> Nat] /\ has' \in [Peers -> Nat]
  BY Constants DEF Typed, FolderTyped, PastTyped, Numbers
<1>2. ASSUME sample # None \/ monitor.news, Told(sample, watch) PROVE Told(sample, watch)'
  <2>1. ASSUME sample.status = "activity"
        PROVE  sample.seq \in Nat /\ (sample.noted # None => sample.noted \in Nat)
    <3>1. sample \in Samples
      BY <1>2 DEF Typed, ShownTyped, Starting
    <3>2. sample \notin {Ended("failed"), Ended("stopped")}
      BY <2>1 DEF Ended
    <3>. QED BY <3>1, <3>2, Constants DEF Samples, Numbers
  <2>2. ASSUME PostGame', sample.status = "activity", ~outrun', sample.noted # None,
               ~sample.uploading
        PROVE  \E d \in Peers : has'[d] >= sample.noted
    <3>1. PICK d \in Peers : has[d] >= sample.noted
      BY <1>2, <2>2 DEF Told
    <3>2. has'[d] >= sample.noted
      <4>1. sample.noted \in Nat /\ has[d] <= has'[d]
        BY <2>1, <2>2
      <4>. QED BY <1>1, <3>1, <4>1
    <3>. QED BY <3>2
  <2>3. ASSUME PostGame', sample.status = "activity", ~watch'.silent
        PROVE  sample.seq <= first' \/ (sample.noted # None /\ sample.seq <= sample.noted)
    <3>1. sample.seq <= first \/ (sample.noted # None /\ sample.seq <= sample.noted)
      BY <1>2, <2>3 DEF Told
    <3>2. sample.seq \in Nat
      BY <2>1, <2>3
    <3>3. ASSUME sample.seq <= first PROVE sample.seq <= first'
      BY <1>1, <3>2, <3>3
    <3>. QED BY <3>1, <3>3
  <2>. QED BY <1>2, <2>2, <2>3 DEF Told
<1>3. CompleteIsConfirmed'
  <2>. SUFFICES ASSUME monitor.step = "complete", PostGame
                PROVE  /\ monitor.handoff # None
                       /\ \/ \E d \in Peers : has'[d] >= monitor.handoff
                          \/ monitor.taken < monitor.handoff \/ monitor.handoff <= first'
                          \/ outrun' \/ watch'.silent
    BY DEF CompleteIsConfirmed
  <2>1. /\ monitor.handoff # None
        /\ \/ \E d \in Peers : has[d] >= monitor.handoff
           \/ monitor.taken < monitor.handoff \/ monitor.handoff <= first
           \/ outrun \/ watch.silent
    BY DEF Shown, CompleteIsConfirmed
  <2>2. monitor.handoff \in Nat
    <3>1. monitor.handoff \in Numbers \cup {None}
      BY DEF Typed, ShownTyped, MonitorStates
    <3>. QED BY <2>1, <3>1, Constants DEF Numbers
  <2>3. ASSUME NEW d \in Peers, has[d] >= monitor.handoff PROVE has'[d] >= monitor.handoff
    BY <1>1, <2>2, <2>3
  <2>4. monitor.handoff <= first => monitor.handoff <= first'
    BY <1>1, <2>2
  <2>. QED BY <2>1, <2>3, <2>4
<1>. QED BY <1>2, <1>3 DEF Shown

(* Every step of Syncthing, and of who writes to the folder.               *)
LEMMA SyncthingKeeps ==
  ASSUME IInv, Syncthing
  PROVE  IInv'
<1>. USE DEF IInv
<1>1. UNCHANGED <<phase, watchVars, sample, stop, monitor, pastVars>>
  BY DEF Syncthing, Write, Index, Pull, Report, Changes, Tells, Loses, Elsewhere
<1>2. /\ watch' = watch /\ outrun' = outrun /\ first' = first /\ (PostGame' <=> PostGame)
      /\ sample' = sample /\ monitor' = monitor
  BY <1>1 DEF watchVars, pastVars, PostGame
<1>3. ThreadTyped' /\ ShownTyped' /\ Starting'
  BY <1>1 DEF Typed, ThreadTyped, ShownTyped, Starting, watchVars
<1>4. /\ disk \in Nat /\ index \in Nat /\ 1 <= index /\ index <= disk /\ index \in Numbers
      /\ disk \in Numbers /\ has \in [Peers -> Numbers] /\ \A d \in Peers : has[d] \in Nat
      /\ \A d \in Peers : has[d] <= index
      /\ MaxWrites \in Nat
  BY Constants DEF Typed, FolderTyped, Numbers
(* what follows from the folder and the queue *)
<1>5. ASSUME FolderTyped', QueueTyped', Queued', Believed', index <= index',
             \A d \in Peers : has[d] <= has'[d]
      PROVE  IInv'
  <2>1. PastTyped'
    <3>1. index' \in Nat
      BY <1>5, Constants DEF FolderTyped, Numbers
    <3>2. first <= index'
      BY <1>4, <1>5, <3>1, PastNumbers DEF Typed
    <3>. QED BY <1>2, <3>2 DEF Typed, PastTyped
  <2>2. Known'
    <3>1. KnownBy(watch) /\ watch \in Watches
      BY DEF Known, Typed, ThreadTyped
    <3>2. watch.seq \in Nat /\ (watch.noted # None => watch.noted \in Nat)
      BY <3>1, Constants DEF Watches, Numbers
    <3>3. index' \in Nat
      BY <1>5, Constants DEF FolderTyped, Numbers
    <3>4. watch.seq <= index' /\ (watch.noted # None => watch.noted <= index')
      BY <1>4, <1>5, <3>1, <3>2, <3>3 DEF KnownBy
    <3>. QED BY <1>2, <3>1, <3>4 DEF Known, KnownBy
  <2>3. Shown'
    <3>1. first <= first'
      BY <1>2, PastNumbers DEF Typed
    <3>. QED BY <1>2, <1>5, <2>1, <3>1, ShownKept
  <2>. QED BY <1>3, <1>5, <2>1, <2>2, <2>3 DEF Typed
<1>6. CASE Write
  <2>1. disk' = disk + 1 /\ disk <= MaxWrites /\ UNCHANGED <<index, has, up, folder, incoming, queue>>
    BY <1>6 DEF Write
  <2>2. disk' \in Numbers /\ index' <= disk'
    BY <1>4, <2>1 DEF Numbers
  <2>3. FolderTyped'
    BY <2>1, <2>2 DEF Typed, FolderTyped
  <2>4. Queued' /\ Believed'
    BY <1>2, <2>1, <2>3, PullKeeps
  <2>. QED BY <1>4, <1>5, <2>1, <2>3, <2>4 DEF Typed, QueueTyped
<1>7. CASE Index
  <2>. DEFINE e == [kind |-> "LocalIndexUpdated", seq |-> disk]
  <2>1. index < disk /\ index' = disk /\ UNCHANGED <<disk, has, up, folder, incoming>> /\ Emit(e)
    BY <1>7 DEF Index
  <2>2. e \in Events /\ IsIndexed(e) /\ e.seq = disk
    BY <1>4 DEF Events, IsIndexed
  <2>. HIDE DEF e
  <2>3. FolderTyped'
    <3>1. \A d \in Peers : has[d] <= index'
      BY <1>4, <2>1
    <3>. QED BY <1>4, <2>1, <3>1 DEF Typed, FolderTyped
  <2>4. index <= index' /\ e.seq <= index' /\ e.seq = index'
    BY <1>4, <2>1, <2>2
  <2>5. Queued' /\ Believed'
    BY <1>2, <2>1, <2>2, <2>3, <2>4, EmitKeeps, KindsDiffer
  <2>. QED BY <1>4, <1>5, <2>1, <2>2, <2>3, <2>4, <2>5, EmitIs DEF Typed
<1>8. ASSUME NEW d \in Peers, Pull(d) PROVE IInv'
  <2>1. has' = [has EXCEPT ![d] = index] /\ UNCHANGED <<disk, index, up, folder, incoming, queue>>
    BY <1>8 DEF Pull
  <2>2. has' \in [Peers -> Numbers] /\ \A c \in Peers : has[c] <= has'[c] /\ has'[c] <= index
          /\ (has'[c] = has[c] \/ has'[c] = index)
    BY <1>4, <2>1
  <2>3. FolderTyped'
    BY <2>1, <2>2 DEF Typed, FolderTyped
  <2>4. Queued' /\ Believed'
    BY <1>2, <2>1, <2>2, <2>3, PullKeeps
  <2>. QED BY <1>4, <1>5, <2>1, <2>2, <2>3, <2>4 DEF Typed, QueueTyped
<1>9. ASSUME NEW d \in Peers, Report(d) PROVE IInv'
  <2>. DEFINE e == [kind |-> "FolderCompletion", peer |-> d, completion |-> Completion(d)]
  <2>1. UNCHANGED syncthingVars /\ Emit(e)
    BY <1>9 DEF Report
  <2>2. UNCHANGED <<disk, index, has, up, folder, incoming>>
    BY <2>1 DEF syncthingVars
  <2>3. Completion(d) \in Completions /\ (Completion(d).need = 0 => has[d] = index)
    <3>1. index - has[d] \in 0..MaxWrites + 1 /\ (index - has[d] = 0 => has[d] = index)
      BY <1>4 DEF Numbers
    <3>. QED BY <3>1 DEF Completion, Completions
  <2>4. e \in Events /\ e.peer = d /\ ~IsNews(e) /\ (IsCompletion(e) => has[d] = index)
    BY <2>3 DEF Events, IsNews, IsCompletion
  <2>. HIDE DEF e
  <2>5. FolderTyped'
    BY <2>2 DEF Typed, FolderTyped
  <2>6. index <= index' /\ \A c \in Peers : has[c] <= has'[c]
    BY <1>4, <2>2
  <2>7. Queued' /\ Believed'
    BY <1>2, <2>1, <2>2, <2>4, <2>5, <2>6, EmitKeeps
  <2>. QED BY <1>5, <2>1, <2>4, <2>5, <2>6, <2>7, EmitIs DEF Typed
(* an event that tells of the folder as it is, and of no peer *)
<1>10. ASSUME FolderTyped', UNCHANGED <<disk, index, has>>, NEW e \in Events, Emit(e),
              IsNews(e) => e.seq = index, ~IsCompletion(e)
       PROVE  IInv'
  <2>1. index <= index' /\ (\A c \in Peers : has[c] <= has'[c]) /\ (IsNews(e) => e.seq <= index')
    BY <1>4, <1>10
  <2>2. Queued' /\ Believed'
    BY <1>2, <1>10, <2>1, EmitKeeps
  <2>. QED BY <1>5, <1>10, <2>1, <2>2, EmitIs DEF Typed
<1>11. ASSUME FolderTyped', UNCHANGED <<disk, index, has>>, queue' = queue \/ queue' = <<>>
       PROVE  IInv'
  <2>1. index <= index' /\ (\A c \in Peers : has[c] <= has'[c])
    BY <1>4, <1>11
  <2>2. Queued' /\ Believed'
    BY <1>2, <1>11, PullKeeps
  <2>3. QueueTyped'
    <3>1. Len(<<>>) = 0 /\ <<>> \in Seq(Events) /\ 0 <= MaxQueue
      BY WatchAssumption
    <3>. QED BY <1>11, <3>1 DEF Typed, QueueTyped
  <2>. QED BY <1>5, <1>11, <2>1, <2>2, <2>3
<1>12. CASE Changes
  <2>1. UNCHANGED <<disk, index, has>>
    BY <1>12 DEF Changes
  <2>2. CASE \E d \in Peers : up' \in {up \cup {d}, up \ {d}} \ {up} /\ UNCHANGED <<folder, incoming, queue>>
    <3>1. FolderTyped'
      BY <2>1, <2>2 DEF Typed, FolderTyped
    <3>. QED BY <1>11, <2>1, <2>2, <3>1
  <2>3. CASE incoming' = ~incoming /\ UNCHANGED <<up, folder, queue>>
    <3>1. FolderTyped'
      BY <2>1, <2>3 DEF Typed, FolderTyped
    <3>. QED BY <1>11, <2>1, <2>3, <3>1
  <2>4. CASE /\ folder' \in FolderStates \ {folder} /\ UNCHANGED <<up, incoming>>
             /\ \E to \in {folder', "unknown"} : Emit([kind |-> "StateChanged", to |-> to])
    <3>1. FolderTyped'
      BY <2>1, <2>4 DEF Typed, FolderTyped
    <3>2. PICK to \in {folder', "unknown"} : Emit([kind |-> "StateChanged", to |-> to])
      BY <2>4
    <3>. DEFINE e == [kind |-> "StateChanged", to |-> to]
    <3>3. e \in Events /\ ~IsNews(e) /\ ~IsCompletion(e)
      BY <2>4 DEF Events, States, IsNews, IsCompletion
    <3>. HIDE DEF e
    <3>4. Emit(e)
      BY <3>2 DEF e
    <3>. QED BY <1>10, <2>1, <3>1, <3>3, <3>4
  <2>. QED BY <1>12, <2>2, <2>3, <2>4 DEF Changes
<1>13. CASE Tells
  <2>1. UNCHANGED <<disk, index, has, up, folder, incoming>>
    BY <1>13 DEF Tells, syncthingVars
  <2>2. FolderTyped'
    BY <2>1 DEF Typed, FolderTyped
  <2>3. ASSUME NEW e \in Events, Emit(e), IsNews(e) => e.seq = index, ~IsCompletion(e) PROVE IInv'
    BY <1>10, <2>1, <2>2, <2>3
  <2>4. CASE Emit([kind |-> "FolderSummary", to |-> folder, seq |-> index, need |-> incoming])
    <3>. DEFINE e == [kind |-> "FolderSummary", to |-> folder, seq |-> index, need |-> incoming]
    <3>1. folder \in States /\ incoming \in BOOLEAN
      BY DEF Typed, FolderTyped, States
    <3>2. e \in Events /\ e.seq = index /\ ~IsCompletion(e)
      BY <1>4, <3>1 DEF Events, IsCompletion
    <3>. QED BY <2>3, <2>4, <3>2
  <2>5. CASE Emit([kind |-> "ConfigSaved"])
    <3>. DEFINE e == [kind |-> "ConfigSaved"]
    <3>1. e \in Events /\ ~IsNews(e) /\ ~IsCompletion(e)
      BY DEF Events, IsNews, IsCompletion
    <3>. QED BY <2>3, <2>5, <3>1
  <2>6. ASSUME NEW d \in up, NEW on \in BOOLEAN,
               Emit([kind |-> "RemoteDownloadProgress", peer |-> d, on |-> on])
        PROVE  IInv'
    <3>. DEFINE e == [kind |-> "RemoteDownloadProgress", peer |-> d, on |-> on]
    <3>1. d \in Peers
      BY DEF Typed, FolderTyped
    <3>2. e \in Events /\ ~IsNews(e) /\ ~IsCompletion(e)
      BY <3>1 DEF Events, IsNews, IsCompletion
    <3>. QED BY <2>3, <2>6, <3>2
  <2>7. ASSUME NEW k \in Signals, NEW on \in BOOLEAN, Emit([kind |-> k, on |-> on])
        PROVE  IInv'
    <3>. DEFINE e == [kind |-> k, on |-> on]
    <3>1. k \in {"change", "scan", "download", "item"}
      BY WatchAssumption
    <3>2. e \in Events /\ e.kind = k
      BY DEF Events
    <3>3. ~IsNews(e) /\ ~IsCompletion(e)
      BY <3>1, <3>2 DEF IsNews, IsCompletion
    <3>. QED BY <2>3, <2>7, <3>2, <3>3
  <2>. QED BY <1>13, <2>4, <2>5, <2>6, <2>7 DEF Tells
<1>14. CASE Loses
  <2>1. UNCHANGED <<disk, index, has, up, folder, incoming>> /\ queue' = <<>>
    BY <1>14 DEF Loses, syncthingVars
  <2>2. FolderTyped'
    BY <2>1 DEF Typed, FolderTyped
  <2>. QED BY <1>11, <2>1, <2>2
<1>. QED BY <1>6, <1>7, <1>8, <1>9, <1>12, <1>13, <1>14 DEF Syncthing

(* Every step of the thread keeps the invariant.                           *)
LEMMA RunWatchKeeps ==
  ASSUME IInv, RunWatch
  PROVE  IInv'
<1>1. Does
  BY RunWatchDoes
<1>2. /\ UNCHANGED <<disk, index, has, up, folder, incoming>> /\ (PostGame' <=> PostGame)
      /\ queue' = queue \/ queue' = <<>>
  BY <1>1 DEF Does, syncthingVars, PostGame
<1>3. FolderTyped' /\ QueueTyped'
  <2>1. FolderTyped'
    BY <1>2 DEF IInv, Typed, FolderTyped
  <2>2. Len(<<>>) = 0 /\ <<>> \in Seq(Events) /\ 0 <= MaxQueue
    BY WatchAssumption
  <2>. QED BY <1>2, <2>1, <2>2 DEF IInv, Typed, QueueTyped
<1>4. Queued'
  <2>1. CASE queue' = queue
    BY <1>2, <2>1 DEF IInv, Queued
  <2>2. CASE queue' = <<>>
    <3>1. DOMAIN queue' = {}
      BY <2>2
    <3>. QED BY <3>1 DEF Queued
  <2>. QED BY <1>2, <2>1, <2>2
<1>5. ShownTyped' /\ Shown'
  <2>1. CASE UNCHANGED <<sample, monitor>>
    <3>1. \A d \in Peers : has[d] <= has'[d]
      BY <1>2, Constants DEF IInv, Typed, FolderTyped, Numbers
    <3>2. Shown'
      BY <1>1, <1>2, <1>3, <2>1, <3>1, ShownKept DEF Does, IInv
    <3>. QED BY <2>1, <3>2 DEF IInv, Typed, ShownTyped
  <2>2. CASE Publishes
    <3>1. PICK s \in Samples : Publish(s) /\ Told(s, watch)'
      BY <2>2 DEF Publishes
    <3>2. sample' = s /\ monitor' = [monitor EXCEPT !.news = TRUE] /\ monitor \in MonitorStates
      BY <3>1 DEF Publish, IInv, Typed, ShownTyped
    <3>3. /\ monitor' \in MonitorStates /\ monitor'.step = monitor.step
          /\ monitor'.handoff = monitor.handoff /\ monitor'.taken = monitor.taken
          /\ monitor'.settled = monitor.settled
      BY <3>2 DEF MonitorStates
    <3>4. Told(sample, watch)'
      BY <3>1, <3>2 DEF Told
    <3>5. CompleteIsConfirmed'
      <4>1. CompleteIsConfirmed
        BY DEF IInv, Shown
      <4>2. ASSUME monitor.handoff # None, monitor.handoff <= first PROVE monitor.handoff <= first'
        <5>1. monitor.handoff \in Nat
          <6>1. monitor.handoff \in Numbers \cup {None}
            BY <3>2 DEF MonitorStates
          <6>. QED BY <4>2, <6>1, Constants DEF Numbers
        <5>2. first \in Nat /\ first' \in Nat /\ first <= first'
          BY <1>1, Constants DEF Does, IInv, Typed, PastTyped, Numbers
        <5>. QED BY <4>2, <5>1, <5>2
      <4>3. (outrun => outrun') /\ (watch.silent => watch'.silent)
        BY <1>1 DEF Does
      <4>. QED BY <1>2, <3>3, <4>1, <4>2, <4>3 DEF CompleteIsConfirmed
    <3>. QED BY <3>1, <3>2, <3>3, <3>4, <3>5 DEF IInv, Shown, ShownTyped
  <2>. QED BY <1>1, <2>1, <2>2 DEF Does
<1>. QED BY <1>1, <1>3, <1>4, <1>5 DEF Does, IInv, Typed
-----------------------------------------------------------------------------
(* What the monitor does at a step                                         *)

(* The monitor changes its own context and may tell the watch to stop.     *)
LEMMA MonitorKeeps ==
  ASSUME IInv, Monitors, monitor' \in MonitorStates, stop' \in BOOLEAN,
         monitor'.news => monitor.news, CompleteIsConfirmed',
         (monitor'.step = "complete") = (monitor'.taken # None),
         monitor'.step = "watching" => monitor'.settled # Quorum
  PROVE  IInv'
<1>1. /\ UNCHANGED <<disk, index, has, up, folder, incoming, queue, phase, pc, watch, connected,
                     streak, sample, first, outrun>>
      /\ PostGame' <=> PostGame
  BY DEF Monitors, syncthingVars, watchVars, pastVars, PostGame
<1>2. Typed'
  BY <1>1 DEF IInv, Typed, FolderTyped, QueueTyped, ThreadTyped, ShownTyped, PastTyped
<1>3. Starting'
  BY <1>1 DEF IInv, Starting
<1>4. Known' /\ Queued' /\ Believed'
  BY <1>1 DEF IInv, Known, KnownBy, Queued, Believed, GoodFrom
<1>5. Shown'
  <2>1. sample # None \/ monitor.news => Told(sample, watch)
    BY DEF IInv, Shown
  <2>2. (sample # None \/ monitor.news => Told(sample, watch))'
    BY <1>1, <2>1 DEF Told
  <2>. QED BY <2>2 DEF Shown
<1>. QED BY <1>2, <1>3, <1>4, <1>5 DEF IInv

(* The third settled sample completes the context.  It was settled, so     *)
(* nothing was being uploaded, and some peer has all that it notes; and    *)
(* what it notes is all of the sequence that it tells.                     *)
LEMMA PollKeeps ==
  ASSUME IInv, Poll
  PROVE  IInv'
<1>. DEFINE seen == monitor.seen \/ sample.busy
            n == IF Counts(seen) THEN monitor.settled + 1 ELSE 0
<1>1. /\ Monitors /\ monitor.step = "watching" /\ monitor.news /\ sample.status = "activity"
      /\ stop' = (stop \/ n = Quorum)
      /\ monitor' = [monitor EXCEPT !.step = IF n = Quorum THEN "complete" ELSE @, !.ready = TRUE,
                       !.seen = seen, !.settled = n, !.news = FALSE,
                       !.taken = IF n = Quorum THEN sample.seq ELSE @]
  BY DEF Poll
<1>2. monitor \in MonitorStates /\ monitor.taken = None /\ watch \in Watches
  BY <1>1 DEF IInv, Shown, Typed, ShownTyped, ThreadTyped
<1>3. sample \in Samples /\ sample.seq \in Numbers /\ sample.seq # None /\ sample.busy \in BOOLEAN
        /\ (sample.noted # None => sample.noted \in Nat)
  <2>1. sample \in Samples
    BY <1>1 DEF IInv, Starting
  <2>2. sample \notin {Ended("failed"), Ended("stopped")}
    BY <1>1 DEF Ended
  <2>. QED BY <2>1, <2>2, Constants DEF Samples, Numbers
<1>4. n \in 0..Quorum /\ seen \in BOOLEAN /\ stop' \in BOOLEAN /\ Quorum \in Nat \ {0}
  <2>1. monitor.settled \in 0..Quorum /\ monitor.seen \in BOOLEAN /\ monitor.settled # Quorum
    BY <1>1, <1>2 DEF IInv, Shown, MonitorStates
  <2>2. stop \in BOOLEAN
    BY DEF IInv, Typed, ThreadTyped
  <2>. QED BY <1>1, <1>3, <2>1, <2>2 DEF Quorum
<1>5. n = Quorum => sample.settled /\ (PostGame => monitor.handoff # None)
  BY <1>4 DEF Counts
<1>. HIDE DEF seen, n
<1>6. /\ monitor' \in MonitorStates /\ monitor'.news = FALSE /\ monitor'.handoff = monitor.handoff
      /\ monitor'.settled = n
      /\ IF n = Quorum THEN monitor'.step = "complete" /\ monitor'.taken = sample.seq
         ELSE monitor'.step = "watching" /\ monitor'.taken = None
  BY <1>1, <1>2, <1>3, <1>4 DEF MonitorStates
<1>7. CompleteIsConfirmed'
  <2>0. UNCHANGED <<phase, has, first, outrun, watch>> /\ (PostGame' <=> PostGame)
    BY <1>1 DEF Monitors, syncthingVars, pastVars, watchVars, PostGame
  <2>. SUFFICES ASSUME n = Quorum, PostGame
                PROVE  /\ monitor.handoff # None
                       /\ \/ \E d \in Peers : has[d] >= monitor.handoff
                          \/ sample.seq < monitor.handoff \/ monitor.handoff <= first
                          \/ outrun \/ watch.silent
    BY <1>6, <2>0 DEF CompleteIsConfirmed
  <2>1. monitor.handoff # None /\ sample.settled
    BY <1>5
  <2>2. monitor.handoff \in Nat /\ first \in Nat /\ has \in [Peers -> Nat]
    <3>1. monitor.handoff \in Numbers \cup {None}
      BY <1>2 DEF MonitorStates
    <3>2. first \in Nat /\ has \in [Peers -> Nat]
      BY Constants DEF IInv, Typed, PastTyped, FolderTyped, Numbers
    <3>. QED BY <2>1, <3>1, <3>2, Constants DEF Numbers
  <2>3. Told(sample, watch)
    BY <1>1 DEF IInv, Shown
  <2>4. SUFFICES ASSUME ~outrun, ~watch.silent, ~(sample.seq <= first)
                 PROVE  (\E d \in Peers : has[d] >= monitor.handoff) \/ sample.seq < monitor.handoff
    <3>1. sample.seq \in Nat
      BY <1>3, Constants DEF Numbers
    <3>2. sample.seq <= first => sample.seq < monitor.handoff \/ monitor.handoff <= first
      BY <2>2, <3>1
    <3>. QED BY <2>1, <3>2
  <2>5. sample.noted # None /\ sample.seq <= sample.noted
    BY <1>1, <2>3, <2>4 DEF Told
  <2>6. PICK d \in Peers : has[d] >= sample.noted
    BY <1>1, <2>1, <2>3, <2>4, <2>5 DEF Told
  <2>7. has[d] >= monitor.handoff \/ sample.seq < monitor.handoff
    <3>1. sample.seq \in Nat /\ sample.noted \in Nat /\ has[d] \in Nat
      BY <1>3, <2>2, <2>5, Constants DEF Numbers
    <3>. QED BY <2>2, <2>5, <2>6, <3>1
  <2>. QED BY <2>7
<1>8. (monitor'.step = "complete") = (monitor'.taken # None)
  BY <1>3, <1>6
<1>9. monitor'.step = "watching" => monitor'.settled # Quorum
  BY <1>6
<1>. QED BY <1>1, <1>4, <1>6, <1>7, <1>8, <1>9, MonitorKeeps

LEMMA HandoffKeeps ==
  ASSUME IInv, Handoff
  PROVE  IInv'
<1>1. /\ Monitors /\ monitor.step = "watching" /\ monitor' = [monitor EXCEPT !.handoff = disk]
      /\ stop' = stop
  BY DEF Handoff
<1>2. monitor \in MonitorStates /\ disk \in Numbers /\ stop \in BOOLEAN
  BY DEF IInv, Typed, ShownTyped, FolderTyped, ThreadTyped
<1>3. /\ monitor' \in MonitorStates /\ monitor'.step = "watching" /\ monitor'.news = monitor.news
      /\ monitor'.taken = monitor.taken /\ monitor'.settled = monitor.settled
  BY <1>1, <1>2 DEF MonitorStates
<1>4. CompleteIsConfirmed'
  BY <1>3 DEF CompleteIsConfirmed
<1>5. /\ (monitor'.step = "complete") = (monitor'.taken # None)
      /\ monitor'.step = "watching" => monitor'.settled # Quorum
  BY <1>1, <1>3 DEF IInv, Shown
<1>. QED BY <1>1, <1>2, <1>3, <1>4, <1>5, MonitorKeeps

LEMMA GivesUpKeeps ==
  ASSUME IInv, GivesUp
  PROVE  IInv'
<1>1. /\ Monitors /\ monitor.step = "watching" /\ monitor' = [monitor EXCEPT !.step = "cancelled"]
      /\ stop' = TRUE
  BY DEF GivesUp
<1>2. monitor \in MonitorStates
  BY DEF IInv, Typed, ShownTyped
<1>3. /\ monitor' \in MonitorStates /\ monitor'.step = "cancelled" /\ monitor'.news = monitor.news
      /\ monitor'.taken = monitor.taken
  BY <1>1, <1>2 DEF MonitorStates
<1>4. CompleteIsConfirmed'
  BY <1>3 DEF CompleteIsConfirmed
<1>5. (monitor'.step = "complete") = (monitor'.taken # None)
  BY <1>1, <1>3 DEF IInv, Shown
<1>. QED BY <1>1, <1>3, <1>4, <1>5, MonitorKeeps
-----------------------------------------------------------------------------
(* The invariant, and what it implies                                      *)

LEMMA NoWatchIs ==
  /\ NoWatch \in Watches /\ NoWatch.seq = 0 /\ NoWatch.noted = None /\ ~NoWatch.silent
BY Constants DEF NoWatch, Watches, States, Numbers

LEMMA InitKeeps ==
  ASSUME Init
  PROVE  IInv
<1>1. FolderTyped
  <2>1. disk = 1 /\ index = 1 /\ has \in [Peers -> {0, 1}]
    BY DEF Init
  <2>2. disk \in Numbers /\ index \in Numbers /\ index <= disk /\ 1 <= index
          /\ has \in [Peers -> Numbers] /\ \A d \in Peers : has[d] <= index
    BY <2>1, Constants DEF Numbers
  <2>3. up \subseteq Peers /\ folder \in FolderStates /\ incoming \in BOOLEAN
    BY WatchAssumption DEF Init
  <2>. QED BY <2>2, <2>3 DEF FolderTyped
<1>2. QueueTyped
  <2>1. Len(<<>>) = 0 /\ <<>> \in Seq(Events) /\ 0 <= MaxQueue
    BY WatchAssumption
  <2>. QED BY <2>1 DEF Init, QueueTyped
<1>3. ThreadTyped
  <2>1. 0 \in 0..Confirmations
    BY Constants
  <2>. QED BY <2>1, NoWatchIs DEF Init, ThreadTyped
<1>4. monitor \in MonitorStates /\ sample = None /\ monitor.step = "watching" /\ ~monitor.news
        /\ monitor.taken = None /\ monitor.settled = 0
  <2>1. /\ sample = None
        /\ monitor = [step |-> "watching", ready |-> FALSE, seen |-> FALSE, settled |-> 0,
                      handoff |-> None, news |-> FALSE, taken |-> None]
    BY DEF Init
  <2>2. 0 \in 0..Quorum
    BY DEF Quorum
  <2>. QED BY <2>1, <2>2 DEF MonitorStates
<1>5. first = 0 /\ outrun = FALSE /\ index = 1 /\ watch = NoWatch
  BY DEF Init
<1>6. PastTyped
  <2>1. first = 0 /\ index = 1
    BY DEF Init
  <2>2. first \in Numbers /\ first <= index
    BY <2>1, Constants DEF Numbers
  <2>. QED BY <1>5, <2>2 DEF PastTyped
<1>7. Starting /\ Shown
  <2>1. Starting
    BY <1>4, <1>5, NoWatchIs DEF Starting
  <2>2. Quorum # 0
    BY DEF Quorum
  <2>3. CompleteIsConfirmed
    BY <1>4 DEF CompleteIsConfirmed
  <2>. QED BY <1>4, <2>1, <2>2, <2>3 DEF Shown
<1>8. Known
  BY <1>5, NoWatchIs DEF Known, KnownBy
<1>9. Queued /\ Believed
  <2>1. DOMAIN queue = {}
    <3>1. queue = <<>>
      BY DEF Init
    <3>. QED BY <3>1
  <2>2. watch.noted = None
    BY <1>5, NoWatchIs
  <2>. QED BY <2>1, <2>2 DEF Queued, Believed, GoodFrom
<1>. QED BY <1>1, <1>2, <1>3, <1>4, <1>6, <1>7, <1>8, <1>9 DEF IInv, Typed, ShownTyped

LEMMA StutterKeeps ==
  ASSUME IInv, UNCHANGED vars
  PROVE  IInv'
<1>1. /\ UNCHANGED <<disk, index, has, up, folder, incoming, queue, phase, pc, watch, connected,
                     streak, sample, stop, monitor, first, outrun>>
      /\ PostGame' <=> PostGame
  BY DEF vars, syncthingVars, watchVars, pastVars, PostGame
<1>2. Typed'
  BY <1>1 DEF IInv, Typed, FolderTyped, QueueTyped, ThreadTyped, ShownTyped, PastTyped
<1>3. Starting' /\ Known'
  BY <1>1 DEF IInv, Starting, Known, KnownBy
<1>4. Queued' /\ Believed'
  BY <1>1 DEF IInv, Queued, Believed, GoodFrom
<1>5. Shown'
  BY <1>1 DEF IInv, Shown, Told, CompleteIsConfirmed
<1>. QED BY <1>2, <1>3, <1>4, <1>5 DEF IInv

(* The types and the strengthening hold in every reachable state, whatever *)
(* the requests answer, lose and overtake.                                 *)
THEOREM SyncthingInvariant == Spec => []IInv
<1>1. Init => IInv
  BY InitKeeps
<1>2. IInv /\ [Next]_vars => IInv'
  BY RunWatchKeeps, SyncthingKeeps, PollKeeps, HandoffKeeps, GivesUpKeeps, StutterKeeps DEF Next
<1>. QED BY <1>1, <1>2, PTL DEF Spec

(* The watch, its sample and the monitor hold what their types say, for    *)
(* any number of peers, writes, confirmations and queued events.           *)
THEOREM TypeCorrect == Spec => []TypeOK
<1>1. IInv => TypeOK
  <2>. SUFFICES ASSUME IInv PROVE TypeOK
    OBVIOUS
  <2>. USE DEF IInv
  <2>1. {disk, index, first} \subseteq 0..MaxWrites + 1 /\ index <= disk
    BY DEF Typed, FolderTyped, PastTyped, Numbers
  <2>2. has \in [Peers -> 0..index]
    <3>1. has \in [Peers -> Numbers] /\ \A d \in Peers : has[d] <= index
      BY DEF Typed, FolderTyped
    <3>2. \A d \in Peers : has[d] \in 0..index
      BY <3>1, Constants DEF Numbers, Typed, FolderTyped
    <3>. QED BY <3>1, <3>2
  <2>3. /\ up \subseteq Peers /\ connected \subseteq Peers /\ folder \in FolderStates
        /\ incoming \in BOOLEAN /\ Len(queue) <= MaxQueue /\ phase \in Phases
        /\ streak \in 0..Confirmations /\ {stop, outrun} \subseteq BOOLEAN
        /\ pc \in {"first status", "cursor", "completions", "second status", "look", "status",
                   "read", "reload", "done"}
    BY DEF Typed, FolderTyped, QueueTyped, ThreadTyped, PastTyped
  <2>4. /\ watch.state \in FolderStates \cup {"unknown"} /\ watch.seq \in 0..MaxWrites + 1
        /\ watch.noted \in 1..MaxWrites + 1 \cup {None}
        /\ watch.peers \in [Peers -> Completions \cup {None}]
        /\ watch.fresh \subseteq {"change", "scan", "finished"}
        /\ watch.recent \subseteq Signals \cup {"index"}
        /\ watch.remote \subseteq Peers /\ {watch.need, watch.hold, watch.silent} \subseteq BOOLEAN
    <3>1. watch \in Watches
      BY DEF Typed, ThreadTyped
    <3>. QED BY <3>1 DEF Watches, States, Numbers
  <2>5. sample # None => sample.status \in {"activity", "failed", "stopped"}
    BY DEF Typed, ShownTyped, Samples, Ended
  <2>6. /\ monitor.step \in {"watching", "complete", "cancelled"} /\ monitor.settled \in 0..Quorum
        /\ (monitor.step = "complete") = (monitor.taken # None)
    BY DEF Typed, ShownTyped, MonitorStates, Shown
  <2>. QED BY <2>1, <2>2, <2>3, <2>4, <2>5, <2>6 DEF TypeOK
<1>. QED BY <1>1, SyncthingInvariant, PTL

(* A post-game sample that says nothing is being uploaded was published    *)
(* when some peer had every write up to the last mutation noted, unless a  *)
(* status overtook a completion.                                           *)
THEOREM UploadsBeforeQuiet == Spec => []UploadedBeforeQuiet
<1>1. IInv => UploadedBeforeQuiet
  BY DEF IInv, Shown, Told, UploadedBeforeQuiet
<1>. QED BY <1>1, SyncthingInvariant, PTL

(* SYNCTHING COMPLETE after a backup says that some peer has the backup,   *)
(* when it was indexed between the start of the watch and the last sample, *)
(* no status overtook a completion, and no summary or reload moved the     *)
(* sequence on unnoted.                                                    *)
THEOREM CompletesConfirmed == Spec => []CompleteIsConfirmed
<1>1. IInv => CompleteIsConfirmed
  BY DEF IInv, Shown
<1>. QED BY <1>1, SyncthingInvariant, PTL
=============================================================================
