------------------------------ MODULE FeedProofs ------------------------------
(***************************************************************************)
(* Proofs about ActivityFeed, for any number of watchers and activities    *)
(* and any overlap longer than the lag: what is recorded, what is emitted, *)
(* what is lost and by whom, and the measure that every pass runs down.    *)
(***************************************************************************)
EXTENDS ActivityFeed, WellFoundedInduction, TLAPS

(* A set of times has a latest one.                                         *)
LEMMA LatestExists ==
  ASSUME NEW S \in SUBSET Time, S # {}
  PROVE  /\ Max(S) \in S
         /\ \A y \in S : Max(S) >= y
  <1> DEFINE Bound == {n \in Nat : \A y \in S : n >= y}
  <1>1. MaxTime \in Bound
    BY TimeAssumption DEF Time
  <1>2. PICK m \in Bound : \A n \in Bound : ~(<<n, m>> \in OpToRel(<, Nat))
    BY <1>1, WFMin, NatLessThanWellFounded
  <1>3. \A n \in Bound : ~(n < m)
    BY <1>2 DEF OpToRel
  <1>4. m \in S
    <2>1. SUFFICES ASSUME m \notin S PROVE FALSE
      OBVIOUS
    <2>2. \A y \in S : y \in Nat /\ m > y
      BY <2>1, TimeAssumption DEF Time
    <2>3. m - 1 \in Bound
      BY <2>2
    <2> QED
      BY <1>3, <2>3
  <1>5. \A y \in S : m >= y
    OBVIOUS
  <1> QED
    BY <1>4, <1>5 DEF Max

-----------------------------------------------------------------------------
LEMMA InitType == Init => TypeOK
  <1>1. 0 \in Time /\ 1 \in Time \ {0}
    BY TimeAssumption DEF Time
  <1>2. NotWatching \in Watch
    BY <1>1 DEF NotWatching, Watch
  <1>3. 0 \in 0 .. 2
    OBVIOUS
  <1> QED
    BY <1>1, <1>2, <1>3 DEF Init, TypeOK

LEMMA SinceIsTime == \A t \in Time : SinceOverlap(t) \in Time
  BY TimeAssumption DEF SinceOverlap, Time

LEMMA HighestIsLatest ==
  ASSUME NEW high \in Time, NEW seen \in SUBSET Activity,
         created \in [Activity -> Time]
  PROVE  /\ Highest(high, seen) \in {high} \cup {created[a] : a \in seen}
         /\ Highest(high, seen) \in Time
         /\ Highest(high, seen) >= high
         /\ \A a \in seen : Highest(high, seen) >= created[a]
  <1> DEFINE S == {high} \cup {created[a] : a \in seen}
  <1>1. S \in SUBSET Time /\ S # {}
    OBVIOUS
  <1>2. Max(S) \in S /\ \A y \in S : Max(S) >= y
    BY <1>1, LatestExists
  <1>3. high \in S /\ \A a \in seen : created[a] \in S
    OBVIOUS
  <1>4. Highest(high, seen) = Max(S)
    BY DEF Highest
  <1> HIDE DEF S
  <1> QED
    BY <1>1, <1>2, <1>3, <1>4 DEF S

(* A watcher moves to v, or none does.                                      *)
LEMMA WatchMoves ==
  ASSUME watch \in [Watcher -> Watch], NEW w \in Watcher, NEW v \in Watch,
         watch' = [watch EXCEPT ![w] = v]
  PROVE  /\ watch' \in [Watcher -> Watch]
         /\ watch'[w] = v
         /\ \A x \in Watcher \ {w} : watch'[x] = watch[x]
  OBVIOUS

(* What each step of a watcher makes of its locals.                         *)
Moved(w, v) == watch' = [watch EXCEPT ![w] = v]

Fresh(label, once) ==
    [pc |-> label, once |-> once, ended |-> FALSE, last |-> FALSE, high |-> 0,
     since |-> 0, seen |-> {}, out |-> {}, due |-> {}]

LEMMA FreshIsWatch ==
  ASSUME NEW label \in {"off", "poll", "cursor"}, NEW once \in BOOLEAN
  PROVE  Fresh(label, once) \in Watch
  BY TimeAssumption DEF Fresh, Watch, Time

LEMMA StartsFresh ==
  ASSUME NEW w \in Watcher, TypeOK,
         StartWatch(w) \/ StartReconcile(w) \/ Quit(w) \/ Crash(w)
  PROVE  /\ \/ Moved(w, Fresh("poll", FALSE))
            \/ Moved(w, Fresh("cursor", TRUE))
            \/ Moved(w, Fresh("off", FALSE))
         /\ UNCHANGED <<remoteVars, receipts, cursor, emitted>>
  BY DEF StartWatch, StartReconcile, Quit, Crash, Moved, Fresh, NotWatching

LEMMA TypeStep == TypeOK /\ [Next]_vars => TypeOK'
  <1> SUFFICES ASSUME TypeOK, [Next]_vars PROVE TypeOK'
    OBVIOUS
  <1> USE DEF TypeOK
  <1>0. ASSUME NEW w \in Watcher, NEW v \in Watch, Moved(w, v)
        PROVE  watch' \in [Watcher -> Watch]
    BY <1>0 DEF Moved
  <1>a. \A w \in Watcher : watch[w] \in Watch
    OBVIOUS
  <1>1. ASSUME NEW w \in Watcher,
               StartWatch(w) \/ StartReconcile(w) \/ Quit(w) \/ Crash(w)
        PROVE  TypeOK'
    BY <1>0, <1>1, StartsFresh, FreshIsWatch DEF remoteVars
  <1>2. ASSUME NEW w \in Watcher, Poll(w) \/ ReadRest(w) \/ EndPass(w)
        PROVE  TypeOK'
    <2>1. [watch[w] EXCEPT !.pc = "cursor", !.ended = terminal] \in Watch
      BY <1>a DEF Watch
    <2>2. [watch[w] EXCEPT !.pc = "emit"] \in Watch
      BY <1>a DEF Watch
    <2> DEFINE v == watch[w]
               label == AfterPass(v)
               due == IF v.ended /\ ~v.last THEN visible ELSE v.due
    <2>3. label \in {"off", "done", "cursor", "poll"}
      BY <1>a DEF AfterPass, Watch
    <2>4. due \subseteq Activity /\ v.ended \in BOOLEAN
      BY <1>a DEF Watch
    <2>5. EndPass(w) => Moved(w, [v EXCEPT !.pc = label, !.once = FALSE,
                                           !.last = v.ended, !.due = due])
      BY DEF EndPass, Moved
    <2> HIDE DEF label, due
    <2>6. [v EXCEPT !.pc = label, !.once = FALSE, !.last = v.ended, !.due = due]
            \in Watch
      BY <1>a, <2>3, <2>4 DEF Watch
    <2>7. watch' \in [Watcher -> Watch]
      BY <1>0, <1>2, <2>1, <2>2, <2>5, <2>6 DEF Poll, ReadRest, Moved
    <2> QED
      BY <1>2, <2>7 DEF Poll, ReadRest, EndPass, remoteVars
  <1>3. ASSUME NEW w \in Watcher, ReadCursor(w) PROVE TypeOK'
    <2> DEFINE since == SinceOverlap(cursor)
    <2>1. since \in Time
      BY SinceIsTime
    <2>2. Moved(w, [watch[w] EXCEPT !.pc = "list", !.high = cursor, !.since = since])
      BY <1>3 DEF ReadCursor, Moved
    <2> HIDE DEF since
    <2>3. [watch[w] EXCEPT !.pc = "list", !.high = cursor, !.since = since] \in Watch
      BY <1>a, <2>1 DEF Watch
    <2> QED
      BY <1>0, <1>3, <2>2, <2>3 DEF ReadCursor, remoteVars
  <1>4. ASSUME NEW w \in Watcher, ListActivities(w) PROVE TypeOK'
    <2>1. PICK seen \in SUBSET visible :
            Moved(w, [watch[w] EXCEPT !.pc = "commit", !.seen = seen])
      BY <1>4 DEF ListActivities, Moved
    <2>2. [watch[w] EXCEPT !.pc = "commit", !.seen = seen] \in Watch
      BY <1>a DEF Watch
    <2> QED
      BY <1>0, <1>4, <2>1, <2>2 DEF ListActivities, remoteVars
  <1>5. ASSUME NEW w \in Watcher, Commit(w) PROVE TypeOK'
    <2> DEFINE v == watch[w]
               label == IF v.once THEN "rest" ELSE "emit"
               out == v.seen \ receipts
               next == [v EXCEPT !.pc = label, !.seen = {}, !.high = 0, !.since = 0,
                                 !.out = out]
    <2>1. v.high \in Time /\ v.seen \in SUBSET Activity
      BY <1>a DEF Watch
    <2>2. Highest(v.high, v.seen) \in Time
      BY <2>1, HighestIsLatest
    <2>3. Moved(w, next)
      BY <1>5 DEF Commit, Moved, NewNames
    <2>4. label \in {"rest", "emit"} /\ out \in SUBSET Activity /\ 0 \in Time
      BY <2>1, TimeAssumption DEF Time
    <2> HIDE DEF label, out
    <2>5. next \in Watch
      BY <1>a, <2>4 DEF Watch
    <2> HIDE DEF next
    <2>6. watch' \in [Watcher -> Watch]
      BY <1>0, <2>3, <2>5
    <2> QED
      BY <1>5, <2>1, <2>2, <2>6 DEF Commit, remoteVars
  <1>6. ASSUME NEW w \in Watcher, Emit(w) PROVE TypeOK'
    <2> DEFINE a == First(watch[w].out)
    <2>1. Moved(w, [watch[w] EXCEPT !.out = @ \ {a}])
      BY <1>6 DEF Emit, Moved
    <2>2. emitted' = [emitted EXCEPT ![a] = IF @ < 2 THEN @ + 1 ELSE @]
      BY <1>6 DEF Emit
    <2> HIDE DEF a
    <2>3. [watch[w] EXCEPT !.out = @ \ {a}] \in Watch
      BY <1>a DEF Watch
    <2>4. \A n \in 0 .. 2 : (IF n < 2 THEN n + 1 ELSE n) \in 0 .. 2
      OBVIOUS
    <2>5. emitted' \in [Activity -> 0 .. 2]
      BY <2>2, <2>4
    <2> QED
      BY <1>0, <1>6, <2>1, <2>3, <2>5 DEF Emit, remoteVars
  <1>7. ASSUME NEW a \in Activity, Create(a) \/ Show(a) PROVE TypeOK'
    BY <1>7 DEF Create, Show
  <1>8. ASSUME Tick \/ SessionEnds PROVE TypeOK'
    <2>1. Tick => clock' \in Time \ {0}
      BY TimeAssumption DEF Tick, Time
    <2> QED
      BY <1>8, <2>1 DEF Tick, SessionEnds
  <1>9. ASSUME UNCHANGED vars PROVE TypeOK'
    BY <1>9 DEF vars
  <1> HIDE DEF TypeOK
  <1> QED
    BY <1>1, <1>2, <1>3, <1>4, <1>5, <1>6, <1>7, <1>8, <1>9 DEF Next, Step

(* Every variable keeps its type.                                           *)
THEOREM TypeCorrect == Spec => []TypeOK
  BY InitType, TypeStep, PTL DEF Spec

-----------------------------------------------------------------------------
LEMMA LeastExists ==
  ASSUME NEW S \in SUBSET Nat, S # {}
  PROVE  \E x \in S : \A y \in S : x <= y
  <1>1. PICK x \in S : \A y \in S : ~(<<y, x>> \in OpToRel(<, Nat))
    BY WFMin, NatLessThanWellFounded
  <1>2. \A y \in S : ~(y < x)
    BY <1>1 DEF OpToRel
  <1> QED
    BY <1>2

(* The event that goes out next is one of those still to go out.            *)
LEMMA FirstIsOne ==
  ASSUME TypeOK, NEW S \in SUBSET Activity, S # {}
  PROVE  First(S) \in S
  <1> DEFINE Times == {created[a] : a \in S}
             Earliest(t) == {a \in S : created[a] = t}
  <1>0. \A a \in S : created[a] \in Nat /\ a \in Nat
    BY TimeAssumption, ActivityAssumption DEF TypeOK, Time
  <1>1. Times \in SUBSET Nat /\ Times # {}
    BY <1>0
  <1>2. PICK t \in Times : \A u \in Times : t <= u
    <2> HIDE DEF Times
    <2> QED
      BY <1>1, LeastExists
  <1>3. Earliest(t) \in SUBSET Nat /\ Earliest(t) # {}
    BY <1>0
  <1>4. PICK a \in Earliest(t) : \A b \in Earliest(t) : a <= b
    <2> HIDE DEF Earliest
    <2> QED
      BY <1>3, LeastExists
  <1>5. \A b \in S : t <= created[b]
    BY <1>2
  <1>6. \A b \in S : created[a] < created[b] \/ (created[a] = created[b] /\ a <= b)
    BY <1>0, <1>4, <1>5
  <1> QED
    BY <1>6 DEF First

(* Who may still emit an activity: nobody before it is recorded; then at    *)
(* most the one watcher whose transaction recorded it; nobody after that.   *)
EmissionOK ==
    /\ \A w \in Watcher : watch[w].out \subseteq receipts
    /\ \A w \in Watcher : \A a \in watch[w].out : emitted[a] = 0
    /\ \A w, x \in Watcher : w # x => watch[w].out \cap watch[x].out = {}
    /\ \A a \in Activity : emitted[a] <= 1 /\ (emitted[a] # 0 => a \in receipts)

LEMMA InitEmission == Init => EmissionOK
  BY DEF Init, EmissionOK, NotWatching

LEMMA EmissionStep == TypeOK /\ EmissionOK /\ [Next]_vars => EmissionOK'
  <1> SUFFICES ASSUME TypeOK, EmissionOK, [Next]_vars PROVE EmissionOK'
    OBVIOUS
  <1>a. /\ watch \in [Watcher -> Watch]
        /\ \A w \in Watcher : watch[w] \in Watch /\ watch[w].out \subseteq Activity
                                /\ watch[w].seen \subseteq Activity
        /\ emitted \in [Activity -> 0 .. 2]
        /\ receipts \subseteq Activity
    BY DEF TypeOK, Watch
  <1>0. ASSUME NEW w \in Watcher, UNCHANGED <<receipts, emitted>>,
               watch'[w].out = {} \/ watch'[w].out = watch[w].out,
               \A x \in Watcher \ {w} : watch'[x] = watch[x]
        PROVE  EmissionOK'
    BY <1>0 DEF EmissionOK
  <1>1. ASSUME NEW w \in Watcher,
               StartWatch(w) \/ StartReconcile(w) \/ Quit(w) \/ Crash(w)
        PROVE  EmissionOK'
    BY <1>0, <1>1, <1>a, StartsFresh DEF Moved, Fresh
  <1>2. ASSUME NEW w \in Watcher,
               \/ Poll(w) \/ ReadRest(w) \/ EndPass(w) \/ ReadCursor(w)
               \/ ListActivities(w)
        PROVE  EmissionOK'
    <2>1. /\ watch'[w].out = watch[w].out
          /\ \A x \in Watcher \ {w} : watch'[x] = watch[x]
      BY <1>2, <1>a DEF Poll, ReadRest, EndPass, ReadCursor, ListActivities, Watch
    <2> QED
      BY <1>0, <1>2, <2>1 DEF Poll, ReadRest, EndPass, ReadCursor, ListActivities
  <1>3. ASSUME NEW w \in Watcher, Commit(w) PROVE EmissionOK'
    <2> DEFINE out == watch[w].seen \ receipts
    <2>1. /\ watch'[w].out = out
          /\ \A x \in Watcher \ {w} : watch'[x] = watch[x]
          /\ receipts' = receipts \cup watch[w].seen
          /\ UNCHANGED emitted
      BY <1>3, <1>a DEF Commit, NewNames, Watch
    <2> QED
      BY <1>a, <2>1 DEF EmissionOK
  <1>4. ASSUME NEW w \in Watcher, Emit(w) PROVE EmissionOK'
    <2> DEFINE a == First(watch[w].out)
    <2>1. a \in watch[w].out
      BY <1>4, <1>a, FirstIsOne DEF Emit
    <2>2. /\ watch'[w].out = watch[w].out \ {a}
          /\ \A x \in Watcher \ {w} : watch'[x] = watch[x]
          /\ emitted' = [emitted EXCEPT ![a] = IF @ < 2 THEN @ + 1 ELSE @]
          /\ UNCHANGED receipts
      BY <1>4, <1>a DEF Emit, Watch
    <2> HIDE DEF a
    <2>3. emitted[a] = 0 /\ a \in Activity /\ a \in receipts
      BY <1>a, <2>1 DEF EmissionOK
    <2>4. emitted' = [emitted EXCEPT ![a] = 1]
      BY <2>2, <2>3
    <2> QED
      BY <1>a, <2>1, <2>2, <2>3, <2>4 DEF EmissionOK
  <1>5. ASSUME NEW a \in Activity, Create(a) \/ Show(a) PROVE EmissionOK'
    BY <1>5 DEF Create, Show, EmissionOK
  <1>6. ASSUME Tick \/ SessionEnds \/ UNCHANGED vars PROVE EmissionOK'
    BY <1>6 DEF Tick, SessionEnds, vars, EmissionOK
  <1> QED
    BY <1>1, <1>2, <1>3, <1>4, <1>5, <1>6 DEF Next, Step

(* No activity is emitted twice, whatever watchers overlap, crash and       *)
(* restart.                                                                 *)
THEOREM EmitsOnce == Spec => []EmittedOnce
  <1>1. EmissionOK => EmittedOnce
    BY DEF EmissionOK, EmittedOnce
  <1> QED
    BY <1>1, InitType, InitEmission, TypeStep, EmissionStep, PTL DEF Spec

-----------------------------------------------------------------------------
(* The activities nobody recorded, and those a pass that has listed will    *)
(* not record either.                                                       *)
Unrecorded == {a \in Activity : created[a] # 0 /\ a \notin receipts}

(* What Jules guarantees, and where the shared cursor may stand.            *)
FeedOK ==
    /\ cursor <= clock
    /\ \A a \in Activity : created[a] <= clock
    /\ \A a \in visible : created[a] # 0
    /\ receipts \subseteq visible
    /\ \A a \in Activity \ visible : created[a] # 0 => clock <= created[a] + Lag
    /\ NothingBehindCursor

(* What a watcher relies on at each label: its filter lies before all that  *)
(* is unrecorded, and so does the cursor it will write, once it has listed; *)
(* what was listed when the settle time began is recorded by the last pass. *)
WatchOK(v) ==
    /\ v.high <= clock /\ v.since < clock
    /\ v.seen \subseteq visible /\ v.due \subseteq visible
    /\ v.once => ~v.ended
    /\ v.last => v.ended
    /\ v.pc = "poll" => ~v.last /\ ~v.once
    /\ v.pc = "done" => v.last
    /\ v.pc = "list" => \A a \in Unrecorded : created[a] > v.since
    /\ v.pc = "commit" =>
         /\ \A a \in Unrecorded \ v.seen :
              created[a] > SinceOverlap(Highest(v.high, v.seen))
         /\ v.last => v.due \subseteq receipts \cup v.seen
    /\ v.pc \in {"rest", "emit", "done"} => (v.last => v.due \subseteq receipts)

CursorInv == FeedOK /\ \A w \in Watcher : WatchOK(watch[w])

LEMMA FreshIsOK ==
  ASSUME TypeOK, NEW label \in {"off", "poll", "cursor"}, NEW once \in BOOLEAN,
         label = "poll" => ~once
  PROVE  WatchOK(Fresh(label, once))
  BY DEF WatchOK, Fresh, TypeOK, Time

LEMMA InitCursor == Init => CursorInv
  <1>1. Init => FeedOK
    BY DEF Init, FeedOK, NothingBehindCursor
  <1>2. Init => \A w \in Watcher : watch[w] = Fresh("off", FALSE)
    BY DEF Init, NotWatching, Fresh
  <1> QED
    BY <1>1, <1>2, InitType, FreshIsOK DEF CursorInv

(* The filter lies before the time it is computed from.                     *)
LEMMA OverlapLeads ==
  ASSUME NEW t \in Nat, Overlap > 0
  PROVE  /\ \A c \in Nat : c > 0 /\ c >= t => SinceOverlap(t) < c
         /\ \A c \in Nat : c > 0 /\ c + Lag >= t /\ Lag < Overlap
                              => SinceOverlap(t) < c
  BY TimeAssumption DEF SinceOverlap

(* The highest listed time does not depend on activities that were not      *)
(* listed.                                                                  *)
LEMMA HighestUnmoved ==
  ASSUME NEW high, NEW seen, \A a \in seen : created'[a] = created[a]
  PROVE  Highest(high, seen)' = Highest(high, seen)
  <1>1. {created'[a] : a \in seen} = {created[a] : a \in seen}
    OBVIOUS
  <1> QED
    BY <1>1 DEF Highest

(* A step of one watcher that touches neither Jules nor the store.          *)
LEMMA OneWatcher ==
  ASSUME TypeOK, CursorInv, UNCHANGED <<remoteVars, receipts, cursor>>,
         NEW w \in Watcher, WatchOK(watch'[w]),
         \A x \in Watcher \ {w} : watch'[x] = watch[x]
  PROVE  CursorInv'
  <1>1. FeedOK'
    BY DEF CursorInv, FeedOK, NothingBehindCursor, remoteVars
  <1>2. ASSUME NEW v, WatchOK(v)
        PROVE  WatchOK(v)'
    BY <1>2 DEF WatchOK, Unrecorded, remoteVars, Highest
  <1>3. \A x \in Watcher : WatchOK(watch'[x])
    BY DEF CursorInv
  <1>4. \A x \in Watcher : WatchOK(watch[x])'
    BY <1>2, <1>3 DEF WatchOK, Unrecorded, remoteVars, Highest
  <1> QED
    BY <1>1, <1>4 DEF CursorInv

LEMMA HighestIsPast ==
  ASSUME TypeOK, CursorInv, NEW high \in Time, high <= clock,
         NEW seen \in SUBSET Activity
  PROVE  Highest(high, seen) \in Time /\ Highest(high, seen) <= clock
  <1>1. /\ Highest(high, seen) \in {high} \cup {created[a] : a \in seen}
        /\ Highest(high, seen) \in Time
    BY HighestIsLatest DEF TypeOK
  <1>2. \A a \in seen : created[a] <= clock
    BY DEF CursorInv, FeedOK
  <1> QED
    BY <1>1, <1>2

LEMMA CursorStep ==
  ASSUME Lag < Overlap, TypeOK, TypeOK', CursorInv, [Next]_vars
  PROVE  CursorInv'
  <1>a. /\ \A w \in Watcher : watch[w] \in Watch /\ WatchOK(watch[w])
        /\ clock \in Nat /\ clock > 0 /\ cursor \in Time /\ cursor \in Nat
        /\ \A a \in Activity : created[a] \in Time /\ created[a] \in Nat
        /\ Overlap \in Nat /\ Lag \in Nat /\ Overlap > 0
        /\ watch \in [Watcher -> Watch]
    BY TimeAssumption DEF TypeOK, Time, CursorInv
  <1>b. \A t \in Time : SinceOverlap(t) \in Nat
    BY SinceIsTime, TimeAssumption DEF Time
  <1>1. ASSUME NEW w \in Watcher,
               StartWatch(w) \/ StartReconcile(w) \/ Quit(w) \/ Crash(w)
        PROVE  CursorInv'
    <2>1. PICK label \in {"off", "poll", "cursor"}, once \in BOOLEAN :
            (label = "poll" => ~once) /\ Moved(w, Fresh(label, once))
      BY <1>1, StartsFresh
    <2>2. WatchOK(Fresh(label, once))
      BY <2>1, FreshIsOK
    <2> QED
      BY <1>1, <1>a, <2>1, <2>2, OneWatcher, StartsFresh DEF Moved
  <1>2. ASSUME NEW w \in Watcher, Poll(w) PROVE CursorInv'
    <2> DEFINE v == watch[w]
    <2>1. Moved(w, [v EXCEPT !.pc = "cursor", !.ended = terminal]) /\ v.pc = "poll"
      BY <1>2 DEF Poll, Moved, At
    <2>2. WatchOK([v EXCEPT !.pc = "cursor", !.ended = terminal])
      BY <1>a, <2>1 DEF WatchOK, Watch
    <2> QED
      BY <1>2, <1>a, <2>1, <2>2, OneWatcher DEF Poll, Moved
  <1>3. ASSUME NEW w \in Watcher, ReadCursor(w) PROVE CursorInv'
    <2> DEFINE v == watch[w]
               since == SinceOverlap(cursor)
    <2>1. Moved(w, [v EXCEPT !.pc = "list", !.high = cursor, !.since = since])
      BY <1>3 DEF ReadCursor, Moved
    <2>2. since < clock
      BY <1>a, OverlapLeads DEF CursorInv, FeedOK
    <2>3. \A a \in Unrecorded : created[a] > since
      BY DEF CursorInv, FeedOK, NothingBehindCursor, Unrecorded
    <2>4. cursor <= clock
      BY DEF CursorInv, FeedOK
    <2> HIDE DEF since
    <2>5. WatchOK([v EXCEPT !.pc = "list", !.high = cursor, !.since = since])
      BY <1>a, <2>2, <2>3, <2>4 DEF WatchOK, Watch
    <2>6. UNCHANGED <<remoteVars, receipts, cursor>>
      BY <1>3 DEF ReadCursor
    <2>7. /\ WatchOK(watch'[w])
          /\ \A x \in Watcher \ {w} : watch'[x] = watch[x]
      BY <1>a, <2>1, <2>5 DEF Moved
    <2> QED
      BY <2>6, <2>7, OneWatcher
  <1>4. ASSUME NEW w \in Watcher, ListActivities(w) PROVE CursorInv'
    <2> DEFINE v == watch[w]
    <2>1. PICK seen \in SUBSET visible :
            /\ \A a \in visible : created[a] > v.since => a \in seen
            /\ Moved(w, [v EXCEPT !.pc = "commit", !.seen = seen])
      BY <1>4 DEF ListActivities, Moved
    <2>2. v.high \in Time /\ v.since \in Time /\ v.pc = "list" /\ WatchOK(v)
          /\ seen \subseteq Activity
      BY <1>4, <1>a DEF ListActivities, At, Watch, TypeOK
    <2> DEFINE latest == Highest(v.high, seen)
    <2>3. latest \in Time /\ latest <= clock
      BY <2>2, HighestIsPast DEF WatchOK
    <2> HIDE DEF latest
    <2>4. ASSUME NEW a \in Unrecorded \ seen
          PROVE  created[a] > SinceOverlap(latest)
      <3>1. created[a] > v.since /\ a \in Activity /\ created[a] # 0
        BY <2>2 DEF WatchOK, Unrecorded
      <3>2. a \notin visible
        BY <2>1, <2>4, <3>1
      <3>3. clock <= created[a] + Lag
        BY <3>1, <3>2 DEF CursorInv, FeedOK
      <3>4. latest \in Nat /\ created[a] + Lag >= latest
        BY <1>a, <2>3, <3>1, <3>3 DEF Time
      <3>5. SinceOverlap(latest) < created[a]
        BY <1>a, <3>1, <3>4, OverlapLeads
      <3> QED
        BY <1>a, <1>b, <2>3, <3>1, <3>5
    <2>5. v.due \subseteq receipts \cup seen
      BY <1>a, <2>1, <2>2 DEF WatchOK, Unrecorded, CursorInv, FeedOK, TypeOK
    <2>6. WatchOK([v EXCEPT !.pc = "commit", !.seen = seen])
      BY <1>a, <2>2, <2>4, <2>5 DEF WatchOK, Watch, latest
    <2> QED
      BY <1>4, <1>a, <2>1, <2>6, OneWatcher DEF ListActivities, Moved
  <1>5. ASSUME NEW w \in Watcher, ReadRest(w) PROVE CursorInv'
    <2>1. Moved(w, [watch[w] EXCEPT !.pc = "emit"]) /\ watch[w].pc = "rest"
      BY <1>5 DEF ReadRest, Moved, At
    <2>2. WatchOK([watch[w] EXCEPT !.pc = "emit"])
      BY <1>a, <2>1 DEF WatchOK, Watch
    <2> QED
      BY <1>5, <1>a, <2>1, <2>2, OneWatcher DEF ReadRest, Moved
  <1>6. ASSUME NEW w \in Watcher, EndPass(w) PROVE CursorInv'
    <2> DEFINE v == watch[w]
               label == AfterPass(v)
               due == IF v.ended /\ ~v.last THEN visible ELSE v.due
               next == [v EXCEPT !.pc = label, !.once = FALSE, !.last = v.ended,
                                 !.due = due]
    <2>1. Moved(w, next) /\ v.pc = "emit"
      BY <1>6 DEF EndPass, Moved, At
    <2>2. /\ v.once => label = "off"
          /\ ~v.once /\ v.last => label = "done"
          /\ ~v.once /\ ~v.last /\ v.ended => label = "cursor"
          /\ ~v.once /\ ~v.last /\ ~v.ended => label = "poll"
      BY <1>a DEF WatchOK, AfterPass
    <2>3. due \subseteq visible /\ (label = "done" => due = v.due /\ v.last)
      BY <1>a, <2>2 DEF WatchOK, Watch
    <2>4. label \in {"off", "done", "cursor", "poll"}
      BY <1>a, <2>2 DEF Watch
    <2> HIDE DEF label, due
    <2>5. /\ next.pc = label /\ next.once = FALSE /\ next.last = v.ended
          /\ next.due = due /\ next.ended = v.ended /\ next.high = v.high
          /\ next.since = v.since /\ next.seen = v.seen
      BY <1>a DEF Watch
    <2> HIDE DEF next
    <2>6. WatchOK(next)
      BY <1>a, <2>1, <2>2, <2>3, <2>4, <2>5 DEF WatchOK, Watch
    <2>7. watch'[w] = next /\ \A x \in Watcher \ {w} : watch'[x] = watch[x]
      BY <1>a, <2>1 DEF Moved
    <2>8. UNCHANGED <<remoteVars, receipts, cursor>>
      BY <1>6 DEF EndPass
    <2> QED
      BY <2>6, <2>7, <2>8, OneWatcher
  <1>7. ASSUME NEW w \in Watcher, Emit(w) PROVE CursorInv'
    <2> DEFINE out == watch[w].out \ {First(watch[w].out)}
    <2>1. Moved(w, [watch[w] EXCEPT !.out = out]) /\ watch[w].pc = "emit"
      BY <1>7 DEF Emit, Moved, At
    <2> HIDE DEF out
    <2>2. WatchOK([watch[w] EXCEPT !.out = out])
      BY <1>a, <2>1 DEF WatchOK, Watch
    <2> QED
      BY <1>7, <1>a, <2>1, <2>2, OneWatcher DEF Emit, Moved
  <1>8. ASSUME NEW w \in Watcher, Commit(w) PROVE CursorInv'
    <2> DEFINE v == watch[w]
               latest == Highest(v.high, v.seen)
               label == IF v.once THEN "rest" ELSE "emit"
               out == v.seen \ receipts
               next == [v EXCEPT !.pc = label, !.seen = {}, !.high = 0, !.since = 0,
                                 !.out = out]
    <2>1. v.high \in Time /\ v.seen \subseteq Activity /\ v.pc = "commit" /\ WatchOK(v)
      BY <1>8, <1>a DEF Commit, At, Watch
    <2>2. latest \in Time /\ latest <= clock
      BY <2>1, HighestIsPast DEF WatchOK
    <2>3. /\ Moved(w, next)
          /\ receipts' = receipts \cup v.seen
          /\ cursor' = IF latest = 0 THEN cursor ELSE latest
          /\ UNCHANGED remoteVars
      BY <1>8 DEF Commit, Moved, NewNames
    <2>4. \A a \in Unrecorded \ v.seen : created[a] > SinceOverlap(latest)
      BY <2>1 DEF WatchOK
    <2>5. Unrecorded' = Unrecorded \ v.seen
      BY <2>3 DEF Unrecorded, remoteVars
    <2> HIDE DEF latest
    <2>6. \A a \in Unrecorded' : created[a] > SinceOverlap(cursor')
      BY <2>3, <2>4, <2>5 DEF CursorInv, FeedOK, NothingBehindCursor, Unrecorded
    <2>7. /\ cursor' <= clock' /\ receipts' \subseteq visible'
      BY <2>1, <2>2, <2>3 DEF CursorInv, FeedOK, WatchOK, remoteVars
    <2>8. NothingBehindCursor'
      BY <2>3, <2>6 DEF NothingBehindCursor, Unrecorded, remoteVars
    <2>9. FeedOK'
      BY <2>3, <2>7, <2>8 DEF CursorInv, FeedOK, remoteVars
    <2> HIDE DEF label, out
    <2>10. /\ next.pc = label /\ next.once = v.once /\ next.last = v.last
           /\ next.due = v.due /\ next.ended = v.ended /\ next.high = 0
           /\ next.since = 0 /\ next.seen = {}
      BY <1>a DEF Watch
    <2>11. label \in {"rest", "emit"}
      BY DEF label
    <2> HIDE DEF next
    <2>12. watch'[w] = next
      BY <1>a, <2>3 DEF Moved
    <2>13. ASSUME NEW x \in Watcher \ {w}
           PROVE  WatchOK(watch[x])'
      <3>1. watch'[x] = watch[x] /\ WatchOK(watch[x])
        BY <1>a, <2>3 DEF Moved
      <3>2. Highest(watch[x].high, watch[x].seen)' = Highest(watch[x].high, watch[x].seen)
        BY <2>3, <3>1 DEF Highest, remoteVars
      <3> QED
        BY <2>3, <2>5, <3>1, <3>2 DEF WatchOK, remoteVars
    <2>14. WatchOK(watch[w])'
      BY <1>a, <2>1, <2>3, <2>10, <2>11, <2>12 DEF WatchOK, remoteVars
    <2> QED
      BY <2>9, <2>13, <2>14 DEF CursorInv
  <1>9. ASSUME NEW a \in Activity, Create(a) PROVE CursorInv'
    <2>1. /\ created[a] = 0 /\ a \notin visible
          /\ created' = [created EXCEPT ![a] = clock]
          /\ UNCHANGED <<clock, visible, receipts, cursor, watch>>
      BY <1>9 DEF Create, CursorInv, FeedOK
    <2>2. \A b \in Activity : created'[b] = IF b = a THEN clock ELSE created[b]
      BY <2>1 DEF TypeOK
    <2>3. SinceOverlap(cursor) < clock
      BY <1>a, OverlapLeads DEF CursorInv, FeedOK
    <2>4. NothingBehindCursor'
      BY <1>a, <1>b, <2>1, <2>2, <2>3
      DEF CursorInv, FeedOK, NothingBehindCursor, SinceOverlap
    <2>5. FeedOK'
      BY <1>a, <2>1, <2>2, <2>4 DEF CursorInv, FeedOK
    <2>6. Unrecorded' \subseteq Unrecorded \cup {a}
      BY <2>1, <2>2 DEF Unrecorded
    <2>7. ASSUME NEW x \in Watcher PROVE WatchOK(watch[x])'
      <3> DEFINE v == watch[x]
                 latest == Highest(v.high, v.seen)
      <3>1. watch'[x] = v /\ WatchOK(v) /\ v.seen \subseteq Activity /\ v.high \in Time
            /\ v.since \in Time
        BY <1>a, <2>1 DEF Watch
      <3>2. \A b \in v.seen : created'[b] = created[b]
        BY <2>1, <2>2, <3>1 DEF WatchOK
      <3>3. Highest(v.high, v.seen)' = latest
        BY <2>1, <3>2, HighestUnmoved DEF Highest
      <3>4. latest \in Time /\ latest <= clock
        BY <3>1, HighestIsPast DEF WatchOK
      <3> HIDE DEF latest
      <3>5. SinceOverlap(latest) < clock
        BY <1>a, <3>4, OverlapLeads DEF Time
      <3>6. v.pc = "list" => \A b \in Unrecorded' : created'[b] > v.since
        BY <1>a, <2>1, <2>2, <2>6, <3>1 DEF WatchOK, Time
      <3>7. v.pc = "commit" =>
              \A b \in Unrecorded' \ v.seen : created'[b] > SinceOverlap(latest)
        BY <1>a, <1>b, <2>1, <2>2, <2>6, <3>1, <3>4, <3>5 DEF WatchOK, latest
      <3> QED
        BY <2>1, <3>1, <3>3, <3>6, <3>7 DEF WatchOK
    <2> QED
      BY <2>5, <2>7 DEF CursorInv
  <1>10. ASSUME (\E a \in Activity : Show(a)) \/ Tick \/ SessionEnds \/ UNCHANGED vars
         PROVE  CursorInv'
    <2>1. /\ UNCHANGED <<created, receipts, cursor, watch>>
          /\ visible \subseteq visible' /\ clock' >= clock
      BY <1>10, <1>a DEF Show, Tick, SessionEnds, vars
    <2>2. \A a \in visible' : created[a] # 0
      BY <1>10 DEF Show, Tick, SessionEnds, vars, CursorInv, FeedOK
    <2>3. \A a \in Activity \ visible' : created[a] # 0 => clock' <= created[a] + Lag
      BY <1>10, <1>a DEF Show, Tick, SessionEnds, vars, CursorInv, FeedOK
    <2>4. clock' \in Nat
      BY TimeAssumption DEF TypeOK, Time
    <2>5. FeedOK'
      BY <1>a, <2>1, <2>2, <2>3, <2>4 DEF CursorInv, FeedOK, NothingBehindCursor, SinceOverlap
    <2>6. ASSUME NEW x \in Watcher PROVE WatchOK(watch[x])'
      <3>1. watch'[x] = watch[x] /\ WatchOK(watch[x]) /\ Unrecorded' = Unrecorded
            /\ watch[x].high \in Nat /\ watch[x].since \in Nat
        BY <1>a, <2>1, TimeAssumption DEF Unrecorded, Watch, Time
      <3>2. Highest(watch[x].high, watch[x].seen)' = Highest(watch[x].high, watch[x].seen)
        BY <2>1 DEF Highest
      <3> QED
        BY <1>a, <2>1, <2>4, <3>1, <3>2 DEF WatchOK
    <2> QED
      BY <2>5, <2>6 DEF CursorInv
  <1> QED
    BY <1>1, <1>2, <1>3, <1>4, <1>5, <1>6, <1>7, <1>8, <1>9, <1>10 DEF Next, Step

(* When the overlap is longer than the time a new activity may stay out of  *)
(* listings, no filtered listing skips an activity nobody recorded, however *)
(* many watchers write the cursor from stale positions.                     *)
THEOREM CursorSkipsNothing ==
  ASSUME Lag < Overlap
  PROVE  Spec => []NothingBehindCursor
  <1>1. CursorInv => NothingBehindCursor
    BY DEF CursorInv, FeedOK
  <1>2. TypeOK /\ CursorInv /\ [Next]_vars => TypeOK' /\ CursorInv'
    BY TypeStep, CursorStep
  <1> QED
    BY <1>1, <1>2, InitType, InitCursor, PTL DEF Spec

(* Under the same proviso the terminal event follows the recording of all   *)
(* that was listed when the settle time began.                              *)
THEOREM FinalReadIsComplete ==
  ASSUME Lag < Overlap
  PROVE  Spec => []FinalReadComplete
  <1>1. CursorInv => FinalReadComplete
    BY DEF CursorInv, WatchOK, FinalReadComplete, At
  <1>2. TypeOK /\ CursorInv /\ [Next]_vars => TypeOK' /\ CursorInv'
    BY TypeStep, CursorStep
  <1> QED
    BY <1>1, <1>2, InitType, InitCursor, PTL DEF Spec

-----------------------------------------------------------------------------
(* Refinement.                                                              *)
Owed == UNION {watch[w].out : w \in Watcher}

LEMMA InitOnce == Init => Once!Init
  BY DEF Init, Once!Init, NotWatching

(* What one watcher owes shrinks, or stays.                                 *)
LEMMA OneOwesLess ==
  ASSUME TypeOK, NEW w \in Watcher, watch'[w].out \subseteq watch[w].out,
         \A x \in Watcher \ {w} : watch'[x] = watch[x]
  PROVE  Owed' \subseteq Owed
  <1>1. ASSUME NEW a \in Owed' PROVE a \in Owed
    <2>1. PICK x \in Watcher : a \in watch'[x].out
      BY <1>1 DEF Owed
    <2>2. a \in watch[x].out
      BY <2>1
    <2> QED
      BY <2>2 DEF Owed
  <1> QED
    BY <1>1

(* A pass owes events only from its commit to its end.                      *)
OwesOK == \A w \in Watcher : watch[w].out # {} => watch[w].pc \in {"rest", "emit"}

LEMMA InitOwes == Init => OwesOK
  BY DEF Init, OwesOK, NotWatching

LEMMA OwesStep == TypeOK /\ OwesOK /\ [Next]_vars => OwesOK'
  <1> SUFFICES ASSUME TypeOK, OwesOK, [Next]_vars PROVE OwesOK'
    OBVIOUS
  <1>a. /\ watch \in [Watcher -> Watch]
        /\ \A w \in Watcher : watch[w] \in Watch
    BY DEF TypeOK
  <1>0. ASSUME NEW w \in Watcher, \A x \in Watcher \ {w} : watch'[x] = watch[x],
               watch'[w].out # {} => watch'[w].pc \in {"rest", "emit"}
        PROVE  OwesOK'
    BY <1>0 DEF OwesOK
  <1>1. ASSUME NEW w \in Watcher,
               StartWatch(w) \/ StartReconcile(w) \/ Quit(w) \/ Crash(w)
        PROVE  OwesOK'
    BY <1>0, <1>1, <1>a, StartsFresh DEF Moved, Fresh
  <1>2. ASSUME NEW w \in Watcher,
               \/ Poll(w) \/ ReadRest(w) \/ ReadCursor(w) \/ ListActivities(w)
        PROVE  OwesOK'
    <2>1. /\ watch'[w].out = watch[w].out
          /\ \A x \in Watcher \ {w} : watch'[x] = watch[x]
          /\ watch[w].out # {} => watch'[w].pc \in {"rest", "emit"}
      BY <1>2, <1>a DEF Poll, ReadRest, ReadCursor, ListActivities, At, Watch, OwesOK
    <2> QED
      BY <1>0, <2>1
  <1>3. ASSUME NEW w \in Watcher, Commit(w) PROVE OwesOK'
    <2>1. /\ watch'[w].pc \in {"rest", "emit"}
          /\ \A x \in Watcher \ {w} : watch'[x] = watch[x]
      BY <1>3, <1>a DEF Commit, Watch
    <2> QED
      BY <1>0, <2>1
  <1>4. ASSUME NEW w \in Watcher, Emit(w) PROVE OwesOK'
    <2>1. /\ watch'[w].pc = "emit"
          /\ \A x \in Watcher \ {w} : watch'[x] = watch[x]
      BY <1>4, <1>a DEF Emit, At, Watch
    <2> QED
      BY <1>0, <2>1
  <1>5. ASSUME NEW w \in Watcher, EndPass(w) PROVE OwesOK'
    <2>1. /\ watch'[w].out = {}
          /\ \A x \in Watcher \ {w} : watch'[x] = watch[x]
      BY <1>5, <1>a DEF EndPass, Watch
    <2> QED
      BY <1>0, <2>1
  <1>6. ASSUME UNCHANGED watch PROVE OwesOK'
    BY <1>6 DEF OwesOK
  <1> QED
    BY <1>1, <1>2, <1>3, <1>4, <1>5, <1>6
    DEF Next, Step, Create, Show, Tick, SessionEnds, vars

(* Every step of a watcher, of Jules or of the clock is a step of OnceFeed  *)
(* or changes nothing there: a commit records, an emission pays, and a stop *)
(* loses what is still owed.                                                *)
LEMMA OnceStep ==
  ASSUME TypeOK, EmissionOK, OwesOK, [Next]_vars
  PROVE  [Once!Next]_<<receipts, Owed, emitted>>
  <1>a. /\ watch \in [Watcher -> Watch]
        /\ \A w \in Watcher : watch[w] \in Watch /\ watch[w].out \subseteq Activity
                                /\ watch[w].seen \subseteq Activity
        /\ emitted \in [Activity -> 0 .. 2]
        /\ receipts \subseteq Activity
    BY DEF TypeOK, Watch
  <1>0. ASSUME Owed' \subseteq Owed, UNCHANGED <<receipts, emitted>>
        PROVE  Once!Next
    BY <1>0 DEF Once!Next, Once!Lose, Owed
  <1>1. ASSUME NEW w \in Watcher,
               StartWatch(w) \/ StartReconcile(w) \/ Quit(w) \/ Crash(w)
        PROVE  Once!Next
    <2>1. /\ watch'[w].out = {}
          /\ \A x \in Watcher \ {w} : watch'[x] = watch[x]
          /\ UNCHANGED <<receipts, emitted>>
      BY <1>1, <1>a, StartsFresh DEF Moved, Fresh
    <2> QED
      BY <1>0, <2>1, OneOwesLess
  <1>2. ASSUME NEW w \in Watcher,
               \/ Poll(w) \/ ReadRest(w) \/ EndPass(w) \/ ReadCursor(w)
               \/ ListActivities(w)
        PROVE  Once!Next
    <2>1. /\ watch'[w].out = watch[w].out
          /\ \A x \in Watcher \ {w} : watch'[x] = watch[x]
      BY <1>2, <1>a DEF Poll, ReadRest, EndPass, ReadCursor, ListActivities, Watch
    <2>2. UNCHANGED <<receipts, emitted>>
      BY <1>2 DEF Poll, ReadRest, EndPass, ReadCursor, ListActivities
    <2> QED
      BY <1>0, <2>1, <2>2, OneOwesLess
  <1>3. ASSUME NEW w \in Watcher, Commit(w) PROVE Once!Next
    <2> DEFINE new == watch[w].seen \ receipts
    <2>1. /\ watch[w].out = {} /\ watch'[w].out = new
          /\ \A x \in Watcher \ {w} : watch'[x] = watch[x]
          /\ receipts' = receipts \cup new
          /\ UNCHANGED emitted
      BY <1>3, <1>a DEF Commit, NewNames, Watch, OwesOK, At
    <2>2. new \in SUBSET (Activity \ receipts)
      BY <1>a
    <2> HIDE DEF new
    <2>3. Owed' = Owed \cup new
      BY <2>1 DEF Owed
    <2> QED
      BY <2>1, <2>2, <2>3 DEF Once!Next, Once!Record, Owed
  <1>4. ASSUME NEW w \in Watcher, Emit(w) PROVE Once!Next
    <2>1. PICK a \in watch[w].out : a = First(watch[w].out)
      BY <1>4, <1>a, FirstIsOne DEF Emit
    <2>2. /\ watch'[w].out = watch[w].out \ {a}
          /\ \A x \in Watcher \ {w} : watch'[x] = watch[x]
          /\ emitted' = [emitted EXCEPT ![a] = IF @ < 2 THEN @ + 1 ELSE @]
          /\ UNCHANGED receipts
      BY <1>4, <1>a, <2>1 DEF Emit, Watch
    <2>3. emitted[a] = 0 /\ a \in Activity /\ a \in Owed
      BY <1>a, <2>1 DEF EmissionOK, Owed
    <2>4. emitted' = [emitted EXCEPT ![a] = 1]
      BY <2>2, <2>3
    <2>5. \A x \in Watcher \ {w} : a \notin watch[x].out
      BY <2>1 DEF EmissionOK
    <2>6. Owed' = Owed \ {a}
      BY <2>2, <2>5 DEF Owed
    <2>7. Once!Emit(a)
      BY <2>2, <2>3, <2>4, <2>6 DEF Once!Emit, Owed
    <2> QED
      BY <2>3, <2>7 DEF Once!Next, Owed
  <1>5. ASSUME UNCHANGED <<receipts, watch, emitted>>
        PROVE  UNCHANGED <<receipts, Owed, emitted>>
    BY <1>5 DEF Owed
  <1>6. ASSUME \E w \in Watcher : StartWatch(w) \/ StartReconcile(w) \/ Step(w)
                                    \/ Quit(w) \/ Crash(w)
        PROVE  Once!Next
    BY <1>1, <1>2, <1>3, <1>4, <1>6 DEF Step
  <1>7. CASE UNCHANGED <<receipts, watch, emitted>>
    BY <1>5, <1>7
  <1> QED
    BY <1>6, <1>7 DEF Next, Create, Show, Tick, SessionEnds, vars

(* Any number of watchers, passes, crashes and restarts together keep the   *)
(* promise of OnceFeed.                                                     *)
THEOREM KeepsOnceFeed == Spec => ImplementsOnceFeed
  <1>1. TypeOK /\ EmissionOK /\ OwesOK /\ [Next]_vars
          => TypeOK' /\ EmissionOK' /\ OwesOK'
    BY TypeStep, EmissionStep, OwesStep
  <1>2. TypeOK /\ EmissionOK /\ OwesOK /\ [Next]_vars
          => [Once!Next]_<<receipts, UNION {watch[w].out : w \in Watcher}, emitted>>
    BY OnceStep DEF Owed
  <1> QED
    BY <1>1, <1>2, InitType, InitEmission, InitOwes, InitOnce, PTL
    DEF Spec, ImplementsOnceFeed, Once!Spec

-----------------------------------------------------------------------------
(* What is recorded and neither emitted nor owed would be lost.             *)
LEMMA SafeStep ==
  ASSUME TypeOK, EmissionOK, OwesOK, RestartSafe, [Next]_vars,
         "quit" \notin Events, "crash" \notin Events
  PROVE  RestartSafe'
  <1>a. /\ watch \in [Watcher -> Watch]
        /\ \A w \in Watcher : watch[w] \in Watch /\ watch[w].out \subseteq Activity
                                /\ watch[w].seen \subseteq Activity
        /\ emitted \in [Activity -> 0 .. 2]
        /\ receipts \subseteq Activity
    BY DEF TypeOK, Watch
  <1>0. ASSUME UNCHANGED <<receipts, emitted>>,
               \A w \in Watcher : watch[w].out \subseteq watch'[w].out
        PROVE  RestartSafe'
    BY <1>0 DEF RestartSafe
  <1>1. ASSUME NEW w \in Watcher, StartWatch(w) \/ StartReconcile(w)
        PROVE  RestartSafe'
    <2>1. /\ watch[w].out = {}
          /\ \A x \in Watcher \ {w} : watch'[x] = watch[x]
          /\ UNCHANGED <<receipts, emitted>>
      BY <1>1, <1>a DEF StartWatch, StartReconcile, OwesOK
    <2> QED
      BY <1>0, <2>1
  <1>2. ASSUME NEW w \in Watcher,
               \/ Poll(w) \/ ReadRest(w) \/ EndPass(w) \/ ReadCursor(w)
               \/ ListActivities(w)
        PROVE  RestartSafe'
    <2>1. /\ watch'[w].out = watch[w].out
          /\ \A x \in Watcher \ {w} : watch'[x] = watch[x]
      BY <1>2, <1>a DEF Poll, ReadRest, EndPass, ReadCursor, ListActivities, Watch
    <2>2. UNCHANGED <<receipts, emitted>>
      BY <1>2 DEF Poll, ReadRest, EndPass, ReadCursor, ListActivities
    <2> QED
      BY <1>0, <2>1, <2>2
  <1>3. ASSUME NEW w \in Watcher, Commit(w) PROVE RestartSafe'
    <2>1. /\ watch[w].out = {} /\ watch'[w].out = watch[w].seen \ receipts
          /\ \A x \in Watcher \ {w} : watch'[x] = watch[x]
          /\ receipts' = receipts \cup watch[w].seen
          /\ UNCHANGED emitted
      BY <1>3, <1>a DEF Commit, NewNames, Watch, OwesOK, At
    <2> QED
      BY <2>1 DEF RestartSafe
  <1>4. ASSUME NEW w \in Watcher, Emit(w) PROVE RestartSafe'
    <2> DEFINE a == First(watch[w].out)
    <2>1. a \in watch[w].out
      BY <1>4, <1>a, FirstIsOne DEF Emit
    <2>2. /\ watch'[w].out = watch[w].out \ {a}
          /\ \A x \in Watcher \ {w} : watch'[x] = watch[x]
          /\ emitted' = [emitted EXCEPT ![a] = IF @ < 2 THEN @ + 1 ELSE @]
          /\ UNCHANGED receipts
      BY <1>4, <1>a DEF Emit, Watch
    <2> HIDE DEF a
    <2>3. emitted[a] = 0 /\ a \in Activity
      BY <1>a, <2>1 DEF EmissionOK
    <2>4. emitted' = [emitted EXCEPT ![a] = 1]
      BY <2>2, <2>3
    <2> QED
      BY <1>a, <2>2, <2>3, <2>4 DEF RestartSafe
  <1>5. ASSUME UNCHANGED <<receipts, watch, emitted>> PROVE RestartSafe'
    BY <1>0, <1>5
  <1>6. \A w \in Watcher : ~Quit(w) /\ ~Crash(w)
    BY DEF Quit, Crash
  <1> QED
    BY <1>1, <1>2, <1>3, <1>4, <1>5, <1>6
    DEF Next, Step, Create, Show, Tick, SessionEnds, vars

(* Without a stop between a commit and the end of its pass nothing recorded *)
(* is lost: only watchers that quit or die lose events (see the run         *)
(* feed_restart).                                                           *)
THEOREM OnlyStopsLose ==
  ASSUME "quit" \notin Events, "crash" \notin Events
  PROVE  Spec => []RestartSafe
  <1>1. Init => RestartSafe
    BY DEF Init, RestartSafe
  <1>2. TypeOK /\ EmissionOK /\ OwesOK /\ RestartSafe /\ [Next]_vars
          => TypeOK' /\ EmissionOK' /\ OwesOK' /\ RestartSafe'
    BY TypeStep, EmissionStep, OwesStep, SafeStep
  <1> QED
    BY <1>1, <1>2, InitType, InitEmission, InitOwes, PTL DEF Spec

-----------------------------------------------------------------------------
(* How far a pass is from its end: the steps to come, then the events.      *)
Stage(label) == CASE label = "poll"   -> 6
                  [] label = "cursor" -> 5
                  [] label = "list"   -> 4
                  [] label = "commit" -> 3
                  [] label = "rest"   -> 2
                  [] label = "emit"   -> 1
                  [] OTHER            -> 0

(* v is nearer to the end than u.  The order is well founded: the last pass *)
(* comes once, labels only go down within a pass, and events are finite.    *)
Nearer(v, u) ==
    \/ v.last /\ ~u.last /\ u.ended
    \/ v.last = u.last /\ Stage(v.pc) < Stage(u.pc)
    \/ v.last = u.last /\ v.pc = u.pc /\ v.out \subseteq u.out /\ v.out # u.out

(* Whatever else happens meanwhile, a step of a running watcher ends it or  *)
(* brings its pass nearer to the end; only a complete pass over a session   *)
(* that had not ended when it was polled goes back to the poll.             *)
PassesRunDown ==
    [][\A w \in Watcher : watch[w].pc \in {"off", "done"}
         \/ watch'[w] = watch[w]
         \/ watch'[w].pc \in {"off", "done"}
         \/ Nearer(watch'[w], watch[w])
         \/ (At(w, "emit") /\ watch[w].out = {} /\ ~watch[w].ended
               /\ watch'[w].pc = "poll")]_vars

LEMMA PassStep ==
  ASSUME TypeOK, [Next]_vars, NEW w \in Watcher, watch[w].pc \notin {"off", "done"}
  PROVE  \/ watch'[w] = watch[w]
         \/ watch'[w].pc \in {"off", "done"}
         \/ Nearer(watch'[w], watch[w])
         \/ (At(w, "emit") /\ watch[w].out = {} /\ ~watch[w].ended
               /\ watch'[w].pc = "poll")
  <1> DEFINE v == watch[w]
  <1>a. /\ watch \in [Watcher -> Watch]
        /\ v \in Watch /\ v.out \subseteq Activity
    BY DEF TypeOK, Watch
  <1>1. ASSUME Quit(w) \/ Crash(w) PROVE watch'[w].pc = "off"
    BY <1>1, <1>a DEF Quit, Crash, NotWatching
  <1>2. ASSUME Poll(w) \/ ReadCursor(w) \/ ListActivities(w) \/ Commit(w) \/ ReadRest(w)
        PROVE  Nearer(watch'[w], v)
    <2>1. /\ watch'[w].last = v.last
          /\ Poll(w) => v.pc = "poll" /\ watch'[w].pc = "cursor"
          /\ ReadCursor(w) => v.pc = "cursor" /\ watch'[w].pc = "list"
          /\ ListActivities(w) => v.pc = "list" /\ watch'[w].pc = "commit"
          /\ Commit(w) => v.pc = "commit" /\ watch'[w].pc \in {"rest", "emit"}
          /\ ReadRest(w) => v.pc = "rest" /\ watch'[w].pc = "emit"
      BY <1>2, <1>a DEF Poll, ReadCursor, ListActivities, Commit, ReadRest, At, Watch
    <2>2. Stage(watch'[w].pc) < Stage(v.pc)
      BY <1>2, <2>1 DEF Stage
    <2> QED
      BY <2>1, <2>2 DEF Nearer
  <1>3. ASSUME Emit(w) PROVE Nearer(watch'[w], v)
    <2>1. First(v.out) \in v.out
      BY <1>3, <1>a, FirstIsOne DEF Emit
    <2>2. /\ watch'[w].out = v.out \ {First(v.out)}
          /\ watch'[w].last = v.last /\ watch'[w].pc = v.pc
      BY <1>3, <1>a DEF Emit, Watch
    <2> QED
      BY <2>1, <2>2 DEF Nearer
  <1>4. ASSUME EndPass(w)
        PROVE  \/ watch'[w].pc \in {"off", "done"}
               \/ Nearer(watch'[w], v)
               \/ (At(w, "emit") /\ v.out = {} /\ ~v.ended /\ watch'[w].pc = "poll")
    <2>1. /\ watch'[w].pc = AfterPass(v) /\ watch'[w].last = v.ended
          /\ At(w, "emit") /\ v.out = {}
      BY <1>4, <1>a DEF EndPass, Watch
    <2> QED
      BY <1>a, <2>1 DEF AfterPass, Nearer, Watch
  <1>5. ASSUME NEW x \in Watcher \ {w},
               \/ StartWatch(x) \/ StartReconcile(x) \/ Step(x) \/ Quit(x) \/ Crash(x)
        PROVE  watch'[w] = v
    BY <1>5, <1>a DEF StartWatch, StartReconcile, Step, Quit, Crash, Poll, ReadCursor,
                      ListActivities, Commit, ReadRest, Emit, EndPass
  <1>6. ~StartWatch(w) /\ ~StartReconcile(w)
    BY DEF StartWatch, StartReconcile
  <1> QED
    BY <1>1, <1>2, <1>3, <1>4, <1>5, <1>6
    DEF Next, Step, Create, Show, Tick, SessionEnds, vars

(* What the liveness that TLC checks rests on: no watcher goes round        *)
(* without a complete pass, and none outlives the last one.                 *)
THEOREM EveryPassRunsDown == Spec => PassesRunDown
  <1>1. TypeOK /\ [Next]_vars
          => \A w \in Watcher : watch[w].pc \in {"off", "done"}
               \/ watch'[w] = watch[w]
               \/ watch'[w].pc \in {"off", "done"}
               \/ Nearer(watch'[w], watch[w])
               \/ (At(w, "emit") /\ watch[w].out = {} /\ ~watch[w].ended
                     /\ watch'[w].pc = "poll")
    BY PassStep
  <1> QED
    BY <1>1, TypeCorrect, PTL DEF Spec, PassesRunDown
=============================================================================
