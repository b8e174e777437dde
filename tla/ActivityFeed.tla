----------------------------- MODULE ActivityFeed -----------------------------
(***************************************************************************)
(* The activities of one session: any number of `watch` processes          *)
(* (watch_session) poll its state and its activities, record those not     *)
(* recorded before in the shared store (reconcile_session_activities,      *)
(* commit_activity_batch), and emit them as events.  `reconcile` makes one *)
(* such pass over every session of the fleet and returns the events of all *)
(* of them in the end; here it is about the one session.                   *)
(*                                                                         *)
(* Jules is external: an activity is listed some time after the moment its *)
(* create time names, at most Lag later, and a listing filtered by create  *)
(* time may or may not include the boundary.                               *)
(***************************************************************************)
EXTENDS Naturals, FiniteSets, FiniteSetsExt

CONSTANTS
    Watcher,   \* processes that run `watch` or `reconcile`
    Activity,  \* activity names; numbers, for ties are sorted by name
    MaxTime,   \* bound: the clock stops there
    Overlap,   \* overlap_seconds
    Lag,       \* the longest a new activity stays out of listings
    Events     \* which of these happen: a watcher may "quit" or "crash"

ASSUME ActivityAssumption == Activity \subseteq Nat /\ IsFiniteSet(Activity)
ASSUME TimeAssumption == MaxTime \in Nat \ {0} /\ Overlap \in Nat /\ Lag \in Nat
ASSUME FeedEventAssumption == Events \subseteq {"quit", "crash"}

VARIABLES
    clock,     \* seconds, from 1
    created,   \* created[a]: the create time of activity a, 0 before it exists
    visible,   \* the activities Jules lists
    terminal,  \* the session is in a terminal state
    receipts,  \* rows of activity_receipts
    cursor,    \* highest_create_time in activity_cursors, 0 for no row
    watch,     \* watch[w]: program counter and locals of watcher w
    emitted    \* emitted[a]: events emitted of a, counted to 2 (history)

remoteVars == <<clock, created, visible, terminal>>
vars == <<clock, created, visible, terminal, receipts, cursor, watch, emitted>>

-----------------------------------------------------------------------------
Time == 0 .. MaxTime

(* once: this is `reconcile`; since, high: the filter and the cursor the    *)
(* pass began with; seen: what it listed; out: events not yet emitted;      *)
(* last: the pass after the settle time; due: what was listed at Jules when *)
(* that time began (history).                                               *)
Watch == [pc : {"off", "poll", "cursor", "list", "commit", "rest", "emit", "done"},
          once : BOOLEAN, ended : BOOLEAN, last : BOOLEAN, high : Time, since : Time,
          seen : SUBSET Activity, out : SUBSET Activity, due : SUBSET Activity]
NotWatching == [pc |-> "off", once |-> FALSE, ended |-> FALSE, last |-> FALSE,
                high |-> 0, since |-> 0, seen |-> {}, out |-> {}, due |-> {}]

(* Every variable holds a value of its kind.                                *)
TypeOK ==
    /\ clock \in Time \ {0}
    /\ created \in [Activity -> Time]
    /\ visible \subseteq Activity
    /\ terminal \in BOOLEAN
    /\ receipts \subseteq Activity
    /\ cursor \in Time
    /\ watch \in [Watcher -> Watch]
    /\ emitted \in [Activity -> 0 .. 2]

Init ==
    /\ clock = 1
    /\ created = [a \in Activity |-> 0]
    /\ visible = {}
    /\ terminal = FALSE
    /\ receipts = {}
    /\ cursor = 0
    /\ watch = [w \in Watcher |-> NotWatching]
    /\ emitted = [a \in Activity |-> 0]

At(w, label) == watch[w].pc = label

-----------------------------------------------------------------------------
(* `watch` is started, for the first time or again.                         *)
StartWatch(w) ==
    /\ watch[w].pc \in {"off", "done"}
    /\ watch' = [watch EXCEPT ![w] = [NotWatching EXCEPT !.pc = "poll"]]
    /\ UNCHANGED <<remoteVars, receipts, cursor, emitted>>

(* `reconcile`, which has listed the sessions and comes to this one.        *)
StartReconcile(w) ==
    /\ watch[w].pc \in {"off", "done"}
    /\ watch' = [watch EXCEPT ![w] = [NotWatching EXCEPT !.pc = "cursor", !.once = TRUE]]
    /\ UNCHANGED <<remoteVars, receipts, cursor, emitted>>

(* One round of the loop: get_session.                                      *)
Poll(w) ==
    /\ At(w, "poll")
    /\ watch' = [watch EXCEPT ![w].pc = "cursor", ![w].ended = terminal]
    /\ UNCHANGED <<remoteVars, receipts, cursor, emitted>>

(* Fault: what was recorded last bounds the next listing.                   *)
SinceCursor(time) == time

(* Fault: no floor under a cursor younger than the overlap.                 *)
SinceUnclamped(time) == time - Overlap

(* _activity_cursor: a create-time filter some seconds before the cursor.   *)
SinceOverlap(time) == IF time > Overlap THEN time - Overlap ELSE 0

(* activity_cursor: the position another watcher may move meanwhile.        *)
ReadCursor(w) ==
    /\ At(w, "cursor")
    /\ watch' = [watch EXCEPT ![w].pc = "list", ![w].high = cursor,
                              ![w].since = SinceOverlap(cursor)]
    /\ UNCHANGED <<remoteVars, receipts, cursor, emitted>>

(* iter_activities: filtered, or complete when there is no cursor or Jules  *)
(* rejects the filter.                                                      *)
ListActivities(w) ==
    /\ At(w, "list")
    /\ \/ \E boundary \in SUBSET {a \in visible : created[a] = watch[w].since} :
            watch' = [watch EXCEPT ![w].pc = "commit",
                        ![w].seen = boundary \cup
                                    {a \in visible : created[a] > watch[w].since}]
       \/ /\ watch[w].since > 0
          /\ watch' = [watch EXCEPT ![w].pc = "commit", ![w].seen = visible]
    /\ UNCHANGED <<remoteVars, receipts, cursor, emitted>>

(* Fault: what the overlap lists once more is emitted once more.            *)
EverySeen(seen, recorded) == seen

NewNames(seen, recorded) == seen \ recorded

Highest(high, seen) == Max({high} \cup {created[a] : a \in seen})

(* commit_activity_batch, one transaction: the receipts not there yet and   *)
(* the cursor, computed from the position read before the listing.          *)
Commit(w) ==
    LET high == Highest(watch[w].high, watch[w].seen)
    IN  /\ At(w, "commit")
        /\ receipts' = receipts \cup watch[w].seen
        /\ cursor' = IF high = 0 THEN cursor ELSE high
        /\ watch' = [watch EXCEPT ![w].pc = IF watch[w].once THEN "rest" ELSE "emit",
                                  ![w].seen = {}, ![w].high = 0,
                                  ![w].since = 0,
                                  ![w].out = NewNames(watch[w].seen, receipts)]
        /\ UNCHANGED <<remoteVars, emitted>>

(* The sessions after this one are reconciled too.                          *)
ReadRest(w) ==
    /\ At(w, "rest")
    /\ watch' = [watch EXCEPT ![w].pc = "emit"]
    /\ UNCHANGED <<remoteVars, receipts, cursor, emitted>>

First(events) == CHOOSE a \in events : \A b \in events :
                    created[a] < created[b] \/ (created[a] = created[b] /\ a <= b)

(* The events of a pass go out one by one, in order of time and name.       *)
Emit(w) ==
    /\ At(w, "emit")
    /\ watch[w].out # {}
    /\ LET a == First(watch[w].out)
       IN  /\ watch' = [watch EXCEPT ![w].out = @ \ {a}]
           /\ emitted' = [emitted EXCEPT ![a] = IF @ < 2 THEN @ + 1 ELSE @]
    /\ UNCHANGED <<remoteVars, receipts, cursor>>

(* Fault: the terminal event follows the first pass that sees it.           *)
NoFinalPass(v) == IF v.ended THEN "done" ELSE "poll"
(* Fault: the loop goes on after the final pass.                            *)
NeverDone(v) == IF v.ended /\ ~v.last THEN "cursor" ELSE "poll"

AfterPass(v) == CASE v.once  -> "off"
                  [] v.last  -> "done"
                  [] OTHER   -> IF v.ended THEN "cursor" ELSE "poll"

(* A pass is over: the next poll; or, the session having ended, the settle  *)
(* time and one more pass; or the terminal event; or the end of `reconcile`.*)
EndPass(w) ==
    /\ At(w, "emit")
    /\ watch[w].out = {}
    /\ watch' = [watch EXCEPT ![w].pc = AfterPass(watch[w]), ![w].once = FALSE,
                              ![w].last = watch[w].ended,
                              ![w].due = IF watch[w].ended /\ ~watch[w].last
                                         THEN visible ELSE @]
    /\ UNCHANGED <<remoteVars, receipts, cursor, emitted>>

(* The timeout, the poll bound, or an error of a read that is not retried;  *)
(* `reconcile` fails with any of its sessions, also with a later one.       *)
Quit(w) ==
    /\ "quit" \in Events
    /\ watch[w].pc \in {"poll", "list", "rest"}
    /\ watch' = [watch EXCEPT ![w] = NotWatching]
    /\ UNCHANGED <<remoteVars, receipts, cursor, emitted>>

(* The process dies, or its consumer stops reading, anywhere.               *)
Crash(w) ==
    /\ "crash" \in Events
    /\ watch[w].pc \notin {"off", "done"}
    /\ watch' = [watch EXCEPT ![w] = NotWatching]
    /\ UNCHANGED <<remoteVars, receipts, cursor, emitted>>

-----------------------------------------------------------------------------
(* Jules: activities are created, and listed within Lag; the session ends.  *)
Create(a) ==
    /\ created[a] = 0
    /\ ~terminal
    /\ created' = [created EXCEPT ![a] = clock]
    /\ UNCHANGED <<clock, visible, terminal, receipts, cursor, watch, emitted>>

Show(a) ==
    /\ created[a] # 0
    /\ a \notin visible
    /\ visible' = visible \cup {a}
    /\ UNCHANGED <<clock, created, terminal, receipts, cursor, watch, emitted>>

Tick ==
    /\ clock < MaxTime
    /\ \A a \in Activity : created[a] # 0 /\ clock >= created[a] + Lag => a \in visible
    /\ clock' = clock + 1
    /\ UNCHANGED <<created, visible, terminal, receipts, cursor, watch, emitted>>

SessionEnds ==
    /\ ~terminal
    /\ terminal' = TRUE
    /\ UNCHANGED <<clock, created, visible, receipts, cursor, watch, emitted>>

(* What a watcher does when nothing stops it.                               *)
Step(w) == Poll(w) \/ ReadCursor(w) \/ ListActivities(w) \/ Commit(w)
           \/ ReadRest(w) \/ Emit(w) \/ EndPass(w)

Next ==
    \/ \E w \in Watcher : StartWatch(w) \/ StartReconcile(w) \/ Step(w) \/ Quit(w) \/ Crash(w)
    \/ \E a \in Activity : Create(a) \/ Show(a)
    \/ Tick \/ SessionEnds

Spec == Init /\ [][Next]_vars

(* A watcher that runs goes on: reads are answered or fail.                 *)
FairSpec == Spec /\ \A w \in Watcher : WF_vars(Step(w))

-----------------------------------------------------------------------------
(* Whatever watchers run, crash and restart, and however often the overlap  *)
(* lists it, an activity is emitted at most once (README: activities are    *)
(* deduplicated by immutable identity across overlapped cursor reads).      *)
EmittedOnce == \A a \in Activity : emitted[a] <= 1

(* The next filtered listing cannot skip an activity nobody recorded: what  *)
(* is unrecorded lies after the cursor less the overlap, although watchers  *)
(* move the cursor from stale positions and activities are listed late.     *)
NothingBehindCursor ==
    \A a \in Activity : created[a] # 0 /\ a \notin receipts =>
                          created[a] > SinceOverlap(cursor)

(* When a watcher reports the terminal event, everything Jules listed when  *)
(* the settle time began is recorded (README: a final settled read).        *)
FinalReadComplete ==
    \A w \in Watcher : At(w, "done") => /\ watch[w].last
                                        /\ watch[w].due \subseteq receipts

(* An activity that is listed while a watcher is about to poll is recorded, *)
(* unless that watcher stops.                                               *)
VisibleIsRecorded ==
    \A a \in Activity, w \in Watcher :
        (a \in visible /\ At(w, "poll")) ~> (a \in receipts \/ At(w, "off"))

(* A watcher of a session that has ended comes to its terminal event.       *)
WatchEnds ==
    \A w \in Watcher : (terminal /\ At(w, "poll")) ~> (watch[w].pc \in {"done", "off"})

(* However watchers interleave, crash and restart, an activity is recorded  *)
(* for good in one commit that owes its event, and the event is emitted     *)
(* once or lost with the pass that owes it (README: deduplicated by         *)
(* immutable identity).                                                     *)
Once == INSTANCE OnceFeed
          WITH recorded <- receipts, owed <- UNION {watch[w].out : w \in Watcher}
ImplementsOnceFeed == Once!Spec

(* A recorded activity has been emitted, or a running watcher is about to:  *)
(* what README's "restart-safe incremental watch" promises.                 *)
RestartSafe ==
    \A a \in receipts : emitted[a] > 0 \/ \E w \in Watcher : a \in watch[w].out
=============================================================================
