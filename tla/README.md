# A TLA+ verification project for julesctl

julesctl is a control plane for Google Jules: short-lived command-line processes
that share one SQLite database per profile and talk to one remote service. Nothing
in it runs for ever and nothing locks across a network request, so its correctness
rests on short database transactions being enough when any number of these
processes run at once, die anywhere, and get answers late or not at all. That is
what the models here are about. Paths below are relative to the repository.

## 1. Inventory

| component | state it keeps | operations | hard behaviour |
|---|---|---|---|
| dispatch ledger (`store.py`) | `meta` (freeze flag, fence generation), `work_items`, `dispatch_attempts`, `sessions` | reserve, begin_send, mark_attempt_error, bind_session, upsert, snapshot (SELECT, then UPDATE), set_frozen | several processes between any two transactions; fence; occupancy and start budget |
| dispatch controller (`controller.py`) | locals of a call | dispatch, reconcile_attempt, list_sessions, reconcile, adopt | one POST, uncertain answers, late creation, crash between commit and POST, adoption by content |
| candidate queue (`queue_store.py`, `application/queue.py`) | `candidate_queue` | enqueue, requeue stale, claim, release, finish; `worker run-once` | claims going stale under a live worker, aborted batches, starvation |
| deletion plans (`application/prune.py`, `client.py`, `controller.py`) | `deletion_plans`, `sessions.deleted_at`, per-target results | plan (prune, rm, drain), apply in passes | threads, lost DELETE answers, sessions appearing between review and passes |
| activity feed (`application/reconcile.py`, `application/watch.py`) | `activity_receipts`, `activity_cursors` | watch, reconcile | late listing, cursor overlap, two watchers, crash between commit and emission |
| steering (`application/steering.py`, bulk commands of `cli/app.py`) | none (reads the activity log or the session twice) | message, approve, archive, unarchive | uncertain write judged by evidence; late effects, late listing, other clients |
| REST client (`api/client.py`) | locals of a read | one-shot writes, retried reads, paging | retry bounds, page tokens, a list that grows while it is read |
| CLI, artifacts, git, discovery, redaction | none | formatting, parsing, I/O | - |

The components interact through the database and through Jules: the controller and
the queue worker call the ledger; the worker calls the controller; `freeze` and
`unfreeze` fence both; the deletion commands and the watchers share only the
`sessions` rows and the remote fleet with the rest.

What makes each correct: **dispatch** - one key, at most one create request; a
session belongs to one attempt; nothing open is forgotten by admission; a fence is
final. **queue** - one result per candidate, no claim for ever, the promise of
dispatch kept through requeues. **deletion** - only reviewed ids, a truthful report.
**feed** - every activity recorded, none emitted twice. **steering** - a report of
success rests on evidence that is new and complete; nothing is delivered twice. The
hazards, each at its
line, are in `PROJECT.json`.

## 2. Modules

| module | models | state and actions |
|---|---|---|
| `Ledger` | `store.py` | the four tables as functions; one operator per transaction (`SetFrozen`, `InsertReservation`, `BeginSend`, `MarkAttemptError`, `BindSession`, `UpsertSessions`, `MarkNotVisible`), its guard beside it (`Admits`, `CanBeginSend`, `BindConflict`) |
| `Dispatch` | `controller.py`, freeze/unfreeze/adopt of `cli/app.py` | `call[p]`: the program counter and locals of process p; one action per statement that touches the database or the network, in the order of the code |
| `AtMostOnceCreate` | what dispatch promises | requests sent, sessions made, the session each key answers with; no process, no database |
| `CandidateQueue` | `queue_store.py`, `run_worker_once` | `row[k]` and `run[w]`; composes the queue's transactions with those of `Ledger`, so the dispatch inside a worker keeps each of its transactions and exceptions |
| `Prune` | `prune.py`, plans of `client.py` and `controller.py`, `delete_session` | `plan`, `apply[p]`, `thread[p][s]`: one DELETE per step, collection by the main thread, enumeration, the end of a pass |
| `ActivityFeed` | `reconcile.py`, `watch.py`, the receipt tables | `receipts`, `cursor`, `watch[w]`: poll, read cursor, list, commit, emit, settle; the single pass of `reconcile` |
| `OnceFeed` | what the feed promises | what is recorded, what is owed, how often each activity was emitted; no cursor, no pass, no process |
| `Listing` | `_iter_pages` and `_safe_read` of `api/client.py` | `read[r]`: token, tokens used, what was yielded, failed attempts; one page per step while `listed` grows |
| `Steering` | `steering.py`, bulk archive of `cli/app.py` | `call[c]` over the reads of `Listing`: evidence, POST, the look after an uncertain answer, the verdict; `late` effects, other clients, the agent's plans |
| `RegularRead` | what a paged read promises | a growing collection, the read of each reader; no page, no token, no attempt |
| `LedgerProofs`, `DispatchProofs`, `BudgetProofs`, `PromiseProofs`, `QueueProofs`, `PruneProofs`, `FeedProofs`, `SteeringProofs` | - | theorems |
| `MCDispatch`, `MCQueue`, `MCPrune`, `MCFeed`, `MCSteering` | - | instances for TLC |

Definitions that begin with "Fault:" in their comment are plausible mistakes (a
dropped guard, a missing reset, an off-by-one). No specification uses them: each is
put in place of the definition it precedes to see that a property notices.

### Abstractions

* A specification is its *shape*: what `_candidate_matches` compares. Two keys may
  have one shape (`new --parallel`), and a foreign session may have it too. The
  fingerprint is the same abstraction. The 60 seconds of tolerance are a choice:
  a session that existed, unlisted, when the request left may or may not be too old.
* The lifecycle of a session is *active* (executing, actionable, paused, unknown:
  what counts), *inactive*, or gone. Only that enters admission.
* In `Dispatch`, `Prune` and `ActivityFeed` a complete listing is one atomic step
  that may fail; what follows it (one upsert per session, then the two statements of
  the snapshot) is one step per statement. That a listing is complete however its
  pages interleave with what Jules does is the subject of `Listing`.
* The detail fetches of a reconciliation round are one step with its listing.
* In `CandidateQueue` the scan finds the attempt's own session or nothing, and
  `get_work`/`get_attempt` are one read: matching and adoption races are
  `Dispatch`'s business; there is no other writer to the sessions table, so
  occupancy in this module is the number of unresolved attempts.
* In `Prune` the attempts and pass bounds are constants; backoff delays are gone; a
  session that exists is in every complete listing, a deleted one may linger.
* In `ActivityFeed` a watcher's timeout, its poll bound and an error of a read are
  one action (`Quit`). Time is in seconds, and a new activity is listed at most
  `Lag` seconds late; the properties about the cursor need `Lag < Overlap`, which is
  the assumption the code makes with its overlap of 5 seconds. Jules is free to
  include or leave out the boundary of a create-time filter.
* In `Listing` a token is the offset of the next page; a resource is listed for good,
  at any place. Jules may hand out an old token again or one more token than pages.
* In `Steering` all messages of the model have the one prompt in question, which is
  the hard case; an activity keeps who wrote it as history only. A POST takes effect
  and is answered, is refused, or gets an uncertain answer having taken effect, not
  at all, or not yet. The sessions of a bulk command are taken in a fixed order.

## 3. Runs

| run | instance | checks |
|---|---|---|
| `dispatch_one_key` | 2 processes, 1 key used with 2 specifications, a foreign session that matches, freeze and unfreeze, adopt, listings, crash | type invariant; tables agree; one POST; fence (invariant and action property); every call ends |
| `dispatch_twins` | 2 processes, 2 keys of one specification, sessions that vanish, adopt, crash | ownership, open creates counted, refinement of `AtMostOnceCreate` |
| `dispatch_budget` | 2 processes, 2 keys of two specifications, limits of 1, days passing, reconcile calls, sessions that change | own session, binding final, starts bounded, own session always a candidate of its reconciliation |
| `queue` | 2 workers of different policies, up to 2 of 3 candidates at a time (expiring, forbidden, unreadable), batch of 2, crashes, failing requests, fences, stale claims | type invariant, COMPLETED is bound, one result, refinement of `AtMostOnceCreate`, no claim lasts |
| `prune` | 2 appliers while there is one session, 1 when a second has appeared; 2 attempts, 3 passes, all three kinds of plan | only stored targets, truthful rows, claims and report, the end |
| `feed_watchers` | 2 watchers or reconciles, 2 activities, clock to 3, overlap 2, lag 1, crash and quit | emitted once, cursor safe, final read, liveness, refinement of `OnceFeed` |
| `steering` | 1 caller among other clients, 2 calls, 3 activities on pages of one, 2 attempts per page, at most 3 pages, 2 plans, 2 sessions of bulk commands | complete reads, new evidence, approval, one delivery, truthful bulk report, every call ends, refinement of `RegularRead` |

Five runs show statements of the documentation that the code does not keep:

* `dispatch_rejection` - `mark_attempt_error` (`store.py:384`) does not look at the
  present state, so a stale reconciler undoes a definitive rejection
  (`docs/alpha-status.md:34`).
* `dispatch_twin_ownership` - adoption by content (`controller.py:453`) gives a key
  the session of another key with the same specification (`docs/threat-model.md:8`).
* `queue_head_of_line` - a candidate whose reservation was fenced off is claimed
  first and refused for ever (`application/queue.py:182`, `README.md:151`).
* `feed_restart` - events committed but not emitted before a crash are lost
  (`application/reconcile.py:129`, `README.md:80`).
* `steering_history` - an activity written before the call but listed after the first
  reading is taken as evidence of the call's own message
  (`application/steering.py:39`, `README.md:181`).

### Bounds and why they are enough

Every race in this code is between the pair of transactions of one process and the
steps of another, so two processes and, where rows compete, two keys, attempts and
sessions reach each of them; the properties about ownership need two attempts, those
about budgets a limit that two calls can meet. The bounds, by name:

* `MaxGeneration` bounds freezes and unfreezes: two are needed for a reservation of
  an older generation under an open fleet.
* `Scans` bounds the rounds of a reconciliation (the code has 5): a further round
  differs from the first only by what happened meanwhile.
* `Events` (`Dispatch`, `CandidateQueue`, `ActivityFeed`) chooses which commands and
  outside events an instance has; between the passing runs each of them occurs.
* `MCConstraint` of `MCQueue`: two workers at once on one candidate, one on several,
  and a weight that trades attempts, candidates, expiry and fences against each other.
* `MCConstraint` of `MCPrune`: two appliers meet on one session; sessions meet only
  in the report of one applier.
* `MCConstraint` of `MCSteering`: a behaviour is about messages, plans or archiving,
  with one late POST at a time, and two calls see two activities. One caller is
  enough, because callers share nothing but Jules, and what another caller does there
  is what `ForeignEffect` does; the theorems hold for any number of callers.
* `MaxTime` stops the clock of the feed; activities created at the last second are
  still listed and recorded. `emitted` is counted to 2.

Symmetry is used only in runs without liveness properties. A constraint only removes
behaviours: a liveness property is shown for those that stay inside it.

### Fairness

A process that has started keeps taking steps unless it crashes: each is local code,
a transaction with a busy timeout, or a request with a timeout (`WF` of `Step`).
`CandidateQueue` also assumes that somebody keeps invoking the worker and that time
passes, which is how the queue is meant to be run. Nobody is assumed to start calls,
freeze, unfreeze, or to make Jules act, and no fairness is put on crashes.

## 4. Proofs

Every safety property of the passing runs, invariant, action property or refinement,
is proved for all values of the constants.

**Dispatch.** `LedgerProofs` states one lemma per transaction: what it does to
`LedgerInv`, the part of the invariant about the tables alone, and how attempts may
evolve. `DispatchProofs` builds `IndInv` on it. None of its theorems is inductive
alone. A second POST is excluded because a process at "post" holds an attempt whose
transmission began (`sent`) and of which no request left yet, because no two
processes stand at "post" with one attempt, and because `begin_send` leaves RESERVED
for good; that takes the tables' agreement, the fence generations and the program
counters together. `Inductive` proves it with one step per action, each resting on
the transaction's lemma and on what the action does to the program counters.

`BudgetProofs` counts *spenders*, attempts that are reserved or whose start is in the
window. A reservation is never sent, so the two kinds are disjoint; every transaction
but the reservation leaves the set no larger, and the reservation is admitted only
while both parts are below their limits.

`PromiseProofs` adds where the sessions come from (`MadeOK`: from a transmitted
request, one at most) and maps every step to a step of `AtMostOnceCreate` or a
stutter. `SessionsAreOwn` and `BindingsAreFinal` assume `DistinctShapes`: no two keys
ask for the same thing and nobody else creates a session like one of them. Without
it both are false (run `dispatch_twin_ownership`). Shapes never change after the
request, so a match pins down the creator, and a second bind of an attempt can only
bind the session it has.

`OwnSessionIsFound` needs no such proviso: what an attempt's request made is a
candidate of its reconciliation for as long as Jules lists it. A candidate is passed
over when the baseline shows it, when it is older than the transmission tolerates,
or when its shape differs. `HiddenOK` says why none of these hits the own session:
whatever a call has in view, and so whatever a baseline or a tolerance lists, existed
when it was listed, which is before the request left, and what existed before has
another creator. The proof follows that through listings that are held across the
steps of other processes.

`SoleRejectionStands` delimits the finding of `dispatch_rejection`: with a single
process and without `session adopt` a definitive rejection is final. The invariant
(`Decided`) is that a call which works on an attempt has an attempt that is not
rejected, and one that observes the fleet for its key has a key without work, so that
its reservation cannot turn into a reconciliation. Both hypotheses are needed: TLC
finds a revived attempt when either is dropped.

**Queue.** `QueueInv` says what a worker may rely on at each label although its claim
may be requeued under it: its attempt exists and belongs to the head of its batch, a
COMPLETED result has a session. With the accounting of posts it yields `OneResult`
and the refinement of `AtMostOnceCreate`. `PolicyIsKept` adds that a create request
leaves only for a candidate that some worker may dispatch: the check of the allow list
and the POST are several transactions apart, and the claim may change hands between.

**Deletion plans.** The invariant of `PruneProofs` says that what an applier believes
of a target (absent, deleted, not listed) is true of Jules; it rests on a session
that is gone staying gone and a stored plan never changing.

**Feed.** `EmitsOnce` needs only the receipts. `CursorSkipsNothing` and
`FinalReadIsComplete` are proved from `Lag < Overlap`. The invariant: every activity
not recorded yet was created after the filter that the stored cursor gives, and, unless
the watcher has it in hand, after the filter of the position that any watcher is about
to write; so a cursor written from a stale position, forwards or backwards, is safe.

`KeepsOnceFeed` maps the receipts, the activities in the hands of the watchers and the
events to `OnceFeed`: an activity has a debt exactly while one watcher holds it, no two
watchers hold one, and a debt ends with its only event or is lost. `OnlyStopsLose` is
the other half: without crashes and quits nothing is lost, which delimits the finding
of `feed_restart`.

**Steering.** Proved from three facts about Jules: the log only grows, what is
written never changes, and plans are numbered upwards. `ReadsAreComplete` is the core:
a resource listed when a read begins can only move to later pages, and the read
follows every offset or breaks off. `ReadsAreRegular` states it as an implementation
of `RegularRead`, for readers that overlap and begin again; `ReadsAreBounded` holds
whatever tokens Jules hands out, because a token that was used ends the read.
`OnlyLagLetsHistoryProve` delimits the finding of `steering_history`: when an activity
is listed as soon as it is written, no older message passes for a new one.

**No detours.** `EveryCallRunsDown` (of `DispatchProofs` and of `SteeringProofs`),
`EveryRunRunsDown`, `EveryApplyRunsDown` and `EveryPassRunsDown` are what the endings
that TLC checks rest on. Each defines when a process is *nearer* to its end and proves
that none of its steps, and no step of anybody else, leads anywhere but nearer: no
reconciliation gets a round back, no claim is taken twice, no page is read again. The
orders are lexicographic, and each part is bounded or a set that shrinks: for
`Dispatch` the stage of the program, the rounds left (at most `Scans`), the sessions
still to be upserted; for the queue the batch and the stage; for a deletion the passes
left (at most the bound the type states), the phase, the targets and the attempts of
their threads; for a watcher the last pass, the stage, the events in hand; for
steering the items and the stage, and under them the tokens used (fewer than
`MaxPages`, by `ReadsAreBounded`) and the attempts of a page. So a process whose
instance has finite sets makes finitely many steps; that it makes them is fairness,
which stays with TLC. A watcher may go round for ever while its session lives: that
is the one exception in `PassesRunDown`.

The proofs use only the named assumptions on the constants (finite sets, naturals,
`None` outside the sets it marks, requests that pair keys with shapes).

Only model-checked: liveness (`CallsEnd` of `Dispatch` and of `Steering`,
`ClaimsEnd`, `ApplyEnds`, `VisibleIsRecorded`, `WatchEnds`), because the prover has no
rule for fairness and ENABLED here. That the orders of the last paragraph but one are
well founded is argued there and not proved: it is an induction over data. Four of the
five findings have a theorem that says what it takes to avoid them (`SessionsAreOwn`,
`SoleRejectionStands`, `OnlyStopsLose`, `OnlyLagLetsHistoryProve`); the fifth,
`queue_head_of_line`, is about liveness.

## 5. Not modelled

* Artifacts, specifications, git, discovery, redaction, output, timestamps and the
  wire models: parsing and formatting without state. Migration of old databases.
* `retry_session`: a dispatch under a fresh key, with a specification rebuilt from
  the old session; the dispatch is modelled, the rebuilding is parsing.
* Wall-clock behaviour: backoff delays, deadlines of a watch, the 30 seconds of the
  busy timeout. A timeout is an action that may happen at any step.
* Two hazards without a property, because nothing in the repository promises one: the
  gap between a bind and the upsert of its session, in which admission undercounts
  (`controller.py:370`), and a FAILED or EXPIRED candidate whose request did leave
  (`application/queue.py:208`). Likewise the error that replaces an uncertain one when
  the second reading fails (`application/steering.py:38`) and two callers who take one
  delivery for both of theirs (`application/steering.py:44`).

Worth adding later: non-atomic listings in `Dispatch` over `Listing`, and a bound on
the undercount of occupancy.
