---------------------------- MODULE CandidateQueue ----------------------------
(***************************************************************************)
(* The candidate queue (queue_store.py) and its workers (run_worker_once), *)
(* over the dispatch tables of Ledger.  A worker is one `worker run-once`  *)
(* process: it requeues stale claims, claims a batch, and dispatches the   *)
(* batch in order.  The dispatch inside a worker keeps every transaction   *)
(* and every exception of JulesController.dispatch, which decide what      *)
(* becomes of the candidate; the scan of the remote sessions is one step   *)
(* that finds the attempt's own session or nothing (Dispatch has the scan).*)
(*                                                                         *)
(* A candidate is its dispatch key (both are unique in the table), a       *)
(* number: the order of keys is the order of (created_at, candidate_id).   *)
(***************************************************************************)
EXTENDS Ledger

CONSTANTS
    Worker,         \* worker processes
    MaxItems,       \* --max, the size of a batch
    Allowed,        \* the <<worker, key>> pairs that the --allow-repo lists admit
    Unreadable,     \* the <<worker, key>> pairs whose spec_json does not validate
    MaxGeneration,  \* bound on the number of freezes and unfreezes
    Events          \* which of EventKind an instance includes

EventKind == {"crash", "expire", "failure", "fence"}

ASSUME CandidateAssumption == Key \subseteq Nat
ASSUME BatchAssumption == MaxItems \in Nat \ {0} /\ MaxGeneration \in Nat
ASSUME PolicyAssumption == /\ Allowed \subseteq Worker \X Key
                           /\ Unreadable \subseteq Worker \X Key
ASSUME QueueEventAssumption == Events \subseteq EventKind

VARIABLES
    row,      \* row[k]: the candidate_queue row
    expired,  \* candidates whose expires_at has passed
    run,      \* run[w]: program counter and locals of worker w
    made,     \* made[a]: the session Jules made for attempt a, or None
    pending,  \* attempts accepted without an answer, not materialised yet
    posts     \* posts[k]: create requests transmitted for k (history)

remoteVars == <<made, pending, posts>>
vars == <<frozen, generation, work, att, sessions, row, expired, run, remoteVars>>

-----------------------------------------------------------------------------
Result == {"COMPLETED", "FAILED", "EXPIRED", "REJECTED_POLICY", "INDETERMINATE"}
ASSUME NullResultAssumption == None \notin Result

(* stale: claimed longer ago than the age that requeue_stale_candidates     *)
(* looks for.  worker_id is written but no statement reads it.              *)
Row == [state : {"ABSENT", "PENDING", "CLAIMED"} \cup Result, stale : BOOLEAN]

Label == {"idle", "claim", "item", "lookup", "list", "reserve", "send", "post",
          "rejected", "uncertain", "bind", "recon", "scan", "none", "finish",
          "release"}
Run == [pc : Label, batch : SUBSET Key, att : Attempt \cup {None},
        result : Result \cup {None}]
NoRun == [pc |-> "idle", batch |-> {}, att |-> None, result |-> None]

(* Every variable holds a value of its kind, and a worker that is about to  *)
(* finish a candidate has a result for it: no outcome of a dispatch is lost *)
(* between the exception it raises and the row it is written to.            *)
TypeOK ==
    /\ LedgerTypeOK
    /\ row \in [Key -> Row]
    /\ expired \subseteq Key
    /\ run \in [Worker -> Run]
    /\ made \in [Attempt -> Session \cup {None}]
    /\ pending \subseteq Attempt
    /\ posts \in [Key -> Nat]
    /\ \A w \in Worker : run[w].pc = "finish" => run[w].result # None

Init ==
    /\ LedgerInit
    /\ row = [k \in Key |-> [state |-> "ABSENT", stale |-> FALSE]]
    /\ expired = {}
    /\ run = [w \in Worker |-> NoRun]
    /\ made = [a \in Attempt |-> None]
    /\ pending = {}
    /\ posts = [k \in Key |-> 0]

InState(state) == {k \in Key : row[k].state = state}
Oldest(S) == CHOOSE k \in S : \A j \in S : k <= j
Set(k, state) == row' = [row EXCEPT ![k] = [state |-> state, stale |-> FALSE]]

At(w, label) == run[w].pc = label
Goto(w, label) == run' = [run EXCEPT ![w].pc = label]
End(w) == run' = [run EXCEPT ![w] = NoRun]

(* The for loop is left when the batch is done, on break, and on an error.  *)
NextItem(w) ==
    LET left == run[w].batch \ {Oldest(run[w].batch)}
    IN  IF left = {} THEN End(w)
        ELSE run' = [run EXCEPT ![w] = [NoRun EXCEPT !.pc = "item", !.batch = left]]

-----------------------------------------------------------------------------
(* The transactions of the queue.                                           *)

(* enqueue_candidate, the branch that inserts.                              *)
Enqueue(k) ==
    /\ row[k].state = "ABSENT"
    /\ Set(k, "PENDING")
    /\ UNCHANGED <<ledgerVars, expired, run, remoteVars>>

(* Fault: stale claims stay claimed.                                        *)
RequeueNothing(w) ==
    /\ At(w, "idle")
    /\ Goto(w, "claim")
    /\ UNCHANGED <<ledgerVars, row, expired, remoteVars>>

(* requeue_stale_candidates, at the start of every run.                     *)
Requeue(w) ==
    /\ At(w, "idle")
    /\ row' = [k \in Key |-> IF row[k].state = "CLAIMED" /\ row[k].stale
                             THEN [state |-> "PENDING", stale |-> FALSE]
                             ELSE row[k]]
    /\ Goto(w, "claim")
    /\ UNCHANGED <<ledgerVars, expired, remoteVars>>

(* claim_candidates: the oldest PENDING rows, none while the fleet is frozen.*)
Claim(w) ==
    LET waiting == InState("PENDING")
        oldest == {k \in waiting :
                     Cardinality({j \in waiting : j < k}) < MaxItems}
    IN  /\ At(w, "claim")
        /\ \/ (frozen \/ oldest = {}) /\ End(w) /\ UNCHANGED row
           \/ /\ ~frozen /\ oldest # {}
              /\ row' = [k \in Key |-> IF k \in oldest
                                       THEN [state |-> "CLAIMED", stale |-> FALSE]
                                       ELSE row[k]]
              /\ run' = [run EXCEPT ![w].pc = "item", ![w].batch = oldest]
        /\ UNCHANGED <<ledgerVars, expired, remoteVars>>

(* Fault: a row is finished whatever became of the claim.                   *)
FinishAnyRow(w, k, result) == Set(k, result) /\ NextItem(w)

(* finish_candidate writes the result of a CLAIMED row, whoever claimed it; *)
(* otherwise the InputError ends the run and strands the rest of its batch. *)
FinishCandidate(w, k, result) ==
    \/ row[k].state = "CLAIMED" /\ Set(k, result) /\ NextItem(w)
    \/ row[k].state # "CLAIMED" /\ UNCHANGED row /\ End(w)

(* release_candidate after an AdmissionError, which ends the run either way.*)
ReleaseCandidate(k) ==
    \/ row[k].state = "CLAIMED" /\ Set(k, "PENDING")
    \/ row[k].state # "CLAIMED" /\ UNCHANGED row

Head(w) == Oldest(run[w].batch)

(* The checks before a dispatch.                                            *)
Item(w) ==
    LET k == Head(w)
    IN  /\ At(w, "item")
        /\ \/ <<w, k>> \in Unreadable /\ FinishCandidate(w, k, "FAILED")
           \/ /\ <<w, k>> \notin Unreadable /\ k \in expired
              /\ FinishCandidate(w, k, "EXPIRED")
           \/ /\ <<w, k>> \notin Unreadable \cup Allowed /\ k \notin expired
              /\ FinishCandidate(w, k, "REJECTED_POLICY")
           \/ /\ <<w, k>> \in Allowed \ Unreadable /\ k \notin expired
              /\ Goto(w, "lookup") /\ UNCHANGED row
        /\ UNCHANGED <<ledgerVars, expired, remoteVars>>

Finish(w) ==
    /\ At(w, "finish")
    /\ FinishCandidate(w, Head(w), run[w].result)
    /\ UNCHANGED <<ledgerVars, expired, remoteVars>>

Release(w) ==
    /\ At(w, "release")
    /\ ReleaseCandidate(Head(w))
    /\ End(w)
    /\ UNCHANGED <<ledgerVars, expired, remoteVars>>

-----------------------------------------------------------------------------
(* controller.dispatch of the head of the batch.  It returns (COMPLETED),   *)
(* or raises AdmissionError (the candidate is released), IndeterminateError *)
(* (INDETERMINATE) or any other JulesCtlError (FAILED).                     *)
(* Fault: the outcome of the dispatch is dropped.                           *)
ReturnsNothing(w, result) == run' = [run EXCEPT ![w].pc = "finish"]

Returns(w, result) == run' = [run EXCEPT ![w].pc = "finish", ![w].result = result]

queueVars == <<row, expired>>

(* get_work and get_attempt; the listing of an unknown key may fail.        *)
Lookup(w) ==
    LET k == Head(w)
        state == work[k].status
    IN  /\ At(w, "lookup")
        /\ \/ ~HasWork(k) /\ Goto(w, "reserve")
           \/ ~HasWork(k) /\ "failure" \in Events /\ Returns(w, "FAILED")
           \/ HasWork(k) /\ work[k].session # None /\ Returns(w, "COMPLETED")
           \/ /\ HasWork(k) /\ work[k].session = None
              /\ \/ state = "CANCELLED_LOCAL" /\ Goto(w, "release")
                 \/ state = "DEFINITIVELY_REJECTED" /\ Returns(w, "FAILED")
                 \/ /\ state \notin {"CANCELLED_LOCAL", "DEFINITIVELY_REJECTED"}
                    /\ run' = [run EXCEPT ![w].att = work[k].attempt,
                         ![w].pc = IF state = "RESERVED" THEN "send" ELSE "recon"]
        /\ UNCHANGED <<ledgerVars, queueVars, remoteVars>>

Reserve(w) ==
    LET k == Head(w)
    IN  /\ At(w, "reserve")
        /\ \/ /\ frozen \/ (~HasWork(k) /\ ~Admits)
              /\ Goto(w, "release")
              /\ UNCHANGED ledgerVars
           \/ /\ ~frozen /\ HasWork(k)
              /\ IF work[k].session # None THEN Returns(w, "COMPLETED")
                 ELSE run' = [run EXCEPT ![w].pc = "recon", ![w].att = work[k].attempt]
              /\ UNCHANGED ledgerVars
           \/ /\ ~frozen /\ ~HasWork(k) /\ Admits
              /\ \E a \in Attempt, sh \in Shape :
                   /\ att[a].state = "ABSENT"
                   /\ InsertReservation(k, sh, a, {})
                   /\ run' = [run EXCEPT ![w].pc = "send", ![w].att = a]
        /\ UNCHANGED <<queueVars, remoteVars>>

(* begin_send: a state other than RESERVED is an InputError, a fence is an  *)
(* AdmissionError.                                                          *)
Send(w) ==
    LET a == run[w].att
    IN  /\ At(w, "send")
        /\ \/ att[a].state # "RESERVED" /\ Returns(w, "FAILED") /\ UNCHANGED ledgerVars
           \/ /\ att[a].state = "RESERVED" /\ ~CanBeginSend(a)
              /\ Goto(w, "release")
              /\ UNCHANGED ledgerVars
           \/ CanBeginSend(a) /\ BeginSend(a, {}) /\ Goto(w, "post")
        /\ UNCHANGED <<queueVars, remoteVars>>

Transmit(a) == posts' = [posts EXCEPT ![att[a].key] = @ + 1]
Make(a) == \E s \in Session : /\ \A b \in Attempt : made[b] # s
                              /\ made' = [made EXCEPT ![a] = s]

PostAnswered(w) ==
    /\ At(w, "post")
    /\ Transmit(run[w].att)
    /\ Make(run[w].att)
    /\ Goto(w, "bind")
    /\ UNCHANGED <<ledgerVars, queueVars, pending>>

PostRejected(w) ==
    /\ At(w, "post") /\ "failure" \in Events
    /\ Transmit(run[w].att)
    /\ Goto(w, "rejected")
    /\ UNCHANGED <<ledgerVars, queueVars, made, pending>>

PostUncertain(w) ==
    /\ At(w, "post") /\ "failure" \in Events
    /\ Transmit(run[w].att)
    /\ \/ Make(run[w].att) /\ UNCHANGED pending
       \/ pending' = pending \cup {run[w].att} /\ UNCHANGED made
       \/ UNCHANGED <<made, pending>>
    /\ Goto(w, "uncertain")
    /\ UNCHANGED <<ledgerVars, queueVars>>

MarkRejected(w) ==
    /\ At(w, "rejected")
    /\ MarkAttemptError(run[w].att, "DEFINITIVELY_REJECTED")
    /\ Returns(w, "FAILED")
    /\ UNCHANGED <<queueVars, remoteVars>>

MarkReconciling(w) ==
    /\ At(w, "uncertain")
    /\ MarkAttemptError(run[w].att, "RECONCILING")
    /\ Goto(w, "recon")
    /\ UNCHANGED <<queueVars, remoteVars>>

(* bind_session of the answer or of the unique match.                       *)
Bind(w) ==
    LET a == run[w].att
    IN  /\ At(w, "bind")
        /\ \/ BindConflict(a, made[a]) /\ Returns(w, "FAILED") /\ UNCHANGED ledgerVars
           \/ /\ ~BindConflict(a, made[a])
              /\ BindSession(a, made[a], "CONFIRMED")
              /\ Returns(w, "COMPLETED")
        /\ UNCHANGED <<queueVars, remoteVars>>

ReadAttempt(w) ==
    LET a == att[run[w].att]
    IN  /\ At(w, "recon")
        /\ \/ a.session # None /\ Returns(w, "COMPLETED")
           \/ a.session = None /\ a.state = "RESERVED" /\ Returns(w, "FAILED")
           \/ a.session = None /\ a.state # "RESERVED" /\ Goto(w, "scan")
        /\ UNCHANGED <<ledgerVars, queueVars, remoteVars>>

Scan(w) ==
    /\ At(w, "scan")
    /\ \/ made[run[w].att] # None /\ Goto(w, "bind")
       \/ made[run[w].att] = None /\ Goto(w, "none")
       \/ "failure" \in Events /\ Returns(w, "FAILED")
    /\ UNCHANGED <<ledgerVars, queueVars, remoteVars>>

MarkIndeterminate(w) ==
    /\ At(w, "none")
    /\ MarkAttemptError(run[w].att, "INDETERMINATE_NONE")
    /\ Returns(w, "INDETERMINATE")
    /\ UNCHANGED <<queueVars, remoteVars>>

-----------------------------------------------------------------------------
Crash(w) ==
    /\ "crash" \in Events
    /\ ~At(w, "idle")
    /\ End(w)
    /\ UNCHANGED <<ledgerVars, queueVars, remoteVars>>

ClaimAges(k) ==
    /\ row[k].state = "CLAIMED" /\ ~row[k].stale
    /\ row' = [row EXCEPT ![k].stale = TRUE]
    /\ UNCHANGED <<ledgerVars, expired, run, remoteVars>>

Expire(k) ==
    /\ "expire" \in Events
    /\ k \notin expired
    /\ expired' = expired \cup {k}
    /\ UNCHANGED <<ledgerVars, row, run, remoteVars>>

Fence(value) ==
    /\ "fence" \in Events
    /\ generation < MaxGeneration
    /\ SetFrozen(value)
    /\ UNCHANGED <<queueVars, run, remoteVars>>

CreateLate(a) ==
    /\ a \in pending
    /\ Make(a)
    /\ pending' = pending \ {a}
    /\ UNCHANGED <<ledgerVars, queueVars, run, posts>>

Step(w) ==
    \/ Requeue(w) \/ Claim(w) \/ Item(w) \/ Finish(w) \/ Release(w) \/ Lookup(w)
    \/ Reserve(w) \/ Send(w) \/ PostAnswered(w) \/ PostRejected(w)
    \/ PostUncertain(w) \/ MarkRejected(w) \/ MarkReconciling(w) \/ Bind(w)
    \/ ReadAttempt(w) \/ Scan(w) \/ MarkIndeterminate(w)

Next ==
    \/ \E w \in Worker : Step(w) \/ Crash(w)
    \/ \E k \in Key : Enqueue(k) \/ ClaimAges(k) \/ Expire(k)
    \/ \E value \in BOOLEAN : Fence(value)
    \/ \E a \in Attempt : CreateLate(a)

Spec == Init /\ [][Next]_vars

(* Somebody keeps invoking the worker, each run proceeds unless it crashes, *)
(* and time passes.  Nothing makes anybody enqueue, freeze or unfreeze.     *)
Fairness == /\ \A w \in Worker : WF_vars(Step(w))
            /\ \A k \in Key : WF_vars(ClaimAges(k))
FairSpec == Spec /\ Fairness

-----------------------------------------------------------------------------
(* "one durable result per candidate" (README): a result, once recorded,    *)
(* never changes, although a claim may be requeued under a worker that is   *)
(* still working on it and both of them finish the row.                     *)
ResultIsFinal ==
    [][\A k \in Key : row[k].state \in Result => row'[k] = row[k]]_vars

(* COMPLETED is the truth: the candidate's key answers with a session.      *)
CompletedIsBound ==
    \A k \in Key : row[k].state = "COMPLETED" => work[k].session # None

(* The queue keeps the promise of dispatch: requeued claims, crashes and    *)
(* workers that share a candidate never cause a second create request.      *)
Promise == INSTANCE AtMostOnceCreate WITH
    sent <- posts,
    made <- [s \in Session |->
               IF \E a \in Attempt : made[a] = s
               THEN att[CHOOSE a \in Attempt : made[a] = s].key ELSE None],
    owner <- [k \in Key |-> work[k].session]

KeepsPromise == Promise!Spec

(* "stale-claim recovery" (README): no claim lasts, whoever died or stopped *)
(* half-way through a batch.                                                *)
ClaimsEnd == \A k \in Key : row[k].state = "CLAIMED" ~> row[k].state # "CLAIMED"

(* "one durable result per candidate", as a promise of progress: once no    *)
(* more freezes happen and the fleet is open, every candidate gets a result.*)
(* The code does not keep it; see the run queue_head_of_line.               *)
EveryCandidateSettles ==
    <>[](~frozen) => \A k \in Key : row[k].state = "PENDING" ~> row[k].state \in Result
=============================================================================
