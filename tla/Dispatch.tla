------------------------------- MODULE Dispatch -------------------------------
(***************************************************************************)
(* JulesController.dispatch, _send_reserved_attempt and reconcile_attempt  *)
(* (controller.py), with the adopt and fleet commands of the CLI, run by   *)
(* several processes over one Ledger and one Jules account.                *)
(*                                                                         *)
(* A process is one CLI invocation, one queue worker or one thread of      *)
(* `new --parallel`.  Its steps are the points where it touches the        *)
(* database or the network: between two of them any other process, Jules,  *)
(* or a crash may act.  The local state of a call is call[p]; a crashed or *)
(* finished call leaves nothing behind but the database.                   *)
(***************************************************************************)
EXTENDS Ledger

CONSTANTS
    Proc,            \* processes that share the database
    Requests,        \* the <<key, shape>> pairs that callers dispatch
    ForeignShapes,   \* shapes of sessions created outside this database
    Scans,           \* len(reconcile_delays)
    MaxGeneration,   \* bound on the number of freezes and unfreezes
    Events           \* the commands and outside events an instance includes,
                     \* of EventKind; bounds the size of TLC's instances

ASSUME RequestAssumption == Requests \subseteq Key \X Shape
ASSUME ScanAssumption == Scans \in Nat \ {0} /\ MaxGeneration \in Nat
EventKind == {"dispatch", "list", "reconcile", "adopt", "crash", "day", "change",
              "vanish"}

ASSUME EventAssumption == Events \subseteq EventKind
ASSUME ForeignAssumption == ForeignShapes \subseteq Shape

VARIABLES
    call,      \* call[p]: program counter and locals of process p
    remote,    \* remote[s]: the session s as Jules holds it
    pending,   \* attempts whose POST Jules accepted without answering and
               \* has not materialised yet
    posts      \* posts[k]: create requests transmitted for key k (history)

vars == <<frozen, generation, work, att, sessions, call, remote, pending, posts>>

-----------------------------------------------------------------------------
(* A listing gives each session as absent, active (a lifecycle that counts) *)
(* or inactive.                                                             *)
View == [Session -> {"absent", "active", "inactive"}]
NoView == [s \in Session |-> "absent"]
Only(s, status) == [NoView EXCEPT ![s] = status]

Label == {"idle", "lookup", "route", "list", "remember", "retire", "reserve",
          "survey", "select", "retireFirst", "rememberRest", "send", "post",
          "rejected", "uncertain", "bind", "recon", "scan", "adopt", "rememberOne", "none",
          "multiple"}

Call == [pc : Label, key : Key \cup {None}, shape : Shape \cup {None},
         att : Attempt \cup {None}, sess : Session \cup {None}, view : View,
         todo : SUBSET Session, tries : 0 .. Scans]
NewCall(label, k, sh, a, s, view) ==
    [pc |-> label, key |-> k, shape |-> sh, att |-> a, sess |-> s, view |-> view,
     todo |-> {}, tries |-> 0]
Idle == NewCall("idle", None, None, None, None, NoView)

(* creator is history: the attempt whose POST made the session, or None for *)
(* a session made outside this database.                                    *)
RemoteSession == [status : {"unborn", "active", "inactive", "gone"},
                  shape : Shape \cup {None}, creator : Attempt \cup {None}]
Unborn == [status |-> "unborn", shape |-> None, creator |-> None]

(* Every variable holds a value of its kind; the scan of a call never       *)
(* exceeds the rounds it was given.                                         *)
TypeOK ==
    /\ LedgerTypeOK
    /\ call \in [Proc -> Call]
    /\ remote \in [Session -> RemoteSession]
    /\ pending \subseteq Attempt
    /\ posts \in [Key -> Nat]

Init ==
    /\ LedgerInit
    /\ call = [p \in Proc |-> Idle]
    /\ remote = [s \in Session |-> Unborn]
    /\ pending = {}
    /\ posts = [k \in Key |-> 0]

-----------------------------------------------------------------------------
remoteVars == <<remote, pending, posts>>

Visible == {s \in Session : remote[s].status \in {"active", "inactive"}}
Listing == [s \in Session |-> IF s \in Visible THEN remote[s].status ELSE "absent"]
Seen(view) == {s \in Session : view[s] # "absent"}

At(p, label) == call[p].pc = label
Goto(p, label) == call' = [call EXCEPT ![p].pc = label]
End(p) == call' = [call EXCEPT ![p] = Idle]

(* Fault: the match forgets the request and compares only the times.        *)
MatchesAnyShape(a, s) == s \notin att[a].early

(* _candidate_matches: the same source, branch, title, prompt and options,  *)
(* created no more than 60 seconds before the transmission began.           *)
Matches(a, s) == remote[s].shape = att[a].shape /\ s \notin att[a].early

-----------------------------------------------------------------------------
(* Calls: dispatch(spec); list_sessions, which is the prefix of dispatch    *)
(* that observes the fleet ("list"); reconcile, which observes it in its    *)
(* own order ("survey"); and `session adopt`.                               *)
StartDispatch(p) ==
    /\ "dispatch" \in Events
    /\ At(p, "idle")
    /\ \E r \in Requests :
         call' = [call EXCEPT ![p] =
                    NewCall("lookup", r[1], r[2], None, None, NoView)]
    /\ UNCHANGED <<ledgerVars, remoteVars>>

StartList(p) ==
    /\ "list" \in Events
    /\ At(p, "idle")
    /\ Goto(p, "list")
    /\ UNCHANGED <<ledgerVars, remoteVars>>

StartReconcile(p) ==
    /\ "reconcile" \in Events
    /\ At(p, "idle")
    /\ Goto(p, "survey")
    /\ UNCHANGED <<ledgerVars, remoteVars>>

(* get_work: the fingerprint and session of the work item decide.           *)
Lookup(p) ==
    LET k == call[p].key
    IN  /\ At(p, "lookup")
        /\ \/ ~HasWork(k) /\ Goto(p, "list")
           \/ /\ HasWork(k)
              /\ work[k].fingerprint # call[p].shape \/ work[k].session # None
              /\ End(p)
           \/ /\ HasWork(k)
              /\ work[k].fingerprint = call[p].shape /\ work[k].session = None
              /\ call' = [call EXCEPT ![p].pc = "route",
                                      ![p].att = work[k].attempt]
        /\ UNCHANGED <<ledgerVars, remoteVars>>

(* get_attempt: a reservation left behind is sent, a cancelled or rejected  *)
(* attempt ends the call, anything else is reconciled.                      *)
Route(p) ==
    LET state == att[call[p].att].state
    IN  /\ At(p, "route")
        /\ \/ state = "RESERVED" /\ Goto(p, "send")
           \/ state \in {"CANCELLED_LOCAL", "DEFINITIVELY_REJECTED"} /\ End(p)
           \/ /\ state \notin {"RESERVED", "CANCELLED_LOCAL", "DEFINITIVELY_REJECTED"}
              /\ Goto(p, "recon")
        /\ UNCHANGED <<ledgerVars, remoteVars>>

-----------------------------------------------------------------------------
(* Observing the fleet: one complete listing, then an upsert per session    *)
(* (todo: those still to come), each a statement of its own, then the       *)
(* snapshot that retires active rows outside the listing.  reconcile takes  *)
(* the snapshot first and reads the activities of each session after its    *)
(* upsert (ActivityFeed); a failing read ends it.  list_sessions with        *)
(* all_history takes no snapshot.                                           *)
ListRemote(p) ==
    /\ At(p, "list") \/ At(p, "survey")
    /\ \/ call' = [call EXCEPT ![p].pc = IF At(p, "list") THEN "remember" ELSE "select",
                               ![p].view = Listing, ![p].todo = Seen(Listing)]
       \/ End(p)                                    \* the listing fails
    /\ UNCHANGED <<ledgerVars, remoteVars>>

RememberListed(p) ==
    /\ At(p, "remember") \/ At(p, "rememberRest")
    /\ \E s \in call[p].todo :
         /\ UpsertSessions({s}, call[p].view)
         /\ call' = [call EXCEPT ![p].todo = @ \ {s}]
    /\ UNCHANGED remoteVars

EndListing(p) ==
    /\ \/ At(p, "rememberRest") /\ call[p].todo = {}
       \/ At(p, "rememberRest") /\ call[p].todo # Seen(call[p].view)
       \/ At(p, "remember") /\ call[p].todo = {} /\ call[p].key = None
    /\ End(p)
    /\ UNCHANGED <<ledgerVars, remoteVars>>

(* What follows the snapshot: the sessions of a reconcile, else the reserve.*)
AfterSnapshot(p) ==
    LET label == IF call[p].pc \in {"select", "retireFirst"} THEN "rememberRest"
                                                            ELSE "reserve"
    IN  IF label = "reserve" /\ call[p].key = None
        THEN End(p)
        ELSE call' = [call EXCEPT ![p].pc = label, ![p].todo =
                        IF label = "reserve" THEN {} ELSE Seen(call[p].view)]

(* The SELECT of the snapshot; nothing is begun when no row is missing.     *)
Snapshot(p) ==
    LET missing == MissingFrom(Seen(call[p].view))
    IN  /\ At(p, "select") \/ (At(p, "remember") /\ call[p].todo = {})
        /\ IF missing = {}
           THEN AfterSnapshot(p)
           ELSE call' = [call EXCEPT
                           ![p].pc = IF At(p, "select") THEN "retireFirst" ELSE "retire",
                           ![p].todo = missing]
        /\ UNCHANGED <<ledgerVars, remoteVars>>

Retire(p) ==
    /\ At(p, "retire") \/ At(p, "retireFirst")
    /\ MarkNotVisible(call[p].todo)
    /\ AfterSnapshot(p)
    /\ UNCHANGED remoteVars

(* Fault: reservations are accepted while the fleet is frozen.              *)
ReserveWhenFrozen(k, sh) ==
    \/ HasWork(k) /\ (work[k].fingerprint # sh \/ work[k].session # None)
    \/ ~HasWork(k) /\ ~Admits

(* reserve_work with the listing as the baseline.  A work item that another *)
(* process inserted since the lookup is reconciled, whatever its state.     *)
ReserveRefused(k, sh) ==
    \/ frozen
    \/ HasWork(k) /\ (work[k].fingerprint # sh \/ work[k].session # None)
    \/ ~HasWork(k) /\ ~Admits

Reserve(p) ==
    LET k == call[p].key
        sh == call[p].shape
    IN  /\ At(p, "reserve")
        /\ \/ /\ ReserveRefused(k, sh)
              /\ End(p)
              /\ UNCHANGED ledgerVars
           \/ /\ ~ReserveRefused(k, sh) /\ HasWork(k)
              /\ call' = [call EXCEPT ![p].pc = "recon",
                                      ![p].att = work[k].attempt,
                                      ![p].view = NoView]
              /\ UNCHANGED ledgerVars
           \/ /\ ~ReserveRefused(k, sh) /\ ~HasWork(k)
              /\ \E a \in Attempt :
                   /\ att[a].state = "ABSENT"
                   /\ InsertReservation(k, sh, a, Seen(call[p].view))
                   /\ call' = [call EXCEPT ![p].pc = "send", ![p].att = a,
                                           ![p].view = NoView]
        /\ UNCHANGED remoteVars

-----------------------------------------------------------------------------
(* _send_reserved_attempt: begin_send commits before the request leaves.    *)
(* Sessions outside the baseline that exist by then may or may not be older *)
(* than the 60 seconds the match tolerates.                                 *)
Send(p) ==
    LET a == call[p].att
    IN  /\ At(p, "send")
        /\ \/ ~CanBeginSend(a) /\ End(p) /\ UNCHANGED ledgerVars
           \/ /\ CanBeginSend(a)
              /\ \E early \in SUBSET (Visible \ att[a].baseline) : BeginSend(a, early)
              /\ Goto(p, "post")
        /\ UNCHANGED remoteVars

Create(s, a) ==
    remote' = [remote EXCEPT ![s] = [status |-> "active", shape |-> att[a].shape,
                                     creator |-> a]]

Transmit(a) == posts' = [posts EXCEPT ![att[a].key] = @ + 1]

(* The single POST of create_session, by what becomes of it.                *)
PostAnswered(p) ==
    /\ At(p, "post")
    /\ Transmit(call[p].att)
    /\ \E s \in Session :
         /\ remote[s].status = "unborn"
         /\ Create(s, call[p].att)
         /\ call' = [call EXCEPT ![p].pc = "bind", ![p].sess = s,
                                 ![p].view = Only(s, "active")]
    /\ UNCHANGED <<ledgerVars, pending>>

PostRejected(p) ==
    /\ At(p, "post")
    /\ Transmit(call[p].att)
    /\ Goto(p, "rejected")
    /\ UNCHANGED <<ledgerVars, remote, pending>>

(* No answer, or one that does not settle the outcome: the session may      *)
(* exist already, appear later, or never.                                   *)
PostUncertain(p) ==
    /\ At(p, "post")
    /\ Transmit(call[p].att)
    /\ \/ /\ \E s \in Session : remote[s].status = "unborn"
                               /\ Create(s, call[p].att)
          /\ UNCHANGED pending
       \/ pending' = pending \cup {call[p].att} /\ UNCHANGED remote
       \/ UNCHANGED <<remote, pending>>
    /\ Goto(p, "uncertain")
    /\ UNCHANGED ledgerVars

MarkRejected(p) ==
    /\ At(p, "rejected")
    /\ MarkAttemptError(call[p].att, "DEFINITIVELY_REJECTED")
    /\ End(p)
    /\ UNCHANGED remoteVars

MarkReconciling(p) ==
    /\ At(p, "uncertain")
    /\ MarkAttemptError(call[p].att, "RECONCILING")
    /\ Goto(p, "recon")
    /\ UNCHANGED remoteVars

(* bind_session after an answered POST ("bind") or a unique match ("adopt").*)
Bind(p) ==
    LET a == call[p].att
        s == call[p].sess
    IN  /\ At(p, "bind") \/ At(p, "adopt")
        /\ \/ BindConflict(a, s) /\ End(p) /\ UNCHANGED ledgerVars
           \/ /\ ~BindConflict(a, s)
              /\ BindSession(a, s, IF At(p, "bind") THEN "CONFIRMED" ELSE "ADOPTED")
              /\ Goto(p, "rememberOne")
        /\ UNCHANGED remoteVars

(* _remember_session, a statement of its own after the bind committed.      *)
RememberOne(p) ==
    /\ At(p, "rememberOne")
    /\ UpsertSessions({call[p].sess}, call[p].view)
    /\ End(p)
    /\ UNCHANGED remoteVars

-----------------------------------------------------------------------------
(* reconcile_attempt: the row is read once; a bound attempt or one that was *)
(* never sent ends the call.                                                *)
ReadAttempt(p) ==
    LET row == att[call[p].att]
    IN  /\ At(p, "recon")
        /\ IF row.session # None \/ row.state = "RESERVED"
           THEN End(p)
           ELSE call' = [call EXCEPT ![p].pc = "scan", ![p].tries = Scans]
        /\ UNCHANGED <<ledgerVars, remoteVars>>

(* Fault: after an empty round the row is read again and the rounds start   *)
(* over.                                                                    *)
NextRoundUncounted(p) == call' = [call EXCEPT ![p].pc = "recon", ![p].tries = 0]

(* Fault: one round too many.                                               *)
NextRoundOneMore(p) ==
    call' = [call EXCEPT ![p].tries = @ - 1,
                         ![p].pc = IF call[p].tries = 0 THEN "none" ELSE "scan"]

(* Fault: sessions that are no longer active are left out of the match.     *)
CandidatesActive(a) ==
    {s \in Visible \ att[a].baseline : Matches(a, s) /\ remote[s].status = "active"}

(* One round: list, fetch every session outside the baseline, match.  A     *)
(* unique match is adopted, several stop the rounds, none tries again.      *)
Candidates(a) == {s \in Visible \ att[a].baseline : Matches(a, s)}

NextRound(p) ==
    call' = [call EXCEPT ![p].tries = @ - 1,
                         ![p].pc = IF call[p].tries = 1 THEN "none" ELSE "scan"]

Scan(p) ==
    LET found == Candidates(call[p].att)
    IN  /\ At(p, "scan")
        /\ \/ \E s \in Session :
                /\ found = {s}
                /\ call' = [call EXCEPT ![p].pc = "adopt", ![p].sess = s,
                                        ![p].view = Only(s, remote[s].status)]
           \/ Cardinality(found) > 1 /\ Goto(p, "multiple")
           \/ found = {} /\ NextRound(p)
           \/ End(p)                                \* a list or get fails
        /\ UNCHANGED <<ledgerVars, remoteVars>>

MarkIndeterminate(p) ==
    /\ \/ At(p, "none") /\ MarkAttemptError(call[p].att, "INDETERMINATE_NONE")
       \/ At(p, "multiple") /\ MarkAttemptError(call[p].att, "INDETERMINATE_MULTIPLE")
    /\ End(p)
    /\ UNCHANGED remoteVars

(* session adopt SESSION --attempt ATTEMPT: the operator names the pair;    *)
(* only the match is checked before the bind.                               *)
AdoptCommand(p) ==
    /\ "adopt" \in Events
    /\ At(p, "idle")
    /\ \E a \in Attempt, s \in Visible :
         /\ att[a].state # "ABSENT"
         /\ Matches(a, s)
         /\ call' = [call EXCEPT ![p] =
                       NewCall("adopt", None, None, a, s, Only(s, remote[s].status))]
    /\ UNCHANGED <<ledgerVars, remoteVars>>

-----------------------------------------------------------------------------
(* The process dies: its locals are lost, every committed row stays.        *)
Crash(p) ==
    /\ "crash" \in Events
    /\ ~At(p, "idle")
    /\ End(p)
    /\ UNCHANGED <<ledgerVars, remoteVars>>

(* fleet freeze and fleet unfreeze.                                         *)
Fence(value) ==
    /\ generation < MaxGeneration
    /\ SetFrozen(value)
    /\ UNCHANGED <<call, remoteVars>>

TimePasses(a) ==
    /\ "day" \in Events
    /\ StartAges(a)
    /\ UNCHANGED <<call, remoteVars>>

(* Jules: a create accepted without an answer materialises; a session is    *)
(* created, changes state or disappears without this database.              *)
CreateLate(a) ==
    /\ a \in pending
    /\ \E s \in Session : remote[s].status = "unborn" /\ Create(s, a)
    /\ pending' = pending \ {a}
    /\ UNCHANGED <<ledgerVars, call, posts>>

CreateForeign(s) ==
    /\ remote[s].status = "unborn"
    /\ \E sh \in ForeignShapes :
         remote' = [remote EXCEPT ![s] = [status |-> "active", shape |-> sh,
                                          creator |-> None]]
    /\ UNCHANGED <<ledgerVars, call, pending, posts>>

SessionMoves(s) ==
    /\ s \in Visible
    /\ \/ /\ "change" \in Events
          /\ \E status \in {"active", "inactive"} \ {remote[s].status} :
               remote' = [remote EXCEPT ![s].status = status]
       \/ /\ "vanish" \in Events
          /\ remote' = [remote EXCEPT ![s].status = "gone"]
    /\ UNCHANGED <<ledgerVars, call, pending, posts>>

-----------------------------------------------------------------------------
Step(p) ==
    \/ Lookup(p) \/ Route(p) \/ ListRemote(p) \/ RememberListed(p) \/ Snapshot(p)
    \/ Retire(p) \/ EndListing(p) \/ Reserve(p) \/ Send(p) \/ PostAnswered(p)
    \/ PostRejected(p) \/ PostUncertain(p) \/ MarkRejected(p) \/ MarkReconciling(p)
    \/ Bind(p) \/ RememberOne(p) \/ ReadAttempt(p) \/ Scan(p) \/ MarkIndeterminate(p)

Next ==
    \/ \E p \in Proc : \/ StartDispatch(p) \/ StartList(p) \/ StartReconcile(p)
                       \/ AdoptCommand(p) \/ Step(p) \/ Crash(p)
    \/ \E value \in BOOLEAN : Fence(value)
    \/ \E a \in Attempt : TimePasses(a) \/ CreateLate(a)
    \/ \E s \in Session : CreateForeign(s) \/ SessionMoves(s)

Spec == Init /\ [][Next]_vars

(* A process that has not crashed keeps executing: every step of a call is  *)
(* local code, a database transaction (busy timeout 30 s) or a request with *)
(* a timeout.  Nothing makes anybody start a call, freeze the fleet or make *)
(* Jules act.                                                               *)
Fairness == \A p \in Proc : WF_vars(Step(p))
FairSpec == Spec /\ Fairness
-----------------------------------------------------------------------------
(* Safety.                                                                  *)

(* What the request of an attempt made is a candidate of its reconciliation *)
(* as long as Jules lists it: neither the listing another step took before, *)
(* nor the tolerance of the creation time, nor the end of the session hides *)
(* it (alpha-status.md: reconciliation after transport loss).               *)
OwnSessionIsCandidate ==
    \A s \in Visible : remote[s].creator # None => s \in Candidates(remote[s].creator)

(* "A create attempt is automatically sent at most once" (README): however  *)
(* many processes dispatch one key, crash, and dispatch it again, at most   *)
(* one create request leaves for it.                                        *)
AtMostOnePost == \A k \in Key : posts[k] <= 1

(* An attempt that stopped being a reservation before its transmission      *)
(* began (cancelled by a freeze, adopted by the operator) is never sent,    *)
(* not even by a process that already decided to send it.                   *)
FencedNeverSent ==
    [][\A a \in Attempt :
         att[a].state \notin {"ABSENT", "RESERVED"} /\ ~Transmitted(a)
           => att'[a].sent = "never" /\ posts'[att[a].key] = posts[att[a].key]]_vars

(* The rolling budget is read when an attempt is reserved and spent when it *)
(* is sent; the overshoot is bounded by the reservations that may wait.     *)
StartsBounded ==
    LET spent == Cardinality(RecentStarts)
                   + Cardinality({a \in Attempt : att[a].state = "RESERVED"})
    IN  spent = 0 \/ spent < StartLimit + MaxOccupancy

(* With a shape per key and no foreign session of such a shape, the session *)
(* a key answers with is the one its own request made.  (False for keys of  *)
(* one shape: see the run dispatch_twin_ownership.)                         *)
BoundSessionIsOwn ==
    \A a \in Attempt : att[a].session # None => remote[att[a].session].creator = a

(* The session a key answers with never changes once callers may have seen  *)
(* it, under the same proviso.                                              *)
BindingFinal ==
    [][\A k \in Key : work[k].session # None => work'[k].session = work[k].session]_vars

(* Dispatch implements the abstract promise.                                *)
Promise == INSTANCE AtMostOnceCreate WITH
    sent <- posts,
    made <- [s \in Session |-> IF remote[s].creator = None THEN None
                              ELSE att[remote[s].creator].key],
    owner <- [k \in Key |-> work[k].session]

ImplementsPromise == Promise!Spec

(* "definitive rejection remaining definitive" (alpha-status.md).  The code *)
(* does not keep it: see the run dispatch_rejection.                        *)
RejectionIsFinal ==
    [][\A a \in Attempt : att[a].state = "DEFINITIVELY_REJECTED"
                              => att'[a].state = "DEFINITIVELY_REJECTED"]_vars

(* Every call ends: reconciliation stops after its rounds whatever other    *)
(* processes do to the attempt meanwhile.                                   *)
CallsEnd == \A p \in Proc : call[p].pc # "idle" ~> call[p].pc = "idle"
=============================================================================
