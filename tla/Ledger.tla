-------------------------------- MODULE Ledger --------------------------------
(***************************************************************************)
(* The dispatch tables of the local SQLite state (StateStore, store.py)    *)
(* and the transactions on them.  Every operator that primes a variable is *)
(* one BEGIN IMMEDIATE transaction or one autocommitted statement; the     *)
(* module Dispatch says which process runs which transaction when.         *)
(*                                                                         *)
(*   work[k]      the work_items row of dispatch key k                     *)
(*   att[a]       the dispatch_attempts row of attempt a                   *)
(*   sessions[s]  the sessions row of Jules session s, reduced to whether  *)
(*                its lifecycle counts against the concurrency budget      *)
(*   frozen, generation   the two fleet_* rows of the meta table           *)
(***************************************************************************)
EXTENDS Naturals, FiniteSets

CONSTANTS
    Key,           \* dispatch keys chosen by callers
    Shape,         \* what a specification asks Jules for: the fields that the
                   \* fingerprint and the candidate match compare
    Attempt,       \* attempt ids (fresh UUIDs)
    Session,       \* Jules session ids
    None,          \* SQL NULL
    MaxOccupancy,  \* Settings.new_work_target
    StartLimit     \* rolling start limit less its reserve

ASSUME NullAssumption ==
    None \notin Key \cup Shape \cup Attempt \cup Session
ASSUME BudgetAssumption == MaxOccupancy \in Nat /\ StartLimit \in Nat
ASSUME FiniteAssumption == IsFiniteSet(Attempt) /\ IsFiniteSet(Session)

VARIABLES frozen, generation, work, att, sessions

ledgerVars == <<frozen, generation, work, att, sessions>>

-----------------------------------------------------------------------------
(* States of an attempt; a work item shows the state of its attempt.        *)

(* Fault: a reconciliation that found nothing frees the reservation.        *)
UnresolvedButNone == {"RESERVED", "SEND_STARTED", "RECONCILING",
                      "INDETERMINATE_MULTIPLE"}

Unresolved == {"RESERVED", "SEND_STARTED", "RECONCILING",
               "INDETERMINATE_NONE", "INDETERMINATE_MULTIPLE"}

AttemptState == Unresolved \cup {"CONFIRMED", "ADOPTED",
                                 "CANCELLED_LOCAL", "DEFINITIVELY_REJECTED"}

(* A row that is not in the table has the state ABSENT.                     *)
WorkRow == [fingerprint : Shape \cup {None}, attempt : Attempt \cup {None},
            session : Session \cup {None}, status : AttemptState \cup {"ABSENT"}]

(* sent: send_started_at is NULL, within the last 24 hours, or older.       *)
(* early: the sessions created more than 60 seconds before send_started_at. *)
AttemptRow == [key : Key \cup {None}, shape : Shape \cup {None},
               state : AttemptState \cup {"ABSENT"}, gen : Nat,
               baseline : SUBSET Session, session : Session \cup {None},
               sent : {"never", "recent", "aged"}, early : SUBSET Session]

NoWork == [fingerprint |-> None, attempt |-> None, session |-> None,
           status |-> "ABSENT"]
NoAttempt == [key |-> None, shape |-> None, state |-> "ABSENT", gen |-> 0,
              baseline |-> {}, session |-> None, sent |-> "never", early |-> {}]

LedgerTypeOK ==
    /\ frozen \in BOOLEAN
    /\ generation \in Nat
    /\ work \in [Key -> WorkRow]
    /\ att \in [Attempt -> AttemptRow]
    /\ sessions \in [Session -> {"absent", "active", "inactive"}]

LedgerInit ==
    /\ frozen = FALSE
    /\ generation = 0
    /\ work = [k \in Key |-> NoWork]
    /\ att = [a \in Attempt |-> NoAttempt]
    /\ sessions = [s \in Session |-> "absent"]

-----------------------------------------------------------------------------
(* What reserve_work counts.                                                *)

ActiveSessions == {s \in Session : sessions[s] = "active"}
UnresolvedAttempts == {a \in Attempt : att[a].state \in Unresolved}
Occupancy == Cardinality(ActiveSessions) + Cardinality(UnresolvedAttempts)

RecentStarts == {a \in Attempt : att[a].sent = "recent"}

(* Fault: the rolling budget is off by one.                                 *)
AdmitsOneMore ==
    /\ Occupancy < MaxOccupancy
    /\ Cardinality(RecentStarts) <= StartLimit

Admits ==
    /\ Occupancy < MaxOccupancy
    /\ Cardinality(RecentStarts) < StartLimit

HasWork(k) == work[k].status # "ABSENT"

-----------------------------------------------------------------------------
(* Fault: a freeze cancels the attempts and leaves their work items alone.  *)
SetFrozenAttemptsOnly(value) ==
    /\ generation' = generation + 1
    /\ frozen' = value
    /\ att' = [a \in Attempt |-> IF value /\ att[a].state = "RESERVED"
                                 THEN [att[a] EXCEPT !.state = "CANCELLED_LOCAL"]
                                 ELSE att[a]]
    /\ UNCHANGED <<work, sessions>>

(* set_frozen: a freeze and an unfreeze both start a new generation, and a  *)
(* freeze cancels every reservation whose transmission has not begun.       *)
SetFrozen(value) ==
    LET cancelled == {a \in Attempt : value /\ att[a].state = "RESERVED"}
    IN  /\ generation' = generation + 1
        /\ frozen' = value
        /\ att' = [a \in Attempt |->
                     IF a \in cancelled
                     THEN [att[a] EXCEPT !.state = "CANCELLED_LOCAL"]
                     ELSE att[a]]
        /\ work' = [k \in Key |->
                     IF \E a \in cancelled : att[a].key = k
                     THEN [work[k] EXCEPT !.status = "CANCELLED_LOCAL"]
                     ELSE work[k]]
        /\ UNCHANGED sessions

(* reserve_work, the branch that inserts: a work item and its only attempt, *)
(* RESERVED under the current generation, in one transaction.               *)
InsertReservation(k, sh, a, baseline) ==
    /\ work' = [work EXCEPT ![k] = [fingerprint |-> sh, attempt |-> a,
                                    session |-> None, status |-> "RESERVED"]]
    /\ att' = [att EXCEPT ![a] =
                 [key |-> k, shape |-> sh, state |-> "RESERVED",
                  gen |-> generation, baseline |-> baseline, session |-> None,
                  sent |-> "never", early |-> {}]]
    /\ UNCHANGED <<frozen, generation, sessions>>

CanBeginSendAgain(a) == ~frozen /\ att[a].gen = generation   \* Fault: any state

(* begin_send is refused unless the attempt is still RESERVED, the fleet is *)
(* not frozen and no fence was passed since the reservation.                *)
CanBeginSend(a) ==
    /\ att[a].state = "RESERVED"
    /\ ~frozen
    /\ att[a].gen = generation

BeginSend(a, early) ==
    /\ att' = [att EXCEPT ![a].state = "SEND_STARTED", ![a].sent = "recent",
                          ![a].early = early]
    /\ work' = [work EXCEPT ![att[a].key].status = "SEND_STARTED"]
    /\ UNCHANGED <<frozen, generation, sessions>>

(* Fault: the error also clears the session.                                *)
MarkAttemptUnbound(a, state) ==
    /\ att' = [att EXCEPT ![a].state = state, ![a].session = None]
    /\ work' = [work EXCEPT ![att[a].key].status = state,
                            ![att[a].key].session = None]
    /\ UNCHANGED <<frozen, generation, sessions>>

(* mark_attempt_error: whatever state the attempt is in, it is overwritten; *)
(* session_id stays.                                                        *)
MarkAttemptError(a, state) ==
    /\ att' = [att EXCEPT ![a].state = state]
    /\ work' = [work EXCEPT ![att[a].key].status = state]
    /\ UNCHANGED <<frozen, generation, sessions>>

BindNeverConflicts(a, s) == FALSE   \* Fault: ownership is not looked up

(* bind_session is refused when another attempt already holds the session.  *)
BindConflict(a, s) == \E b \in Attempt \ {a} : att[b].session = s

(* Fault: the work item is told the state but not the session.              *)
BindAttemptOnly(a, s, state) ==
    /\ att' = [att EXCEPT ![a].state = state, ![a].session = s]
    /\ work' = [work EXCEPT ![att[a].key].status = state]
    /\ UNCHANGED <<frozen, generation, sessions>>

(* bind_session, otherwise: both rows, whatever state the attempt is in.    *)
BindSession(a, s, state) ==
    /\ att' = [att EXCEPT ![a].state = state, ![a].session = s]
    /\ work' = [work EXCEPT ![att[a].key].status = state,
                            ![att[a].key].session = s]
    /\ UNCHANGED <<frozen, generation, sessions>>

(* upsert_session of the sessions seen, with the lifecycle they were seen in.*)
UpsertSessions(seen, lifecycle) ==
    /\ sessions' = [s \in Session |-> IF s \in seen THEN lifecycle[s]
                                                   ELSE sessions[s]]
    /\ UNCHANGED <<frozen, generation, work, att>>

(* reconcile_active_snapshot: its SELECT finds the active rows outside the  *)
(* listing; its transaction, begun later, marks those rows not_visible,     *)
(* which no longer counts, whatever became of them since.                   *)
MissingFrom(seen) == ActiveSessions \ seen

MarkNotVisible(missing) ==
    /\ sessions' = [s \in Session |-> IF s \in missing THEN "inactive"
                                                       ELSE sessions[s]]
    /\ UNCHANGED <<frozen, generation, work, att>>

(* A start leaves the rolling 24 hour window.                               *)
StartAges(a) ==
    /\ att[a].sent = "recent"
    /\ att' = [att EXCEPT ![a].sent = "aged"]
    /\ UNCHANGED <<frozen, generation, work, sessions>>

-----------------------------------------------------------------------------
(* Safety of the tables.                                                    *)

Transmitted(a) == att[a].sent # "never"

(* A work item and its attempt never disagree: each inserted attempt is the *)
(* only one of its key, and both rows show one state and one session,       *)
(* whichever transactions of whichever processes touched them.              *)
WorkMirrorsAttempt ==
    /\ \A a \in Attempt : att[a].state # "ABSENT" =>
         /\ att[a].key \in Key
         /\ work[att[a].key].attempt = a
         /\ work[att[a].key].status = att[a].state
         /\ work[att[a].key].session = att[a].session
         /\ work[att[a].key].fingerprint = att[a].shape
    /\ \A k \in Key : HasWork(k) =>
         /\ work[k].attempt \in Attempt
         /\ att[work[k].attempt].state # "ABSENT"
         /\ att[work[k].attempt].key = k

(* A freeze is a fence: while the fleet is frozen no reservation is left    *)
(* that could still be sent.                                                *)
FreezeLeavesNoReservation ==
    frozen => \A a \in Attempt : att[a].state # "RESERVED"

(* "unique remote ownership" (alpha-status): no session is bound to two     *)
(* attempts.                                                                *)
SessionOwnedOnce ==
    \A a, b \in Attempt : att[a].session # None /\ att[a].session = att[b].session
                            => a = b

(* A create whose outcome is open keeps its reservation: until a session is *)
(* bound, a transmitted attempt still counts against the occupancy, unless  *)
(* Jules refused it.                                                        *)
OpenCreateIsCounted ==
    \A a \in Attempt : Transmitted(a) /\ att[a].session = None
                         => att[a].state \in Unresolved \cup {"DEFINITIVELY_REJECTED"}
=============================================================================
