----------------------------- MODULE LedgerProofs -----------------------------
(***************************************************************************)
(* Each transaction of Ledger preserves the invariant of the tables, for   *)
(* any number of keys, attempts and sessions.                              *)
(***************************************************************************)
EXTENDS Ledger, TLAPS

(* An attempt is a reservation, or not in the table, before it is sent.     *)
ReservedIsUnsent ==
    \A a \in Attempt : att[a].state \in {"ABSENT", "RESERVED"} => ~Transmitted(a)

LedgerInv ==
    /\ LedgerTypeOK
    /\ WorkMirrorsAttempt
    /\ FreezeLeavesNoReservation
    /\ SessionOwnedOnce
    /\ OpenCreateIsCounted
    /\ ReservedIsUnsent

(* Across a transaction an attempt keeps its place in the table, its key    *)
(* and shape and the fact that it was transmitted; a key keeps its work.    *)
Evolves ==
    /\ \A a \in Attempt : att[a].state # "ABSENT" =>
         /\ att'[a].state # "ABSENT"
         /\ att'[a].key = att[a].key
         /\ att'[a].shape = att[a].shape
    /\ \A a \in Attempt : Transmitted(a) => Transmitted(a)'
    /\ \A k \in Key : HasWork(k) => HasWork(k)'

Known(a) == a \in Attempt /\ att[a].state # "ABSENT"

-----------------------------------------------------------------------------
(* The records: what one assignment to a column leaves.                     *)
LEMMA AttemptStateRow ==
  ASSUME NEW r \in AttemptRow, NEW state \in AttemptState
  PROVE  [r EXCEPT !.state = state] \in AttemptRow
  BY DEF AttemptRow

LEMMA WorkStatusRow ==
  ASSUME NEW r \in WorkRow, NEW state \in AttemptState
  PROVE  [r EXCEPT !.status = state] \in WorkRow
  BY DEF WorkRow

LEMMA EmptyRows == NoAttempt \in AttemptRow /\ NoWork \in WorkRow
  BY DEF NoAttempt, NoWork, AttemptRow, WorkRow

(* The empty database satisfies the invariant.                              *)
LEMMA LedgerInitInv == LedgerInit => LedgerInv
  <1> SUFFICES ASSUME LedgerInit PROVE LedgerInv
    OBVIOUS
  <1>1. LedgerTypeOK
    BY EmptyRows DEF LedgerInit, LedgerTypeOK
  <1>2. \A a \in Attempt : /\ att[a].state = "ABSENT" /\ att[a].session = None
                           /\ att[a].sent = "never"
    BY DEF LedgerInit, NoAttempt
  <1>3. \A k \in Key : work[k].status = "ABSENT"
    BY DEF LedgerInit, NoWork
  <1> QED
    BY <1>1, <1>2, <1>3
    DEF LedgerInv, WorkMirrorsAttempt, HasWork, FreezeLeavesNoReservation, SessionOwnedOnce,
        OpenCreateIsCounted, Transmitted, ReservedIsUnsent

-----------------------------------------------------------------------------
(* mark_attempt_error moves a known attempt to a state that is not RESERVED *)
(* and is counted or refused.                                               *)
LEMMA MarkAttemptErrorInv ==
  ASSUME LedgerInv, NEW a, Known(a),
         NEW state \in (Unresolved \ {"RESERVED"}) \cup {"DEFINITIVELY_REJECTED"},
         MarkAttemptError(a, state)
  PROVE  LedgerInv' /\ Evolves
  <1>1. a \in Attempt /\ att[a].key \in Key
    BY DEF LedgerInv, WorkMirrorsAttempt, Known
  <1>2. state \in AttemptState /\ state \notin {"ABSENT", "RESERVED"}
    BY DEF AttemptState, Unresolved
  <1>3. LedgerTypeOK'
    <2>1. att' = [att EXCEPT ![a] = [att[a] EXCEPT !.state = state]]
      BY DEF MarkAttemptError
    <2>2. work' = [work EXCEPT ![att[a].key] = [work[att[a].key] EXCEPT !.status = state]]
      BY DEF MarkAttemptError
    <2>3. att[a] \in AttemptRow /\ work[att[a].key] \in WorkRow
      BY <1>1 DEF LedgerInv, LedgerTypeOK
    <2>4. att' \in [Attempt -> AttemptRow]
      BY <1>1, <1>2, <2>1, <2>3, AttemptStateRow DEF LedgerInv, LedgerTypeOK
    <2>5. work' \in [Key -> WorkRow]
      BY <1>1, <1>2, <2>2, <2>3, WorkStatusRow DEF LedgerInv, LedgerTypeOK
    <2> QED
      BY <2>4, <2>5 DEF LedgerInv, LedgerTypeOK, MarkAttemptError
  <1>4. \A b \in Attempt :
          /\ att'[b].key = att[b].key /\ att'[b].session = att[b].session
          /\ att'[b].shape = att[b].shape /\ att'[b].sent = att[b].sent
          /\ att'[b].state = IF b = a THEN state ELSE att[b].state
    BY <1>1 DEF LedgerInv, LedgerTypeOK, MarkAttemptError, AttemptRow
  <1>5. \A k \in Key :
          /\ work'[k].fingerprint = work[k].fingerprint
          /\ work'[k].attempt = work[k].attempt
          /\ work'[k].session = work[k].session
          /\ work'[k].status = IF k = att[a].key THEN state ELSE work[k].status
    BY <1>1 DEF LedgerInv, LedgerTypeOK, MarkAttemptError, WorkRow
  <1>6. WorkMirrorsAttempt'
    BY <1>1, <1>2, <1>4, <1>5 DEF LedgerInv, WorkMirrorsAttempt, HasWork, Known
  <1>7. FreezeLeavesNoReservation'
    BY <1>2, <1>4 DEF LedgerInv, FreezeLeavesNoReservation, MarkAttemptError
  <1>8. SessionOwnedOnce'
    BY <1>4 DEF LedgerInv, SessionOwnedOnce
  <1>9. OpenCreateIsCounted'
    BY <1>4 DEF LedgerInv, OpenCreateIsCounted, Transmitted
  <1>10. ReservedIsUnsent'
    BY <1>2, <1>4 DEF LedgerInv, ReservedIsUnsent, Transmitted
  <1>11. Evolves
    BY <1>2, <1>4, <1>5 DEF LedgerInv, Evolves, Transmitted, HasWork
  <1> QED
    BY <1>11, <1>3, <1>6, <1>7, <1>8, <1>9, <1>10 DEF LedgerInv

(* bind_session without a conflict keeps sessions owned once.               *)
LEMMA BindSessionInv ==
  ASSUME LedgerInv, NEW a, Known(a), NEW s \in Session, ~BindConflict(a, s),
         NEW state \in {"CONFIRMED", "ADOPTED"}, BindSession(a, s, state)
  PROVE  LedgerInv' /\ Evolves
  <1>1. a \in Attempt /\ att[a].key \in Key
    BY DEF LedgerInv, WorkMirrorsAttempt, Known
  <1>2. state \in AttemptState /\ state \notin {"ABSENT", "RESERVED"} /\ s # None
    BY NullAssumption DEF AttemptState
  <1> DEFINE row == [att[a] EXCEPT !.state = state, !.session = s]
             item == [work[att[a].key] EXCEPT !.status = state, !.session = s]
  <1>3. LedgerTypeOK'
    <2>1. att' = [att EXCEPT ![a] = row] /\ work' = [work EXCEPT ![att[a].key] = item]
      BY DEF BindSession
    <2>2. att[a] \in AttemptRow /\ work[att[a].key] \in WorkRow
      BY <1>1 DEF LedgerInv, LedgerTypeOK
    <2>3. row \in AttemptRow
      BY <1>2, <2>2 DEF AttemptRow
    <2>4. item \in WorkRow
      BY <1>2, <2>2 DEF WorkRow
    <2>5. att' \in [Attempt -> AttemptRow]
      BY <1>1, <2>1, <2>3 DEF LedgerInv, LedgerTypeOK
    <2>6. work' \in [Key -> WorkRow]
      BY <1>1, <2>1, <2>4 DEF LedgerInv, LedgerTypeOK
    <2> QED
      BY <2>5, <2>6 DEF LedgerInv, LedgerTypeOK, BindSession
  <1>4. \A b \in Attempt :
          /\ att'[b].key = att[b].key /\ att'[b].shape = att[b].shape
          /\ att'[b].sent = att[b].sent
          /\ att'[b].session = IF b = a THEN s ELSE att[b].session
          /\ att'[b].state = IF b = a THEN state ELSE att[b].state
    BY <1>1 DEF LedgerInv, LedgerTypeOK, BindSession, AttemptRow
  <1>5. \A k \in Key :
          /\ work'[k].fingerprint = work[k].fingerprint
          /\ work'[k].attempt = work[k].attempt
          /\ work'[k].session = IF k = att[a].key THEN s ELSE work[k].session
          /\ work'[k].status = IF k = att[a].key THEN state ELSE work[k].status
    BY <1>1 DEF LedgerInv, LedgerTypeOK, BindSession, WorkRow
  <1>6. WorkMirrorsAttempt'
    BY <1>1, <1>2, <1>4, <1>5 DEF LedgerInv, WorkMirrorsAttempt, HasWork, Known
  <1>7. FreezeLeavesNoReservation'
    BY <1>2, <1>4 DEF LedgerInv, FreezeLeavesNoReservation, BindSession
  <1>8. SessionOwnedOnce'
    BY <1>1, <1>2, <1>4 DEF LedgerInv, SessionOwnedOnce, BindConflict
  <1>9. OpenCreateIsCounted'
    BY <1>2, <1>4 DEF LedgerInv, OpenCreateIsCounted, Transmitted
  <1>10. ReservedIsUnsent'
    BY <1>2, <1>4 DEF LedgerInv, ReservedIsUnsent, Transmitted
  <1>11. Evolves
    BY <1>2, <1>4, <1>5 DEF LedgerInv, Evolves, Transmitted, HasWork
  <1> QED
    BY <1>11, <1>3, <1>6, <1>7, <1>8, <1>9, <1>10 DEF LedgerInv

(* begin_send turns a reservation of the current generation into a          *)
(* transmitted, counted attempt.                                            *)
LEMMA BeginSendInv ==
  ASSUME LedgerInv, NEW a \in Attempt, NEW early \in SUBSET Session,
         CanBeginSend(a), BeginSend(a, early)
  PROVE  LedgerInv' /\ Evolves
  <1>1. att[a].key \in Key /\ att[a].state # "ABSENT"
    BY DEF LedgerInv, WorkMirrorsAttempt, CanBeginSend
  <1> DEFINE row == [att[a] EXCEPT !.state = "SEND_STARTED", !.sent = "recent",
                                  !.early = early]
             item == [work[att[a].key] EXCEPT !.status = "SEND_STARTED"]
  <1>2. LedgerTypeOK'
    <2>1. att' = [att EXCEPT ![a] = row] /\ work' = [work EXCEPT ![att[a].key] = item]
      BY DEF BeginSend
    <2>2. att[a] \in AttemptRow /\ work[att[a].key] \in WorkRow
      BY <1>1 DEF LedgerInv, LedgerTypeOK
    <2>3. row \in AttemptRow
      BY <2>2 DEF AttemptRow, AttemptState, Unresolved
    <2>4. item \in WorkRow
      BY <2>2, WorkStatusRow DEF AttemptState, Unresolved
    <2> QED
      BY <2>1, <2>3, <2>4 DEF LedgerInv, LedgerTypeOK, BeginSend
  <1>3. \A b \in Attempt :
          /\ att'[b].key = att[b].key /\ att'[b].shape = att[b].shape
          /\ att'[b].session = att[b].session
          /\ att'[b].sent = IF b = a THEN "recent" ELSE att[b].sent
          /\ att'[b].state = IF b = a THEN "SEND_STARTED" ELSE att[b].state
    BY DEF LedgerInv, LedgerTypeOK, BeginSend, AttemptRow
  <1>4. \A k \in Key :
          /\ work'[k].fingerprint = work[k].fingerprint
          /\ work'[k].attempt = work[k].attempt
          /\ work'[k].session = work[k].session
          /\ work'[k].status = IF k = att[a].key THEN "SEND_STARTED" ELSE work[k].status
    BY <1>1 DEF LedgerInv, LedgerTypeOK, BeginSend, WorkRow
  <1>5. WorkMirrorsAttempt'
    BY <1>1, <1>3, <1>4 DEF LedgerInv, WorkMirrorsAttempt, HasWork
  <1>6. FreezeLeavesNoReservation'
    BY DEF FreezeLeavesNoReservation, BeginSend, CanBeginSend
  <1>7. SessionOwnedOnce'
    BY <1>3 DEF LedgerInv, SessionOwnedOnce
  <1>8. OpenCreateIsCounted'
    BY <1>3 DEF LedgerInv, OpenCreateIsCounted, Transmitted, Unresolved
  <1>9. ReservedIsUnsent'
    BY <1>3 DEF LedgerInv, ReservedIsUnsent, Transmitted
  <1>10. Evolves
    BY <1>3, <1>4 DEF LedgerInv, Evolves, Transmitted, HasWork
  <1> QED
    BY <1>10, <1>2, <1>5, <1>6, <1>7, <1>8, <1>9 DEF LedgerInv

(* reserve_work inserts the only attempt of its key, under the current      *)
(* generation of an unfrozen fleet.                                         *)
LEMMA InsertReservationInv ==
  ASSUME LedgerInv, ~frozen, NEW k \in Key, ~HasWork(k), NEW sh \in Shape,
         NEW a \in Attempt, att[a].state = "ABSENT",
         NEW baseline \in SUBSET Session, InsertReservation(k, sh, a, baseline)
  PROVE  LedgerInv' /\ Evolves
  <1> DEFINE row == [key |-> k, shape |-> sh, state |-> "RESERVED",
                     gen |-> generation, baseline |-> baseline, session |-> None,
                     sent |-> "never", early |-> {}]
             item == [fingerprint |-> sh, attempt |-> a, session |-> None,
                      status |-> "RESERVED"]
  <1>1. att' = [att EXCEPT ![a] = row] /\ work' = [work EXCEPT ![k] = item]
    BY DEF InsertReservation
  <1>2. row \in AttemptRow /\ item \in WorkRow
    BY DEF AttemptRow, WorkRow, AttemptState, Unresolved, LedgerInv, LedgerTypeOK
  <1>3. LedgerTypeOK'
    <2>1. att' \in [Attempt -> AttemptRow]
      BY <1>1, <1>2 DEF LedgerInv, LedgerTypeOK
    <2>2. work' \in [Key -> WorkRow]
      BY <1>1, <1>2 DEF LedgerInv, LedgerTypeOK
    <2> QED
      BY <2>1, <2>2 DEF LedgerInv, LedgerTypeOK, InsertReservation
  <1>4. \A b \in Attempt : att'[b] = IF b = a THEN row ELSE att[b]
    BY <1>1 DEF LedgerInv, LedgerTypeOK
  <1>5. \A j \in Key : work'[j] = IF j = k THEN item ELSE work[j]
    BY <1>1 DEF LedgerInv, LedgerTypeOK
  <1>6. \A b \in Attempt \ {a} : att[b].state # "ABSENT" => att[b].key # k
    BY DEF LedgerInv, WorkMirrorsAttempt, HasWork
  <1>7. \A j \in Key : HasWork(j) => work[j].attempt # a
    BY DEF LedgerInv, WorkMirrorsAttempt
  <1>8. WorkMirrorsAttempt'
    <2>1. \A b \in Attempt : att'[b].state # "ABSENT" =>
            /\ att'[b].key \in Key
            /\ work'[att'[b].key].attempt = b
            /\ work'[att'[b].key].status = att'[b].state
            /\ work'[att'[b].key].session = att'[b].session
            /\ work'[att'[b].key].fingerprint = att'[b].shape
      BY <1>4, <1>5, <1>6 DEF LedgerInv, WorkMirrorsAttempt
    <2>2. \A j \in Key : work'[j].status # "ABSENT" =>
            /\ work'[j].attempt \in Attempt
            /\ att'[work'[j].attempt].state # "ABSENT"
            /\ att'[work'[j].attempt].key = j
      BY <1>4, <1>5, <1>7 DEF LedgerInv, WorkMirrorsAttempt, HasWork
    <2> QED
      BY <2>1, <2>2 DEF WorkMirrorsAttempt, HasWork
  <1>9. FreezeLeavesNoReservation'
    BY DEF FreezeLeavesNoReservation, InsertReservation
  <1>10. SessionOwnedOnce'
    BY <1>4 DEF LedgerInv, SessionOwnedOnce
  <1>11. OpenCreateIsCounted'
    BY <1>4 DEF LedgerInv, OpenCreateIsCounted, Transmitted
  <1>12. ReservedIsUnsent'
    BY <1>4 DEF LedgerInv, ReservedIsUnsent, Transmitted
  <1>13. Evolves
    BY <1>4, <1>5 DEF LedgerInv, ReservedIsUnsent, Evolves, Transmitted, HasWork
  <1> QED
    BY <1>13, <1>3, <1>8, <1>9, <1>10, <1>11, <1>12 DEF LedgerInv

(* set_frozen: a freeze leaves no reservation, and cancels none that was    *)
(* transmitted.                                                             *)
LEMMA SetFrozenInv ==
  ASSUME LedgerInv, NEW value \in BOOLEAN, SetFrozen(value)
  PROVE  LedgerInv' /\ Evolves
  <1> DEFINE hit(b) == value /\ att[b].state = "RESERVED"
             row(b) == [att[b] EXCEPT !.state = "CANCELLED_LOCAL"]
             item(k) == [work[k] EXCEPT !.status = "CANCELLED_LOCAL"]
  <1>1. \A b \in Attempt : att'[b] = IF hit(b) THEN row(b) ELSE att[b]
    BY DEF SetFrozen
  <1>2. \A k \in Key : work'[k] = IF \E b \in Attempt : hit(b) /\ att[b].key = k
                                 THEN item(k) ELSE work[k]
    BY DEF SetFrozen
  <1>3. LedgerTypeOK'
    <2>1. \A b \in Attempt : row(b) \in AttemptRow
      BY AttemptStateRow DEF LedgerInv, LedgerTypeOK, AttemptState
    <2>2. \A k \in Key : item(k) \in WorkRow
      BY WorkStatusRow DEF LedgerInv, LedgerTypeOK, AttemptState
    <2>3. \A b \in Attempt : att'[b] \in AttemptRow
      BY <1>1, <2>1 DEF LedgerInv, LedgerTypeOK
    <2>4. \A k \in Key : work'[k] \in WorkRow
      BY <1>2, <2>2 DEF LedgerInv, LedgerTypeOK
    <2>5. att' \in [Attempt -> AttemptRow] /\ work' \in [Key -> WorkRow]
      BY <2>3, <2>4 DEF SetFrozen
    <2> QED
      BY <2>5 DEF LedgerInv, LedgerTypeOK, SetFrozen
  <1>4. \A b \in Attempt :
          /\ att'[b].key = att[b].key /\ att'[b].session = att[b].session
          /\ att'[b].shape = att[b].shape /\ att'[b].sent = att[b].sent
          /\ att'[b].state = IF hit(b) THEN "CANCELLED_LOCAL" ELSE att[b].state
    BY <1>1 DEF LedgerInv, LedgerTypeOK, AttemptRow
  <1>5. \A k \in Key :
          /\ work'[k].fingerprint = work[k].fingerprint
          /\ work'[k].attempt = work[k].attempt
          /\ work'[k].session = work[k].session
          /\ work'[k].status = IF \E b \in Attempt : hit(b) /\ att[b].key = k
                               THEN "CANCELLED_LOCAL" ELSE work[k].status
    <2>1. \A k \in Key : /\ item(k).fingerprint = work[k].fingerprint
                         /\ item(k).attempt = work[k].attempt
                         /\ item(k).session = work[k].session
                         /\ item(k).status = "CANCELLED_LOCAL"
      BY DEF LedgerInv, LedgerTypeOK, WorkRow
    <2> HIDE DEF item, hit
    <2> QED
      BY <1>2, <2>1
  <1>6. \A b, c \in Attempt : att[b].state # "ABSENT" /\ att[c].state # "ABSENT"
                              /\ att[b].key = att[c].key => b = c
    BY DEF LedgerInv, WorkMirrorsAttempt
  <1>7. WorkMirrorsAttempt'
    <2>1. \A b \in Attempt : att'[b].state # "ABSENT" =>
            /\ att'[b].key \in Key
            /\ work'[att'[b].key].attempt = b
            /\ work'[att'[b].key].status = att'[b].state
            /\ work'[att'[b].key].session = att'[b].session
            /\ work'[att'[b].key].fingerprint = att'[b].shape
      BY <1>4, <1>5, <1>6 DEF LedgerInv, WorkMirrorsAttempt
    <2>2. \A k \in Key : work'[k].status # "ABSENT" =>
            /\ work'[k].attempt \in Attempt
            /\ att'[work'[k].attempt].state # "ABSENT"
            /\ att'[work'[k].attempt].key = k
      BY <1>4, <1>5 DEF LedgerInv, WorkMirrorsAttempt, HasWork
    <2> QED
      BY <2>1, <2>2 DEF WorkMirrorsAttempt, HasWork
  <1>8. FreezeLeavesNoReservation'
    BY <1>4 DEF FreezeLeavesNoReservation, SetFrozen
  <1>9. SessionOwnedOnce'
    BY <1>4 DEF LedgerInv, SessionOwnedOnce
  <1>10. OpenCreateIsCounted'
    BY <1>4 DEF LedgerInv, OpenCreateIsCounted, ReservedIsUnsent, Transmitted
  <1>11. ReservedIsUnsent'
    BY <1>4 DEF LedgerInv, ReservedIsUnsent, Transmitted
  <1>12. Evolves
    BY <1>4, <1>5 DEF LedgerInv, Evolves, Transmitted, HasWork
  <1> QED
    BY <1>12, <1>3, <1>7, <1>8, <1>9, <1>10, <1>11 DEF LedgerInv

(* A start that leaves the rolling window stays a start.                    *)
LEMMA StartAgesInv ==
  ASSUME LedgerInv, NEW a \in Attempt, StartAges(a)
  PROVE  LedgerInv' /\ Evolves
  <1> DEFINE row == [att[a] EXCEPT !.sent = "aged"]
  <1>1. att' = [att EXCEPT ![a] = row]
    BY DEF StartAges
  <1>2. row \in AttemptRow
    BY DEF LedgerInv, LedgerTypeOK, AttemptRow
  <1>3. att' \in [Attempt -> AttemptRow]
    BY <1>1, <1>2 DEF LedgerInv, LedgerTypeOK
  <1>4. LedgerTypeOK'
    BY <1>3 DEF LedgerInv, LedgerTypeOK, StartAges
  <1>5. \A b \in Attempt :
          /\ att'[b].key = att[b].key /\ att'[b].session = att[b].session
          /\ att'[b].shape = att[b].shape /\ att'[b].state = att[b].state
          /\ att'[b].sent = IF b = a THEN "aged" ELSE att[b].sent
    BY DEF LedgerInv, LedgerTypeOK, StartAges, AttemptRow
  <1>6. Evolves
    BY <1>5 DEF StartAges, LedgerInv, Evolves, Transmitted, HasWork
  <1> QED
    BY <1>6, <1>4, <1>5
    DEF LedgerInv, StartAges, WorkMirrorsAttempt, HasWork, FreezeLeavesNoReservation,
        SessionOwnedOnce, OpenCreateIsCounted, ReservedIsUnsent, Transmitted

(* The session cache and the invariant of the tables are independent.       *)
LEMMA SessionCacheInv ==
  ASSUME LedgerInv, UNCHANGED <<frozen, generation, work, att>>,
         sessions' \in [Session -> {"absent", "active", "inactive"}]
  PROVE  LedgerInv' /\ Evolves
  BY DEF LedgerInv, LedgerTypeOK, WorkMirrorsAttempt, HasWork, FreezeLeavesNoReservation,
         SessionOwnedOnce, OpenCreateIsCounted, ReservedIsUnsent, Transmitted, Evolves

LEMMA LedgerStutterInv ==
  ASSUME LedgerInv, UNCHANGED ledgerVars
  PROVE  LedgerInv' /\ Evolves
  BY DEF ledgerVars, LedgerInv, LedgerTypeOK, WorkMirrorsAttempt, HasWork,
         FreezeLeavesNoReservation, SessionOwnedOnce, OpenCreateIsCounted,
         ReservedIsUnsent, Transmitted, Evolves
=============================================================================
