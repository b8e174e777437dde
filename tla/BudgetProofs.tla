----------------------------- MODULE BudgetProofs -----------------------------
(***************************************************************************)
(* The bound on create requests per rolling window, for any number of      *)
(* processes.  An attempt takes from the budget from its reservation until *)
(* its start leaves the window: only reserve_work adds one, and it counts  *)
(* both the starts and the reservations that may still become starts.      *)
(***************************************************************************)
EXTENDS DispatchProofs, FiniteSetTheorems

Reservations == {a \in Attempt : att[a].state = "RESERVED"}
Spenders == RecentStarts \cup Reservations

SpendersBounded ==
    Spenders = {} \/ Cardinality(Spenders) < StartLimit + MaxOccupancy

LEMMA FiniteSpenders ==
  /\ IsFiniteSet(RecentStarts) /\ IsFiniteSet(Reservations) /\ IsFiniteSet(Spenders)
  /\ Cardinality(RecentStarts) \in Nat /\ Cardinality(Reservations) \in Nat
  /\ Cardinality(Spenders) \in Nat
  <1>1. /\ RecentStarts \subseteq Attempt /\ Reservations \subseteq Attempt
        /\ Spenders \subseteq Attempt
    BY DEF RecentStarts, Reservations, Spenders
  <1>2. IsFiniteSet(RecentStarts) /\ IsFiniteSet(Reservations) /\ IsFiniteSet(Spenders)
    BY <1>1, FiniteAssumption, FS_Subset
  <1> QED
    BY <1>2, FS_CardinalityType

(* A reservation has not been sent, so nothing is counted twice.            *)
LEMMA SpendersAddUp ==
  ASSUME LedgerInv
  PROVE  Cardinality(Spenders) = Cardinality(RecentStarts) + Cardinality(Reservations)
  <1>1. RecentStarts \cap Reservations = {}
    BY DEF LedgerInv, ReservedIsUnsent, Transmitted, RecentStarts, Reservations
  <1>2. Cardinality(RecentStarts \cap Reservations) = 0
    BY <1>1, FS_EmptySet
  <1>3. Cardinality(Spenders) = Cardinality(RecentStarts) + Cardinality(Reservations)
                                 - Cardinality(RecentStarts \cap Reservations)
    BY FiniteSpenders, FS_Union DEF Spenders
  <1> QED
    BY <1>2, <1>3, FiniteSpenders

(* A transaction that reserves nothing takes nothing from the budget.       *)
LEMMA NoneSpend ==
  ASSUME SpendersBounded,
         \A a \in Attempt : att'[a].sent = "recent" \/ att'[a].state = "RESERVED"
                              => att[a].sent = "recent" \/ att[a].state = "RESERVED"
  PROVE  SpendersBounded'
  <1>1. Spenders' \subseteq Spenders
    BY DEF Spenders, RecentStarts, Reservations
  <1>2. CASE Spenders = {}
    BY <1>1, <1>2 DEF SpendersBounded
  <1>3. CASE Cardinality(Spenders) < StartLimit + MaxOccupancy
    <2>1. Cardinality(Spenders') <= Cardinality(Spenders) /\ Cardinality(Spenders') \in Nat
      BY <1>1, FiniteSpenders, FS_Subset, FS_CardinalityType
    <2> QED
      BY <1>3, <2>1, FiniteSpenders, BudgetAssumption DEF SpendersBounded
  <1> QED
    BY <1>2, <1>3 DEF SpendersBounded

LEMMA ReservationSpends ==
  ASSUME LedgerInv, Admits, NEW k \in Key, NEW sh, NEW a \in Attempt, NEW b,
         att[a].state = "ABSENT", InsertReservation(k, sh, a, b)
  PROVE  SpendersBounded'
  <1>1. \A c \in Attempt \ {a} : att'[c] = att[c]
    BY DEF InsertReservation, LedgerInv, LedgerTypeOK
  <1>2. a \notin Spenders
    BY DEF Spenders, RecentStarts, Reservations, LedgerInv, ReservedIsUnsent, Transmitted
  <1>3. Spenders' \subseteq Spenders \cup {a}
    BY <1>1 DEF Spenders, RecentStarts, Reservations
  <1>4. /\ IsFiniteSet(Spenders \cup {a})
        /\ Cardinality(Spenders \cup {a}) = Cardinality(Spenders) + 1
    BY <1>2, FiniteSpenders, FS_AddElement
  <1>5. Cardinality(Spenders') <= Cardinality(Spenders) + 1 /\ Cardinality(Spenders') \in Nat
    BY <1>3, <1>4, FS_Subset, FS_CardinalityType
  <1>6. Cardinality(Reservations) <= Cardinality(UnresolvedAttempts)
    <2>1. Reservations \subseteq UnresolvedAttempts /\ UnresolvedAttempts \subseteq Attempt
      BY DEF Reservations, UnresolvedAttempts, Unresolved
    <2> QED
      BY <2>1, FiniteAssumption, FS_Subset
  <1>7. /\ Cardinality(UnresolvedAttempts) \in Nat /\ Cardinality(ActiveSessions) \in Nat
    <2>1. UnresolvedAttempts \subseteq Attempt /\ ActiveSessions \subseteq Session
      BY DEF UnresolvedAttempts, ActiveSessions
    <2> QED
      BY <2>1, FiniteAssumption, FS_Subset, FS_CardinalityType
  <1>8. Cardinality(Reservations) < MaxOccupancy /\ Cardinality(RecentStarts) < StartLimit
    BY <1>6, <1>7, FiniteSpenders, BudgetAssumption DEF Admits, Occupancy
  <1>9. Cardinality(Spenders) = Cardinality(RecentStarts) + Cardinality(Reservations)
    BY SpendersAddUp
  <1> QED
    BY <1>5, <1>8, <1>9, FiniteSpenders, BudgetAssumption DEF SpendersBounded

-----------------------------------------------------------------------------
LEMMA BudgetStep ==
  ASSUME IndInv, SpendersBounded, Next
  PROVE  SpendersBounded'
  <1>1. att \in [Attempt -> AttemptRow]
    BY DEF IndInv, LedgerInv, LedgerTypeOK
  <1>2. \A r \in AttemptRow : \A x :
          /\ [r EXCEPT !.state = x].sent = r.sent /\ [r EXCEPT !.state = x].state = x
          /\ [r EXCEPT !.sent = x].state = r.state /\ [r EXCEPT !.sent = x].sent = x
    BY DEF AttemptRow
  <1>3. ASSUME UNCHANGED att PROVE SpendersBounded'
    BY <1>3, NoneSpend
  <1>4. ASSUME NEW p \in Proc, Reserve(p) PROVE SpendersBounded'
    <2>1. ASSUME NEW a \in Attempt, ~ReserveRefused(call[p].key, call[p].shape),
                 ~HasWork(call[p].key), att[a].state = "ABSENT",
                 InsertReservation(call[p].key, call[p].shape, a, Seen(call[p].view))
          PROVE  SpendersBounded'
      <3>1. call[p].key \in Key
        BY <1>4 DEF Reserve, At, IndInv, CallsOK, CallOK
      <3>2. Admits
        BY <2>1 DEF ReserveRefused
      <3> QED
        BY <2>1, <3>1, <3>2, ReservationSpends DEF IndInv
    <2> QED
      BY <1>3, <1>4, <2>1 DEF Reserve, ledgerVars
  <1>5. ASSUME NEW p \in Proc, Send(p) PROVE SpendersBounded'
    <2>1. ASSUME NEW early, CanBeginSend(call[p].att), BeginSend(call[p].att, early)
          PROVE  SpendersBounded'
      <3>1. PICK a : a = call[p].att
        OBVIOUS
      <3>2. \A b \in Attempt \ {a} : att'[b] = att[b]
        BY <1>1, <2>1, <3>1 DEF BeginSend
      <3>3. att[a].state = "RESERVED"
        BY <2>1, <3>1 DEF CanBeginSend
      <3> QED
        BY <3>2, <3>3, NoneSpend
    <2> QED
      BY <1>3, <1>5, <2>1 DEF Send, ledgerVars
  <1>6. ASSUME NEW p \in Proc, MarkRejected(p) \/ MarkReconciling(p) \/ MarkIndeterminate(p)
        PROVE  SpendersBounded'
    <2>1. PICK state \in AttemptState \ {"RESERVED"} : MarkAttemptError(call[p].att, state)
      BY <1>6 DEF MarkRejected, MarkReconciling, MarkIndeterminate, AttemptState, Unresolved
    <2>2. \A b \in Attempt : /\ att'[b].sent = att[b].sent
                             /\ att'[b].state \in {att[b].state, state}
      BY <1>1, <2>1 DEF MarkAttemptError, AttemptRow
    <2> QED
      BY <2>1, <2>2, NoneSpend
  <1>7. ASSUME NEW p \in Proc, Bind(p) PROVE SpendersBounded'
    <2>1. ASSUME NEW state \in {"CONFIRMED", "ADOPTED"},
                 BindSession(call[p].att, call[p].sess, state)
          PROVE  SpendersBounded'
      <3>1. \A b \in Attempt : /\ att'[b].sent = att[b].sent
                               /\ att'[b].state \in {att[b].state, state}
        BY <1>1, <2>1 DEF BindSession, AttemptRow
      <3> QED
        BY <3>1, NoneSpend
    <2> QED
      BY <1>3, <1>7, <2>1 DEF Bind, ledgerVars
  <1>8. ASSUME NEW value \in BOOLEAN, Fence(value) PROVE SpendersBounded'
    <2>1. \A b \in Attempt : /\ att'[b].sent = att[b].sent
                             /\ att'[b].state \in {att[b].state, "CANCELLED_LOCAL"}
      BY <1>1, <1>8 DEF Fence, SetFrozen, AttemptRow
    <2> QED
      BY <2>1, NoneSpend
  <1>9. ASSUME NEW a \in Attempt, TimePasses(a) PROVE SpendersBounded'
    <2>1. \A b \in Attempt : /\ att'[b].state = att[b].state
                             /\ att'[b].sent \in {att[b].sent, "aged"}
      BY <1>1, <1>9 DEF TimePasses, StartAges, AttemptRow
    <2> QED
      BY <2>1, NoneSpend
  <1>10. ASSUME NEW p \in Proc,
               \/ StartDispatch(p) \/ StartList(p) \/ StartReconcile(p)
               \/ AdoptCommand(p) \/ Lookup(p) \/ Route(p) \/ ListRemote(p)
               \/ Snapshot(p) \/ EndListing(p) \/ PostAnswered(p) \/ PostRejected(p)
               \/ PostUncertain(p) \/ ReadAttempt(p) \/ Scan(p) \/ Crash(p)
               \/ RememberListed(p) \/ RememberOne(p) \/ Retire(p)
        PROVE  SpendersBounded'
    <2>1. UNCHANGED att
      BY <1>10
      DEF StartDispatch, StartList, StartReconcile, AdoptCommand, Lookup, Route,
          ListRemote, Snapshot, EndListing, PostAnswered, PostRejected, PostUncertain,
          ReadAttempt, Scan, Crash, RememberListed, RememberOne, Retire, UpsertSessions,
          MarkNotVisible, ledgerVars
    <2> QED
      BY <1>3, <2>1
  <1>11. ASSUME \/ \E a \in Attempt : CreateLate(a)
                \/ \E s \in Session : CreateForeign(s) \/ SessionMoves(s)
         PROVE  SpendersBounded'
    <2>1. UNCHANGED att
      BY <1>11 DEF CreateLate, CreateForeign, SessionMoves, ledgerVars
    <2> QED
      BY <1>3, <2>1
  <1> QED
    BY <1>4, <1>5, <1>6, <1>7, <1>8, <1>9, <1>10, <1>11 DEF Next, Step

(* The creates of the last 24 hours and the reservations that may still     *)
(* become creates overshoot the start limit by less than the occupancy      *)
(* target, however many processes reserve under it before any of them sends.*)
THEOREM StartsStayBounded == Spec => []StartsBounded
  <1>1. Init => SpendersBounded
    BY DEF Init, LedgerInit, NoAttempt, SpendersBounded, Spenders, RecentStarts, Reservations
  <1>2. IndInv /\ SpendersBounded /\ [Next]_vars => SpendersBounded'
    <2>1. ASSUME SpendersBounded, UNCHANGED vars PROVE SpendersBounded'
      BY <2>1, NoneSpend DEF vars
    <2> QED
      BY <2>1, BudgetStep
  <1>3. IndInv /\ SpendersBounded => StartsBounded
    <2> SUFFICES ASSUME IndInv, SpendersBounded PROVE StartsBounded
      OBVIOUS
    <2>1. Cardinality(Spenders) = Cardinality(RecentStarts) + Cardinality(Reservations)
      BY SpendersAddUp DEF IndInv
    <2>2. Spenders = {} => Cardinality(Spenders) = 0
      BY FS_EmptySet
    <2> QED
      BY <2>1, <2>2, FiniteSpenders DEF SpendersBounded, StartsBounded, Reservations
  <1> QED
    BY <1>1, <1>2, <1>3, Inductive, PTL DEF Spec
=============================================================================
