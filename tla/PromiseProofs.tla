----------------------------- MODULE PromiseProofs -----------------------------
(***************************************************************************)
(* Dispatch implements AtMostOnceCreate, for any number of processes,      *)
(* keys, attempts and sessions; and, when no two requests ask for the same *)
(* thing, a key answers with the session of its own request for good.      *)
(* Last: reconciliation never overlooks what its own request made.         *)
(***************************************************************************)
EXTENDS DispatchProofs

Creator(s) == remote[s].creator

(* What Jules holds or may still make stems from a transmitted request, of  *)
(* which at most one session comes; a key without a work item has none.     *)
MadeOK ==
    /\ \A s \in Session : Creator(s) # None =>
         Known(Creator(s)) /\ posts[att[Creator(s)].key] = 1
    /\ \A s, t \in Session : Creator(s) # None /\ Creator(s) = Creator(t) => s = t
    /\ \A a \in pending : /\ Known(a) /\ posts[att[a].key] = 1
                          /\ \A s \in Session : Creator(s) # a
    /\ \A s \in Session : remote[s].status = "unborn" => Creator(s) = None
    /\ \A k \in Key : ~HasWork(k) => work[k].session = None

PromiseInv == IndInv /\ MadeOK

made == [s \in Session |-> IF Creator(s) = None THEN None ELSE att[Creator(s)].key]
owner == [k \in Key |-> work[k].session]

-----------------------------------------------------------------------------
(* The kinds of steps, by what they do to the refinement.                   *)
Quiet ==
    /\ UNCHANGED remoteVars
    /\ \A k \in Key : work'[k].session = work[k].session

Binds(a, s) ==
    /\ UNCHANGED remoteVars
    /\ ~ BindConflict(a, s)
    /\ \A k \in Key : work'[k].session = IF k = att[a].key THEN s ELSE work[k].session

LEMMA TablesKeepSession ==
  ASSUME IndInv, MadeOK,
         \/ \E value \in BOOLEAN : SetFrozen(value)
         \/ \E k \in Key, sh \in Shape, a \in Attempt, b \in SUBSET Session :
              ~HasWork(k) /\ InsertReservation(k, sh, a, b)
         \/ \E a \in Attempt : \E early : BeginSend(a, early)
         \/ \E a \in Attempt : \E state : MarkAttemptError(a, state)
         \/ UNCHANGED work
  PROVE  \A k \in Key : work'[k].session = work[k].session
  <1>1. work \in [Key -> WorkRow]
    BY DEF IndInv, LedgerInv, LedgerTypeOK
  <1>2. \A k \in Key : work[k] \in WorkRow
    BY <1>1
  <1>3. \A r \in WorkRow : \A x : [r EXCEPT !.status = x].session = r.session
    BY DEF WorkRow
  <1>4. ASSUME NEW value \in BOOLEAN, SetFrozen(value)
        PROVE  \A k \in Key : work'[k].session = work[k].session
    BY <1>2, <1>3, <1>4 DEF SetFrozen
  <1>5. ASSUME NEW k \in Key, NEW sh \in Shape, NEW a \in Attempt, NEW b \in SUBSET Session,
               ~HasWork(k), InsertReservation(k, sh, a, b)
        PROVE  \A j \in Key : work'[j].session = work[j].session
    BY <1>1, <1>5 DEF InsertReservation, MadeOK
  <1>6. ASSUME NEW a \in Attempt, NEW early, BeginSend(a, early)
        PROVE  \A k \in Key : work'[k].session = work[k].session
    BY <1>1, <1>2, <1>3, <1>6 DEF BeginSend
  <1>7. ASSUME NEW a \in Attempt, NEW state, MarkAttemptError(a, state)
        PROVE  \A k \in Key : work'[k].session = work[k].session
    BY <1>1, <1>2, <1>3, <1>7 DEF MarkAttemptError
  <1> QED
    BY <1>4, <1>5, <1>6, <1>7

LEMMA CallHolds ==
  ASSUME IndInv, NEW p \in Proc, call[p].pc \in HoldsAttempt
  PROVE  Known(call[p].att)
  BY DEF IndInv, CallsOK, CallOK, Known

BindsOwn(p) == Bind(p) /\ Known(call[p].att) /\ Binds(call[p].att, call[p].sess)

LEMMA StepsAre ==
  ASSUME IndInv, MadeOK, Next
  PROVE  \/ Quiet
         \/ \E p \in Proc : BindsOwn(p)
         \/ \E p \in Proc : PostAnswered(p) \/ PostRejected(p) \/ PostUncertain(p)
         \/ \E a \in Attempt : CreateLate(a)
         \/ \E s \in Session : CreateForeign(s) \/ SessionMoves(s)
  <1>1. ASSUME NEW p \in Proc,
               \/ StartDispatch(p) \/ StartList(p) \/ StartReconcile(p)
               \/ AdoptCommand(p) \/ Lookup(p) \/ Route(p) \/ ListRemote(p)
               \/ RememberListed(p) \/ EndListing(p) \/ Snapshot(p) \/ Retire(p)
               \/ RememberOne(p) \/ ReadAttempt(p) \/ Scan(p) \/ Crash(p)
        PROVE  Quiet
    <2>1. UNCHANGED remoteVars /\ UNCHANGED work
      BY <1>1
      DEF StartDispatch, StartList, StartReconcile, AdoptCommand, Lookup, Route,
          ListRemote, RememberListed, EndListing, Snapshot, Retire, RememberOne,
          ReadAttempt, Scan, Crash, ledgerVars, UpsertSessions, MarkNotVisible
    <2> QED
      BY <2>1 DEF Quiet
  <1>2. ASSUME NEW p \in Proc, Reserve(p) PROVE Quiet
    <2>1. UNCHANGED remoteVars
      BY <1>2 DEF Reserve
    <2>2. call[p].key \in Key /\ call[p].shape \in Shape
          /\ Seen(call[p].view) \in SUBSET Session
      BY <1>2 DEF Reserve, At, IndInv, CallsOK, CallOK, Seen
    <2>3. \/ UNCHANGED work
          \/ \E a \in Attempt : ~HasWork(call[p].key)
               /\ InsertReservation(call[p].key, call[p].shape, a, Seen(call[p].view))
      BY <1>2 DEF Reserve, ledgerVars
    <2> QED
      BY <2>1, <2>2, <2>3, TablesKeepSession DEF Quiet
  <1>3. ASSUME NEW p \in Proc, Send(p) PROVE Quiet
    <2>1. UNCHANGED remoteVars /\ call[p].att \in Attempt
      BY <1>3, CallHolds DEF Send, At, HoldsAttempt, Known
    <2>2. UNCHANGED work \/ \E early : BeginSend(call[p].att, early)
      BY <1>3 DEF Send, ledgerVars
    <2> QED
      BY <2>1, <2>2, TablesKeepSession DEF Quiet
  <1>4. ASSUME NEW p \in Proc, MarkRejected(p) \/ MarkReconciling(p) \/ MarkIndeterminate(p)
        PROVE  Quiet
    <2>1. UNCHANGED remoteVars /\ call[p].att \in Attempt
      BY <1>4, CallHolds
      DEF MarkRejected, MarkReconciling, MarkIndeterminate, At, HoldsAttempt, Known
    <2>2. \E state : MarkAttemptError(call[p].att, state)
      BY <1>4 DEF MarkRejected, MarkReconciling, MarkIndeterminate
    <2> QED
      BY <2>1, <2>2, TablesKeepSession DEF Quiet
  <1>5. ASSUME NEW p \in Proc, Bind(p)
        PROVE  Quiet \/ BindsOwn(p)
    <2> DEFINE a == call[p].att
               s == call[p].sess
    <2>1. UNCHANGED remoteVars /\ Known(a) /\ a \in Attempt /\ s \in Session
      BY <1>5, CallHolds DEF Bind, At, HoldsAttempt, Known, IndInv, CallsOK, CallOK
    <2>2. ASSUME UNCHANGED ledgerVars PROVE Quiet
      BY <2>1, <2>2 DEF Quiet, ledgerVars
    <2>3. ASSUME NEW state, ~BindConflict(a, s), BindSession(a, s, state)
          PROVE  Binds(a, s)
      <3>1. work \in [Key -> WorkRow] /\ att[a].key \in Key
        BY <2>1 DEF IndInv, LedgerInv, LedgerTypeOK, WorkMirrorsAttempt, Known
      <3>2. \A k \in Key : work[k] \in WorkRow
        BY <3>1
      <3>3. ASSUME NEW k \in Key
            PROVE  work'[k].session = IF k = att[a].key THEN s ELSE work[k].session
        BY <2>3, <3>1, <3>2 DEF BindSession, WorkRow
      <3> HIDE DEF a, s
      <3> QED
        BY <2>1, <2>3, <3>3 DEF Binds
    <2>4. \/ UNCHANGED ledgerVars
          \/ \E state : ~BindConflict(a, s) /\ BindSession(a, s, state)
      BY <1>5 DEF Bind
    <2> HIDE DEF a, s
    <2>5. Quiet \/ Binds(a, s)
      BY <2>2, <2>3, <2>4
    <2> QED
      BY <1>5, <2>1, <2>5 DEF BindsOwn, a, s
  <1>6. ASSUME NEW value \in BOOLEAN, Fence(value) PROVE Quiet
    BY <1>6, TablesKeepSession DEF Fence, Quiet
  <1>7. ASSUME NEW a \in Attempt, TimePasses(a) PROVE Quiet
    BY <1>7 DEF TimePasses, StartAges, Quiet
  <1> QED
    BY <1>1, <1>2, <1>3, <1>4, <1>5, <1>6, <1>7 DEF Next, Step

LEMMA StepKinds ==
  ASSUME IndInv, MadeOK, Next
  PROVE  \/ Quiet
         \/ \E a \in Attempt, s \in Session : Known(a) /\ Binds(a, s)
         \/ \E p \in Proc : PostAnswered(p) \/ PostRejected(p) \/ PostUncertain(p)
         \/ \E a \in Attempt : CreateLate(a)
         \/ \E s \in Session : CreateForeign(s) \/ SessionMoves(s)
  <1>1. ASSUME NEW p \in Proc, BindsOwn(p)
        PROVE  \E a \in Attempt, s \in Session : Known(a) /\ Binds(a, s)
    <2>1. Known(call[p].att) /\ call[p].att \in Attempt /\ call[p].sess \in Session
      BY <1>1, CallHolds DEF BindsOwn, Bind, At, Known, IndInv, CallsOK, CallOK
    <2> QED
      BY <1>1, <2>1 DEF BindsOwn
  <1> QED
    BY <1>1, StepsAre

-----------------------------------------------------------------------------
LEMMA KnownEvolves ==
  ASSUME Evolves, NEW a, Known(a)
  PROVE  Known(a)' /\ att'[a].key = att[a].key /\ att'[a].shape = att[a].shape
  BY DEF Evolves, Known

LEMMA QuietMade ==
  ASSUME MadeOK, Evolves, UNCHANGED remoteVars,
         \A k \in Key : ~HasWork(k)' => work'[k].session = work[k].session
  PROVE  MadeOK'
  <1>1. \A s \in Session : Creator(s)' = Creator(s) /\ remote'[s] = remote[s]
    BY DEF remoteVars, Creator
  <1>2. pending' = pending /\ posts' = posts
    BY DEF remoteVars
  <1>3. \A k \in Key : ~HasWork(k)' => work'[k].session = None
    BY DEF Evolves, MadeOK
  <1> QED
    BY <1>1, <1>2, <1>3, KnownEvolves DEF MadeOK

(* The one transmission: nothing is at Jules or under way for its key.      *)
LEMMA BeforePost ==
  ASSUME PromiseInv, NEW p \in Proc, At(p, "post")
  PROVE  LET a == call[p].att
         IN  /\ Known(a) /\ a \in Attempt /\ att[a].key \in Key /\ a # None
             /\ posts[att[a].key] = 0
             /\ \A s \in Session : Creator(s) # None =>
                   Creator(s) # a /\ att[Creator(s)].key # att[a].key
             /\ \A b \in pending : b # a /\ att[b].key # att[a].key
  <1> DEFINE a == call[p].att
  <1>1. Known(a) /\ a \in Attempt
    BY CallHolds DEF PromiseInv, At, HoldsAttempt, Known
  <1>2. att[a].key \in Key /\ posts[att[a].key] = 0
    BY <1>1 DEF PromiseInv, IndInv, LedgerInv, WorkMirrorsAttempt, Known, PostsOK
  <1>3. a # None
    BY <1>1, NullAssumption
  <1> HIDE DEF a
  <1>4. \A s \in Session : Creator(s) # None =>
                   Creator(s) # a /\ att[Creator(s)].key # att[a].key
    BY <1>2 DEF PromiseInv, MadeOK
  <1>5. \A b \in pending : b # a /\ att[b].key # att[a].key
    BY <1>2 DEF PromiseInv, MadeOK
  <1> QED
    BY <1>1, <1>2, <1>3, <1>4, <1>5 DEF a

LEMMA CreateMakes ==
  ASSUME PromiseInv, NEW s \in Session, NEW a \in Attempt, Create(s, a)
  PROVE  /\ Creator(s)' = a
         /\ remote'[s].status # "unborn"
         /\ \A t \in Session \ {s} : remote'[t] = remote[t] /\ Creator(t)' = Creator(t)
  <1>1. remote \in [Session -> RemoteSession]
    BY DEF PromiseInv, IndInv, RemoteOK
  <1> QED
    BY <1>1 DEF Create, Creator

LEMMA TransmitCounts ==
  ASSUME PromiseInv, NEW a \in Attempt, att[a].key \in Key, posts[att[a].key] = 0,
         Transmit(a)
  PROVE  /\ posts' = [posts EXCEPT ![att[a].key] = 1]
         /\ posts'[att[a].key] = 1
         /\ \A k \in Key \ {att[a].key} : posts'[k] = posts[k]
  <1>1. posts \in [Key -> Nat]
    BY DEF PromiseInv, IndInv, RemoteOK
  <1> QED
    BY <1>1 DEF Transmit

(* What a POST does: its key has been sent, and a session may exist.        *)
LEMMA PostDoes ==
  ASSUME PromiseInv, NEW p \in Proc,
         PostAnswered(p) \/ PostRejected(p) \/ PostUncertain(p)
  PROVE  LET a == call[p].att
         IN  /\ At(p, "post") /\ Transmit(a) /\ UNCHANGED ledgerVars
             /\ \/ /\ \E s \in Session : remote[s].status = "unborn" /\ Create(s, a)
                   /\ UNCHANGED pending
                \/ UNCHANGED remote /\ pending' \in {pending, pending \cup {a}}
  BY DEF PostAnswered, PostRejected, PostUncertain

LEMMA KeysAreKnown ==
  ASSUME PromiseInv, NEW a, Known(a)
  PROVE  a \in Attempt /\ a # None /\ att[a].key \in Key
  BY NullAssumption DEF PromiseInv, IndInv, LedgerInv, WorkMirrorsAttempt, Known

LEMMA LedgerStays ==
  ASSUME UNCHANGED ledgerVars
  PROVE  /\ \A a : Known(a)' <=> Known(a)
         /\ att' = att
         /\ work' = work
         /\ \A k : HasWork(k)' <=> HasWork(k)
  BY DEF ledgerVars, Known, HasWork

LEMMA PostMade ==
  ASSUME PromiseInv, NEW p \in Proc,
         PostAnswered(p) \/ PostRejected(p) \/ PostUncertain(p)
  PROVE  MadeOK'
  <1>1. PICK a : a = call[p].att
    OBVIOUS
  <1>2. /\ At(p, "post") /\ Transmit(a) /\ UNCHANGED ledgerVars
        /\ \/ /\ \E s \in Session : remote[s].status = "unborn" /\ Create(s, a)
              /\ UNCHANGED pending
           \/ UNCHANGED remote /\ pending' \in {pending, pending \cup {a}}
    BY <1>1, PostDoes
  <1>3. /\ Known(a) /\ a \in Attempt /\ att[a].key \in Key /\ a # None
        /\ posts[att[a].key] = 0
        /\ \A s \in Session : Creator(s) # None =>
              Creator(s) # a /\ att[Creator(s)].key # att[a].key
        /\ \A b \in pending : b # a /\ att[b].key # att[a].key
    BY <1>1, <1>2, BeforePost
  <1>4. /\ posts'[att[a].key] = 1
        /\ \A k \in Key \ {att[a].key} : posts'[k] = posts[k]
    BY <1>2, <1>3, TransmitCounts
  <1>5. /\ \A b : Known(b)' <=> Known(b)
        /\ att' = att /\ work' = work
        /\ \A k : HasWork(k)' <=> HasWork(k)
    BY <1>2, LedgerStays
  <1>6. MadeOK
    BY DEF PromiseInv
  <1>7. \A k \in Key : ~HasWork(k)' => work'[k].session = None
    BY <1>5, <1>6 DEF MadeOK
  <1>8. \A s \in Session : Creator(s) # None =>
           Known(Creator(s)) /\ posts'[att[Creator(s)].key] = 1
    BY <1>3, <1>4, <1>6, KeysAreKnown DEF MadeOK
  <1>9. \A b \in pending : Known(b) /\ posts'[att[b].key] = 1
    BY <1>3, <1>4, <1>6, KeysAreKnown DEF MadeOK
  <1>10. ASSUME NEW s \in Session, remote[s].status = "unborn", Create(s, a), UNCHANGED pending
         PROVE  MadeOK'
    <2>1. /\ Creator(s)' = a
          /\ remote'[s].status # "unborn"
          /\ \A t \in Session \ {s} : remote'[t] = remote[t] /\ Creator(t)' = Creator(t)
      BY <1>3, <1>10, CreateMakes
    <2>2. \A b : \A t \in Session : Creator(t)' = b /\ b # None =>
             Known(b) /\ posts'[att[b].key] = 1
      BY <1>3, <1>4, <1>5, <1>8, <2>1
    <2>3. \A t, u \in Session : Creator(t)' # None /\ Creator(t)' = Creator(u)' => t = u
      BY <1>3, <1>6, <2>1 DEF MadeOK
    <2>4. \A b \in pending' : /\ Known(b)' /\ posts'[att'[b].key] = 1
                              /\ \A t \in Session : Creator(t)' # b
      BY <1>3, <1>5, <1>6, <1>9, <1>10, <2>1 DEF MadeOK
    <2>5. \A t \in Session : remote'[t].status = "unborn" => Creator(t)' = None
      BY <1>6, <2>1 DEF MadeOK
    <2>6. (\A t \in Session : Creator(t) # None =>
             Known(Creator(t)) /\ posts[att[Creator(t)].key] = 1)'
      BY <1>5, <2>2 DEF Known
    <2> QED
      BY <1>7, <2>3, <2>4, <2>5, <2>6 DEF MadeOK
  <1>11. CASE UNCHANGED remote /\ pending' \in {pending, pending \cup {a}}
    <2>1. \A t \in Session : Creator(t)' = Creator(t) /\ remote'[t] = remote[t]
      BY <1>11 DEF Creator
    <2>2. \A t \in Session : Creator(t) # a
      BY <1>3
    <2> QED
      BY <1>3, <1>4, <1>5, <1>6, <1>7, <1>8, <1>9, <1>11, <2>1, <2>2 DEF MadeOK
  <1> QED
    BY <1>2, <1>10, <1>11

LEMMA LateMade ==
  ASSUME PromiseInv, NEW a \in Attempt, CreateLate(a)
  PROVE  MadeOK'
  <1>1. PICK s \in Session : remote[s].status = "unborn" /\ Create(s, a)
    BY DEF CreateLate
  <1>2. a \in pending /\ pending' = pending \ {a} /\ UNCHANGED <<ledgerVars, posts>>
    BY DEF CreateLate
  <1>3. /\ Creator(s)' = a
        /\ remote'[s].status # "unborn"
        /\ \A t \in Session \ {s} : remote'[t] = remote[t] /\ Creator(t)' = Creator(t)
    BY <1>1, CreateMakes
  <1>4. MadeOK
    BY DEF PromiseInv
  <1>5. Known(a) /\ posts[att[a].key] = 1 /\ a # None /\ \A t \in Session : Creator(t) # a
    BY <1>2, <1>4, KeysAreKnown DEF MadeOK
  <1>6. /\ \A b : Known(b)' <=> Known(b)
        /\ att' = att /\ work' = work
        /\ \A k : HasWork(k)' <=> HasWork(k)
    BY <1>2, LedgerStays
  <1>7. \A b : \A t \in Session : Creator(t)' = b /\ b # None =>
           Known(b) /\ posts'[att[b].key] = 1
    BY <1>2, <1>3, <1>4, <1>5, <1>6 DEF MadeOK
  <1>8. \A t, u \in Session : Creator(t)' # None /\ Creator(t)' = Creator(u)' => t = u
    BY <1>3, <1>4, <1>5 DEF MadeOK
  <1>9. \A b \in pending' : /\ Known(b)' /\ posts'[att'[b].key] = 1
                            /\ \A t \in Session : Creator(t)' # b
    BY <1>2, <1>3, <1>4, <1>6 DEF MadeOK
  <1>10. \A t \in Session : remote'[t].status = "unborn" => Creator(t)' = None
    BY <1>3, <1>4 DEF MadeOK
  <1>11. \A k \in Key : ~HasWork(k)' => work'[k].session = None
    BY <1>4, <1>6 DEF MadeOK
  <1>12. (\A t \in Session : Creator(t) # None =>
            Known(Creator(t)) /\ posts[att[Creator(t)].key] = 1)'
    BY <1>6, <1>7 DEF Known
  <1> QED
    BY <1>8, <1>9, <1>10, <1>11, <1>12 DEF MadeOK

(* Foreign sessions and changes at Jules leave the creators alone.          *)
LEMMA ForeignKeepsCreators ==
  ASSUME PromiseInv, NEW s \in Session, CreateForeign(s) \/ SessionMoves(s)
  PROVE  /\ UNCHANGED <<ledgerVars, pending, posts>>
         /\ \A t \in Session : Creator(t)' = Creator(t)
         /\ \A t \in Session : remote'[t].status = "unborn" => remote[t].status = "unborn"
  <1>1. remote \in [Session -> RemoteSession] /\ MadeOK
    BY DEF PromiseInv, IndInv, RemoteOK
  <1>2. UNCHANGED <<ledgerVars, pending, posts>>
    BY DEF CreateForeign, SessionMoves
  <1>3. CASE CreateForeign(s)
    BY <1>1, <1>2, <1>3 DEF CreateForeign, Creator, MadeOK
  <1>4. ASSUME NEW status \in {"active", "inactive", "gone"},
               remote' = [remote EXCEPT ![s].status = status]
        PROVE  /\ \A t \in Session : Creator(t)' = Creator(t)
               /\ \A t \in Session : remote'[t].status = "unborn" => remote[t].status = "unborn"
    BY <1>1, <1>4 DEF Creator, RemoteSession
  <1> QED
    BY <1>2, <1>3, <1>4 DEF SessionMoves

LEMMA ForeignMade ==
  ASSUME PromiseInv, NEW s \in Session, CreateForeign(s) \/ SessionMoves(s)
  PROVE  MadeOK'
  <1>1. /\ UNCHANGED <<ledgerVars, pending, posts>>
        /\ \A t \in Session : Creator(t)' = Creator(t)
        /\ \A t \in Session : remote'[t].status = "unborn" => remote[t].status = "unborn"
    BY ForeignKeepsCreators
  <1>2. /\ \A b : Known(b)' <=> Known(b)
        /\ att' = att /\ work' = work
        /\ \A k : HasWork(k)' <=> HasWork(k)
    BY <1>1, LedgerStays
  <1> QED
    BY <1>1, <1>2 DEF PromiseInv, MadeOK

LEMMA PromiseInvNext == PromiseInv /\ [Next]_vars => PromiseInv'
  <1>1. ASSUME PromiseInv, Next PROVE MadeOK'
    <2>1. IndInv /\ MadeOK /\ Evolves
      BY <1>1, LedgerStep DEF PromiseInv
    <2>2. CASE Quiet
      BY <2>1, <2>2, QuietMade DEF Quiet
    <2>3. ASSUME NEW a \in Attempt, NEW s \in Session, Known(a), Binds(a, s) PROVE MadeOK'
      <3>1. HasWork(att[a].key) /\ att[a].key \in Key
        BY <2>1, <2>3 DEF IndInv, LedgerInv, WorkMirrorsAttempt, Known, HasWork
      <3>2. \A k \in Key : k = att[a].key => HasWork(k)'
        BY <2>1, <3>1 DEF Evolves
      <3>3. \A k \in Key : ~HasWork(k)' => work'[k].session = work[k].session
        BY <2>3, <3>2 DEF Binds
      <3> QED
        BY <2>1, <2>3, <3>3, QuietMade DEF Binds
    <2> QED
      BY <1>1, <2>1, <2>2, <2>3, StepKinds, PostMade, LateMade, ForeignMade
  <1>2. ASSUME PromiseInv, UNCHANGED vars PROVE MadeOK'
    BY <1>2 DEF PromiseInv, MadeOK, vars, Creator, Known, HasWork
  <1> QED
    BY <1>1, <1>2, NextInv DEF PromiseInv

LEMMA PromiseInvInit == Init => PromiseInv
  <1> SUFFICES ASSUME Init PROVE MadeOK
    BY InitInv DEF PromiseInv
  <1> QED
    BY DEF Init, MadeOK, Creator, Unborn, LedgerInit, NoWork

-----------------------------------------------------------------------------
(* The refinement: quiet steps and foreign sessions stutter, a bind owns, a *)
(* POST sends, a late create makes later.                                   *)
LEMMA MadeStays ==
  ASSUME MadeOK, Evolves, \A s \in Session : Creator(s)' = Creator(s)
  PROVE  made' = made
  <1>1. \A s \in Session : Creator(s) # None => att'[Creator(s)].key = att[Creator(s)].key
    BY KnownEvolves DEF MadeOK
  <1> QED
    BY <1>1 DEF made

LEMMA OwnerStays ==
  ASSUME \A k \in Key : work'[k].session = work[k].session
  PROVE  owner' = owner
  BY DEF owner

(* A new session is the first one of its key.                               *)
LEMMA MakesOne ==
  ASSUME PromiseInv, att' = att, NEW s \in Session, NEW a \in Attempt, Known(a),
         remote[s].status = "unborn", Create(s, a),
         \A t \in Session : Creator(t) # None => att[Creator(t)].key # att[a].key
  PROVE  /\ made[s] = None
         /\ \A t \in Session : made[t] # att[a].key
         /\ made' = [made EXCEPT ![s] = att[a].key]
  <1>1. /\ Creator(s)' = a
        /\ \A t \in Session \ {s} : Creator(t)' = Creator(t)
    BY CreateMakes
  <1>2. Creator(s) = None
    BY DEF PromiseInv, MadeOK
  <1>3. a # None /\ att[a].key # None
    BY KeysAreKnown, NullAssumption
  <1>4. made[s] = None /\ \A t \in Session : made[t] # att[a].key
    BY <1>2, <1>3 DEF made
  <1>5. \A t \in Session : made'[t] = IF t = s THEN att[a].key ELSE made[t]
    BY <1>1, <1>3 DEF made
  <1>6. made \in [Session -> {made[t] : t \in Session}] /\ DOMAIN made' = Session
    BY DEF made
  <1>7. made' = [t \in Session |-> made'[t]]
    BY DEF made
  <1>8. made' = [t \in Session |-> IF t = s THEN att[a].key ELSE made[t]]
    BY <1>5, <1>7
  <1>9. DOMAIN made = Session
    BY DEF made
  <1> HIDE DEF made
  <1> QED
    BY <1>4, <1>8, <1>9

LEMMA PromiseInit == Init => Promise!Init
  BY DEF Init, LedgerInit, Unborn, NoWork, Promise!Init

LEMMA OwnStep ==
  ASSUME PromiseInv, Evolves, NEW a \in Attempt, NEW s \in Session, Known(a), Binds(a, s)
  PROVE  Promise!Own(att[a].key, s)
  <1>1. att[a].key \in Key /\ work[att[a].key].attempt = a
    BY DEF PromiseInv, IndInv, LedgerInv, WorkMirrorsAttempt, Known
  <1>2. made' = made /\ posts' = posts
    BY MadeStays DEF PromiseInv, Binds, remoteVars, Creator
  <1>3. ASSUME NEW j \in Key \ {att[a].key}, work[j].session = s
        PROVE  FALSE
    <2>1. HasWork(j)
      BY <1>3, NullAssumption DEF PromiseInv, MadeOK
    <2>2. PICK b : b = work[j].attempt
      OBVIOUS
    <2>3. b \in Attempt /\ att[b].state # "ABSENT" /\ att[b].key = j
      BY <2>1, <2>2 DEF PromiseInv, IndInv, LedgerInv, WorkMirrorsAttempt
    <2>4. att[b].session = s
      BY <1>3, <2>3 DEF PromiseInv, IndInv, LedgerInv, WorkMirrorsAttempt
    <2>5. b # a
      BY <1>3, <2>3
    <2> QED
      BY <2>3, <2>4, <2>5 DEF Binds, BindConflict
  <1>4. owner' = [owner EXCEPT ![att[a].key] = s]
    BY <1>1 DEF Binds, owner
  <1> QED
    BY <1>2, <1>3, <1>4 DEF Promise!Own, made, owner, Creator

LEMMA SendStep ==
  ASSUME PromiseInv, Evolves, NEW p \in Proc, NEW k \in Key, k = att[call[p].att].key,
         PostAnswered(p) \/ PostRejected(p) \/ PostUncertain(p)
  PROVE  Promise!Send(k)
  <1>1. PICK a : a = call[p].att
    OBVIOUS
  <1>2. /\ At(p, "post") /\ Transmit(a) /\ UNCHANGED ledgerVars
        /\ \/ \E s \in Session : remote[s].status = "unborn" /\ Create(s, a)
           \/ UNCHANGED remote
    BY <1>1, PostDoes
  <1>3. /\ Known(a) /\ a \in Attempt /\ att[a].key \in Key /\ a # None
        /\ posts[att[a].key] = 0
        /\ \A s \in Session : Creator(s) # None =>
              Creator(s) # a /\ att[Creator(s)].key # att[a].key
    BY <1>1, <1>2, BeforePost
  <1>4. posts' = [posts EXCEPT ![att[a].key] = 1]
    BY <1>2, <1>3, TransmitCounts
  <1>5. owner' = owner /\ att' = att
    BY <1>2 DEF owner, ledgerVars
  <1>6. ASSUME NEW s \in Session, remote[s].status = "unborn", Create(s, a)
        PROVE  Promise!Makes(k)
    <2>1. /\ made[s] = None
          /\ \A t \in Session : made[t] # att[a].key
          /\ made' = [made EXCEPT ![s] = att[a].key]
      BY <1>3, <1>5, <1>6, MakesOne
    <2> QED
      BY <1>1, <2>1 DEF Promise!Makes, made, Creator
  <1>7. CASE UNCHANGED remote
    <2>1. made' = made
      BY <1>5, <1>7 DEF made, Creator
    <2> QED
      BY <1>1, <1>3, <1>4, <1>5, <2>1 DEF Promise!Send, made, owner, Creator
  <1>8. CASE Promise!Makes(k)
    BY <1>1, <1>3, <1>4, <1>5, <1>8 DEF Promise!Send, owner
  <1> QED
    BY <1>2, <1>6, <1>7, <1>8

LEMMA LateStep ==
  ASSUME PromiseInv, NEW a \in Attempt, NEW k \in Key, k = att[a].key,
         CreateLate(a)
  PROVE  Promise!MakeLater(k)
  <1>1. PICK s \in Session : remote[s].status = "unborn" /\ Create(s, a)
    BY DEF CreateLate
  <1>2. a \in pending /\ UNCHANGED <<ledgerVars, posts>>
    BY DEF CreateLate
  <1>3. /\ Known(a) /\ posts[att[a].key] = 1 /\ att[a].key \in Key
        /\ \A t \in Session : Creator(t) # a
    BY <1>2, KeysAreKnown DEF PromiseInv, MadeOK
  <1>4. \A b \in Attempt : Known(b) /\ att[b].key = att[a].key => b = a
    BY <1>3 DEF PromiseInv, IndInv, LedgerInv, WorkMirrorsAttempt, Known
  <1>5. \A t \in Session : Creator(t) # None => att[Creator(t)].key # att[a].key
    BY <1>3, <1>4, KeysAreKnown DEF PromiseInv, MadeOK
  <1>6. att' = att /\ owner' = owner
    BY <1>2 DEF ledgerVars, owner
  <1>7. /\ made[s] = None
        /\ \A t \in Session : made[t] # att[a].key
        /\ made' = [made EXCEPT ![s] = att[a].key]
    BY <1>1, <1>3, <1>5, <1>6, MakesOne
  <1>8. Promise!Makes(k)
    BY <1>7 DEF Promise!Makes, made, Creator
  <1> QED
    BY <1>2, <1>3, <1>6, <1>8 DEF Promise!MakeLater, owner

LEMMA PromiseNext ==
  ASSUME PromiseInv, [Next]_vars
  PROVE  Promise!Next \/ (posts' = posts /\ made' = made /\ owner' = owner)
  <1>1. ASSUME Next PROVE Promise!Next \/ (posts' = posts /\ made' = made /\ owner' = owner)
    <2>1. IndInv /\ MadeOK /\ Evolves
      BY <1>1, LedgerStep DEF PromiseInv
    <2>2. CASE Quiet
      <3>1. posts' = posts /\ \A s \in Session : Creator(s)' = Creator(s)
        BY <2>2 DEF Quiet, remoteVars, Creator
      <3> QED
        BY <2>1, <2>2, <3>1, MadeStays, OwnerStays DEF Quiet
    <2>3. ASSUME NEW a \in Attempt, NEW s \in Session, Known(a), Binds(a, s)
          PROVE  Promise!Next
      <3>1. att[a].key \in Key
        BY <2>3, KeysAreKnown
      <3> QED
        BY <2>1, <2>3, <3>1, OwnStep DEF Promise!Next
    <2>4. ASSUME NEW p \in Proc, PostAnswered(p) \/ PostRejected(p) \/ PostUncertain(p)
          PROVE  Promise!Next
      <3>1. At(p, "post")
        BY <2>4, PostDoes
      <3>2. att[call[p].att].key \in Key
        BY <3>1, BeforePost
      <3>3. PICK k \in Key : k = att[call[p].att].key
        BY <3>2
      <3>4. Promise!Send(k)
        BY <2>1, <2>4, <3>3, SendStep
      <3> QED
        BY <3>4 DEF Promise!Next
    <2>5. ASSUME NEW a \in Attempt, CreateLate(a) PROVE Promise!Next
      <3>1. Known(a)
        BY <2>1, <2>5 DEF CreateLate, MadeOK
      <3>2. PICK k \in Key : k = att[a].key
        BY <3>1, KeysAreKnown
      <3>3. Promise!MakeLater(k)
        BY <2>5, <3>2, LateStep
      <3> QED
        BY <3>3 DEF Promise!Next
    <2>6. ASSUME NEW s \in Session, CreateForeign(s) \/ SessionMoves(s)
          PROVE  posts' = posts /\ made' = made /\ owner' = owner
      <3>1. UNCHANGED <<ledgerVars, posts>> /\ \A t \in Session : Creator(t)' = Creator(t)
        BY <2>6, ForeignKeepsCreators
      <3>2. work' = work
        BY <3>1 DEF ledgerVars
      <3> QED
        BY <2>1, <3>1, <3>2, MadeStays DEF owner
    <2> QED
      BY <1>1, <2>1, <2>2, <2>3, <2>4, <2>5, <2>6, StepKinds
  <1>2. CASE UNCHANGED vars
    BY <1>2 DEF vars, made, owner, Creator
  <1> QED
    BY <1>1, <1>2

(* Dispatch implements the promise that a key causes at most one create     *)
(* request, a request at most one session, and a session answers one key.   *)
THEOREM KeepsThePromise == Spec => ImplementsPromise
  <1>1. PromiseInv /\ [Next]_vars => [Promise!Next]_<<posts, made, owner>>
    BY PromiseNext
  <1> QED
    BY <1>1, PromiseInvInit, PromiseInvNext, PromiseInit, PTL
    DEF Spec, ImplementsPromise, Promise!Spec, made, owner, Creator

-----------------------------------------------------------------------------
(* Ownership by content.  When no two requests of different keys ask for    *)
(* the same, and nobody else creates a session like one of them, the match  *)
(* of a reconciliation or an adoption finds the attempt's own session only. *)
DistinctShapes ==
    /\ \A r, t \in Requests : r[2] = t[2] => r[1] = t[1]
    /\ \A r \in Requests : r[2] \notin ForeignShapes

(* What was asked for stays attached to the calls, the attempts and what    *)
(* Jules holds.                                                             *)
ShapesOK ==
    /\ \A p \in Proc : call[p].key \in Key => <<call[p].key, call[p].shape>> \in Requests
    /\ \A a \in Attempt : Known(a) => <<att[a].key, att[a].shape>> \in Requests
    /\ \A s \in Session : remote[s].status # "unborn" =>
         IF Creator(s) = None THEN remote[s].shape \in ForeignShapes
                              ELSE remote[s].shape = att[Creator(s)].shape

Binding == {"bind", "adopt"}

OwnOK ==
    /\ \A p \in Proc : call[p].pc \in Binding => Creator(call[p].sess) = call[p].att
    /\ \A a \in Attempt : ~Known(a) => att[a].session = None
    /\ BoundSessionIsOwn

OwnInv == PromiseInv /\ ShapesOK /\ OwnOK

LEMMA MatchIsOwn ==
  ASSUME DistinctShapes, PromiseInv, ShapesOK, NEW a, Known(a), NEW s \in Visible,
         Matches(a, s)
  PROVE  Creator(s) = a
  <1>1. s \in Session /\ remote[s].status # "unborn" /\ remote[s].shape = att[a].shape
    BY DEF Visible, Matches
  <1>2. a \in Attempt /\ <<att[a].key, att[a].shape>> \in Requests
    BY DEF ShapesOK, Known
  <1>3. att[a].shape \notin ForeignShapes
    BY <1>2 DEF DistinctShapes
  <1>4. PICK c : c = Creator(s)
    OBVIOUS
  <1>5. c # None /\ att[c].shape = att[a].shape
    BY <1>1, <1>3, <1>4 DEF ShapesOK
  <1>6. Known(c) /\ c \in Attempt
    BY <1>1, <1>4, <1>5 DEF PromiseInv, MadeOK, Known
  <1>7. <<att[c].key, att[c].shape>> \in Requests
    BY <1>6 DEF ShapesOK
  <1>8. att[c].key = att[a].key
    BY <1>2, <1>5, <1>7 DEF DistinctShapes
  <1> QED
    BY <1>2, <1>4, <1>6, <1>8 DEF PromiseInv, IndInv, LedgerInv, WorkMirrorsAttempt, Known

(* How a call comes to hold a session that it will bind.                    *)
MayBind(c, d) ==
    \/ d = c
    \/ Create(d.sess, d.att) /\ d.sess \in Session /\ d.att \in Attempt
    \/ UNCHANGED remote /\ Known(d.att) /\ d.sess \in Visible /\ Matches(d.att, d.sess)

LEMMA CallsMove ==
  ASSUME IndInv, ShapesOK, Next, NEW p \in Proc
  PROVE  /\ call'[p].key \in Key => <<call'[p].key, call'[p].shape>> \in Requests
         /\ call'[p].pc \in Binding => MayBind(call[p], call'[p])
  <1> DEFINE Asks(c) == c.key \in Key => <<c.key, c.shape>> \in Requests
             Holds(c) == c.pc \in Binding => MayBind(call[p], c)
  <1>1. call \in [Proc -> Call] /\ \A q \in Proc : call[q] \in Call
    BY DEF IndInv, CallsOK
  <1>2. Asks(call[p]) /\ Holds(call[p])
    BY DEF ShapesOK, MayBind
  <1>3. Asks(Idle) /\ Holds(Idle)
    BY NullAssumption DEF Idle, NewCall, Binding
  <1>4. ASSUME NEW q \in Proc, NEW c, call' = [call EXCEPT ![q] = c],
               q = p => Asks(c) /\ Holds(c)
        PROVE  Asks(call'[p]) /\ Holds(call'[p])
    BY <1>1, <1>2, <1>4
  <1>5. ASSUME NEW q \in Proc, End(q) PROVE Asks(call'[p]) /\ Holds(call'[p])
    BY <1>3, <1>4, <1>5 DEF End
  <1>6. ASSUME NEW q \in Proc, NEW label \in Label \ Binding, Goto(q, label)
        PROVE  Asks(call'[p]) /\ Holds(call'[p])
    <2>1. PICK c : c = [call[q] EXCEPT !.pc = label]
      OBVIOUS
    <2>2. c.pc = label /\ c.key = call[q].key /\ c.shape = call[q].shape
      BY <1>1, <2>1 DEF Call
    <2>3. q = p => Asks(c) /\ Holds(c)
      BY <1>2, <2>2
    <2> QED
      BY <1>4, <1>6, <2>1, <2>3 DEF Goto
  <1>7. ASSUME NEW q \in Proc, NEW c, call' = [call EXCEPT ![q] = c],
               c.key = call[q].key, c.shape = call[q].shape, c.pc \notin Binding
        PROVE  Asks(call'[p]) /\ Holds(call'[p])
    BY <1>2, <1>4, <1>7
  <1>8. ASSUME NEW q \in Proc, StartDispatch(q)
        PROVE  Asks(call'[p]) /\ Holds(call'[p])
    <2>1. PICK r \in Requests :
            call' = [call EXCEPT ![q] = NewCall("lookup", r[1], r[2], None, None, NoView)]
      BY <1>8 DEF StartDispatch
    <2>2. r = <<r[1], r[2]>>
      BY RequestAssumption
    <2>3. PICK c : c = NewCall("lookup", r[1], r[2], None, None, NoView)
      OBVIOUS
    <2>4. c.pc \notin Binding /\ c.key = r[1] /\ c.shape = r[2]
      BY <2>3 DEF NewCall, Binding
    <2>5. Asks(c) /\ Holds(c)
      BY <2>2, <2>4
    <2> HIDE DEF Asks, Holds
    <2> QED
      BY <1>4, <2>1, <2>3, <2>5
  <1>9. ASSUME NEW q \in Proc, AdoptCommand(q)
        PROVE  Asks(call'[p]) /\ Holds(call'[p])
    <2>1. PICK a \in Attempt, s \in Visible :
            /\ att[a].state # "ABSENT" /\ Matches(a, s)
            /\ call' = [call EXCEPT ![q] =
                          NewCall("adopt", None, None, a, s, Only(s, remote[s].status))]
      BY <1>9 DEF AdoptCommand
    <2>2. PICK c : c = NewCall("adopt", None, None, a, s, Only(s, remote[s].status))
      OBVIOUS
    <2>3. c.key = None /\ c.att = a /\ c.sess = s
      BY <2>2 DEF NewCall
    <2>4. UNCHANGED remote /\ Known(a)
      BY <1>9, <2>1 DEF AdoptCommand, remoteVars, Known
    <2>5. MayBind(call[p], c)
      BY <2>1, <2>3, <2>4 DEF MayBind
    <2>6. Asks(c) /\ Holds(c)
      BY <2>3, <2>5, NullAssumption
    <2> HIDE DEF Asks, Holds
    <2> QED
      BY <1>4, <2>1, <2>2, <2>6
  <1>10. ASSUME NEW q \in Proc, PostAnswered(q)
         PROVE  Asks(call'[p]) /\ Holds(call'[p])
    <2>1. PICK s \in Session :
            /\ Create(s, call[q].att)
            /\ call' = [call EXCEPT ![q].pc = "bind", ![q].sess = s,
                                    ![q].view = Only(s, "active")]
      BY <1>10 DEF PostAnswered
    <2>2. PICK c : c = [call[q] EXCEPT !.pc = "bind", !.sess = s, !.view = Only(s, "active")]
      OBVIOUS
    <2>3. /\ c.key = call[q].key /\ c.shape = call[q].shape
          /\ c.att = call[q].att /\ c.sess = s
      BY <1>1, <2>2 DEF Call
    <2>4. call[q].att \in Attempt
      BY <1>10 DEF PostAnswered, At, IndInv, CallsOK, CallOK, HoldsAttempt
    <2>5. call' = [call EXCEPT ![q] = c]
      BY <2>1, <2>2
    <2>6. MayBind(call[p], c)
      BY <2>1, <2>3, <2>4 DEF MayBind
    <2>7. q = p => Asks(c) /\ Holds(c)
      BY <1>2, <2>3, <2>6
    <2> HIDE DEF Asks, Holds
    <2> QED
      BY <1>4, <2>5, <2>7
  <1>11. ASSUME NEW q \in Proc, Scan(q)
         PROVE  Asks(call'[p]) /\ Holds(call'[p])
    <2>1. ASSUME NEW s \in Session, Candidates(call[q].att) = {s},
                 call' = [call EXCEPT ![q].pc = "adopt", ![q].sess = s,
                                      ![q].view = Only(s, remote[s].status)]
          PROVE  Asks(call'[p]) /\ Holds(call'[p])
      <3>1. PICK c : c = [call[q] EXCEPT !.pc = "adopt", !.sess = s,
                                         !.view = Only(s, remote[s].status)]
        OBVIOUS
      <3>2. /\ c.key = call[q].key /\ c.shape = call[q].shape
            /\ c.att = call[q].att /\ c.sess = s
        BY <1>1, <3>1 DEF Call
      <3>3. UNCHANGED remote /\ Known(call[q].att)
        BY <1>11, CallHolds DEF Scan, At, HoldsAttempt, remoteVars
      <3>4. s \in Visible /\ Matches(call[q].att, s)
        BY <2>1 DEF Candidates
      <3>5. MayBind(call[p], c)
        BY <3>2, <3>3, <3>4 DEF MayBind
      <3>6. q = p => Asks(c) /\ Holds(c)
        BY <1>2, <3>2, <3>5
      <3>7. call' = [call EXCEPT ![q] = c]
        BY <2>1, <3>1
      <3> HIDE DEF Asks, Holds
      <3> QED
        BY <1>4, <3>6, <3>7
    <2>2. ASSUME NextRound(q) PROVE Asks(call'[p]) /\ Holds(call'[p])
      <3>1. PICK c : c = [call[q] EXCEPT !.tries = @ - 1,
                            !.pc = IF call[q].tries = 1 THEN "none" ELSE "scan"]
        OBVIOUS
      <3>2. c.key = call[q].key /\ c.shape = call[q].shape /\ c.pc \notin Binding
        BY <1>1, <3>1 DEF Call, Binding
      <3>3. call' = [call EXCEPT ![q] = c]
        BY <2>2, <3>1 DEF NextRound
      <3> HIDE DEF Asks, Holds
      <3> QED
        BY <1>7, <3>2, <3>3
    <2>3. "multiple" \in Label \ Binding
      BY DEF Label, Binding
    <2> HIDE DEF Asks, Holds
    <2> QED
      BY <1>5, <1>6, <1>11, <2>1, <2>2, <2>3 DEF Scan
  <1>12. ASSUME NEW q \in Proc,
                \/ Lookup(q) \/ ListRemote(q) \/ RememberListed(q) \/ Snapshot(q)
                \/ Retire(q) \/ Reserve(q) \/ ReadAttempt(q)
         PROVE  Asks(call'[p]) /\ Holds(call'[p])
    <2> DEFINE Moves == \/ End(q)
                        \/ Goto(q, "list")
                        \/ \E c : /\ call' = [call EXCEPT ![q] = c]
                                  /\ c.key = call[q].key /\ c.shape = call[q].shape
                                  /\ c.pc \notin Binding
               row == call[q]
    <2>1. row \in Call
      BY <1>1
    <2>2. ASSUME Lookup(q) PROVE Moves
      <3>1. ASSUME NEW a, call' = [call EXCEPT ![q].pc = "route", ![q].att = a] PROVE Moves
        <4>1. call' = [call EXCEPT ![q] = [row EXCEPT !.pc = "route", !.att = a]]
          BY <3>1
        <4>2. /\ [row EXCEPT !.pc = "route", !.att = a].key = row.key
              /\ [row EXCEPT !.pc = "route", !.att = a].shape = row.shape
              /\ [row EXCEPT !.pc = "route", !.att = a].pc \notin Binding
          BY <2>1 DEF Call, Binding
        <4> QED
          BY <4>1, <4>2
      <3> QED
        BY <2>2, <3>1 DEF Lookup
    <2>3. ASSUME NEW label \in Label \ Binding, NEW view, NEW todo,
                 call' = [call EXCEPT ![q].pc = label, ![q].view = view, ![q].todo = todo]
          PROVE  Moves
      <3> DEFINE c == [row EXCEPT !.pc = label, !.view = view, !.todo = todo]
      <3>1. call' = [call EXCEPT ![q] = c]
        BY <2>3
      <3>2. c.key = row.key /\ c.shape = row.shape /\ c.pc \notin Binding
        BY <2>1 DEF Call
      <3> HIDE DEF c
      <3> QED
        BY <3>1, <3>2
    <2>4. ASSUME ListRemote(q) PROVE Moves
      <3>1. {"remember", "select"} \subseteq Label \ Binding
        BY DEF Label, Binding
      <3> HIDE DEF Moves
      <3>2. End(q) => Moves
        BY DEF Moves
      <3> QED
        BY <2>3, <2>4, <3>1, <3>2 DEF ListRemote
    <2>5. ASSUME NEW label \in Label \ Binding, NEW todo,
                 call' = [call EXCEPT ![q].pc = label, ![q].todo = todo]
          PROVE  Moves
      <3> DEFINE c == [row EXCEPT !.pc = label, !.todo = todo]
      <3>1. call' = [call EXCEPT ![q] = c]
        BY <2>5
      <3>2. c.key = row.key /\ c.shape = row.shape /\ c.pc \notin Binding
        BY <2>1 DEF Call
      <3> HIDE DEF c
      <3> QED
        BY <3>1, <3>2
    <2>6. ASSUME AfterSnapshot(q) PROVE Moves
      <3>1. {"rememberRest", "reserve"} \subseteq Label \ Binding
        BY DEF Label, Binding
      <3>2. End(q) => Moves
        OBVIOUS
      <3> HIDE DEF Moves
      <3> QED
        BY <2>5, <2>6, <3>1, <3>2 DEF AfterSnapshot
    <2>7. ASSUME Snapshot(q) \/ Retire(q) PROVE Moves
      <3>1. {"retireFirst", "retire"} \subseteq Label \ Binding
        BY DEF Label, Binding
      <3> HIDE DEF Moves
      <3> QED
        BY <2>5, <2>6, <2>7, <3>1 DEF Snapshot, Retire
    <2>8. ASSUME RememberListed(q) PROVE Moves
      <3>1. PICK s \in call[q].todo : call' = [call EXCEPT ![q].todo = @ \ {s}]
        BY <2>8 DEF RememberListed
      <3> DEFINE c == [row EXCEPT !.todo = @ \ {s}]
      <3>2. call' = [call EXCEPT ![q] = c]
        BY <3>1
      <3>3. c.key = row.key /\ c.shape = row.shape /\ c.pc = row.pc
        BY <2>1 DEF Call
      <3>4. row.pc \notin Binding
        BY <2>8 DEF RememberListed, At, Binding
      <3> HIDE DEF c
      <3> QED
        BY <3>2, <3>3, <3>4
    <2>9. ASSUME NEW label \in Label \ Binding, NEW a,
                 call' = [call EXCEPT ![q].pc = label, ![q].att = a, ![q].view = NoView]
          PROVE  Moves
      <3> DEFINE c == [row EXCEPT !.pc = label, !.att = a, !.view = NoView]
      <3>1. call' = [call EXCEPT ![q] = c]
        BY <2>9
      <3>2. c.key = row.key /\ c.shape = row.shape /\ c.pc \notin Binding
        BY <2>1 DEF Call
      <3> HIDE DEF c
      <3> QED
        BY <3>1, <3>2
    <2>10. ASSUME Reserve(q) PROVE Moves
      <3>1. {"recon", "send"} \subseteq Label \ Binding
        BY DEF Label, Binding
      <3>2. End(q) => Moves
        OBVIOUS
      <3> HIDE DEF Moves
      <3> QED
        BY <2>9, <2>10, <3>1, <3>2 DEF Reserve
    <2>11. ASSUME ReadAttempt(q) PROVE Moves
      <3>1. ASSUME call' = [call EXCEPT ![q].pc = "scan", ![q].tries = Scans] PROVE Moves
        <4> DEFINE c == [row EXCEPT !.pc = "scan", !.tries = Scans]
        <4>1. call' = [call EXCEPT ![q] = c]
          BY <3>1
        <4>2. c.key = row.key /\ c.shape = row.shape /\ c.pc \notin Binding
          BY <2>1 DEF Call, Binding
        <4> HIDE DEF c
        <4> QED
          BY <4>1, <4>2
      <3> QED
        BY <2>11, <3>1 DEF ReadAttempt
    <2>12. Moves
      <3> HIDE DEF Moves
      <3> QED
        BY <1>12, <2>2, <2>4, <2>7, <2>8, <2>10, <2>11
    <2>13. "list" \in Label \ Binding
      BY DEF Label, Binding
    <2> HIDE DEF Asks, Holds
    <2> QED
      BY <1>5, <1>6, <1>7, <2>12, <2>13
  <1>13. ASSUME NEW q \in Proc,
                \/ StartList(q) \/ StartReconcile(q) \/ Route(q) \/ EndListing(q)
                \/ Send(q) \/ PostRejected(q) \/ PostUncertain(q) \/ MarkRejected(q)
                \/ MarkReconciling(q) \/ Bind(q) \/ RememberOne(q) \/ MarkIndeterminate(q)
                \/ Crash(q)
         PROVE  Asks(call'[p]) /\ Holds(call'[p])
    <2>1. End(q) \/ \E label \in Label \ Binding : Goto(q, label)
      BY <1>13
      DEF StartList, StartReconcile, Route, EndListing, Send, PostRejected, PostUncertain,
          MarkRejected, MarkReconciling, Bind, RememberOne, MarkIndeterminate, Crash,
          Label, Binding
    <2> HIDE DEF Asks, Holds
    <2> QED
      BY <1>5, <1>6, <2>1
  <1>14. ASSUME UNCHANGED call PROVE Asks(call'[p]) /\ Holds(call'[p])
    BY <1>2, <1>14
  <1>15. ASSUME \/ \E value \in BOOLEAN : Fence(value)
                \/ \E a \in Attempt : TimePasses(a) \/ CreateLate(a)
                \/ \E s \in Session : CreateForeign(s) \/ SessionMoves(s)
         PROVE  UNCHANGED call
    BY <1>15 DEF Fence, TimePasses, CreateLate, CreateForeign, SessionMoves
  <1>16. Asks(call'[p]) /\ Holds(call'[p])
    <2> HIDE DEF Asks, Holds
    <2> QED
      BY <1>8, <1>9, <1>10, <1>11, <1>12, <1>13, <1>14, <1>15 DEF Next, Step
  <1> QED
    BY <1>16

(* A session keeps its shape and creator; a new one has those of the request *)
(* behind it.                                                               *)
LEMMA RemoteEvolves ==
  ASSUME PromiseInv, ShapesOK, Next, NEW s \in Session
  PROVE  /\ remote[s].status # "unborn" =>
              remote'[s].status # "unborn" /\ remote'[s].shape = remote[s].shape
         /\ Creator(s) # None => Creator(s)' = Creator(s)
         /\ remote'[s].status # "unborn" =>
              IF Creator(s)' = None THEN remote'[s].shape \in ForeignShapes
                                    ELSE remote'[s].shape = att'[Creator(s)'].shape
  <1>1. remote \in [Session -> RemoteSession] /\ MadeOK
    BY DEF PromiseInv, IndInv, RemoteOK
  <1>2. Evolves
    BY LedgerStep DEF PromiseInv
  <1>3. Creator(s) # None =>
          /\ att'[Creator(s)].shape = att[Creator(s)].shape
          /\ remote[s].status # "unborn"
    BY <1>1, <1>2, KnownEvolves DEF MadeOK
  <1>4. ASSUME remote'[s].shape = remote[s].shape, Creator(s)' = Creator(s),
               remote[s].status = "unborn" <=> remote'[s].status = "unborn"
        PROVE  remote'[s].status # "unborn" =>
                 IF Creator(s)' = None THEN remote'[s].shape \in ForeignShapes
                                       ELSE remote'[s].shape = att'[Creator(s)'].shape
    BY <1>3, <1>4 DEF ShapesOK
  <1>5. CASE UNCHANGED remote
    <2>1. remote'[s] = remote[s] /\ Creator(s)' = Creator(s)
      BY <1>5 DEF Creator
    <2> QED
      BY <1>4, <2>1
  <1>6. ASSUME NEW t \in Session, NEW a \in Attempt, remote[t].status = "unborn",
               Create(t, a), UNCHANGED ledgerVars, a # None
        PROVE  /\ remote[s].status # "unborn" =>
                    remote'[s].status # "unborn" /\ remote'[s].shape = remote[s].shape
               /\ Creator(s) # None => Creator(s)' = Creator(s)
               /\ remote'[s].status # "unborn" =>
                    IF Creator(s)' = None THEN remote'[s].shape \in ForeignShapes
                                          ELSE remote'[s].shape = att'[Creator(s)'].shape
    <2>1. s # t => remote'[s] = remote[s] /\ Creator(s)' = Creator(s)
      BY <1>6, CreateMakes
    <2>2. s = t => /\ Creator(s)' = a /\ remote'[s].shape = att[a].shape
                   /\ remote'[s].status # "unborn"
      BY <1>1, <1>6 DEF Create, Creator
    <2>3. att' = att
      BY <1>6 DEF ledgerVars
    <2>4. s = t => Creator(s) = None
      BY <1>1, <1>6 DEF MadeOK
    <2> QED
      BY <1>4, <1>6, <2>1, <2>2, <2>3, <2>4
  <1>7. ASSUME NEW p \in Proc, PostAnswered(p) \/ PostRejected(p) \/ PostUncertain(p)
        PROVE  \/ UNCHANGED remote
               \/ \E t \in Session, a \in Attempt :
                    /\ remote[t].status = "unborn" /\ Create(t, a) /\ UNCHANGED ledgerVars
                    /\ a # None
    <2>1. At(p, "post")
      BY <1>7, PostDoes
    <2>2. call[p].att \in Attempt /\ call[p].att # None
      BY <2>1, BeforePost
    <2> QED
      BY <1>7, <2>2, PostDoes
  <1>8. ASSUME NEW a \in Attempt, CreateLate(a)
        PROVE  \E t \in Session :
                 /\ remote[t].status = "unborn" /\ Create(t, a) /\ UNCHANGED ledgerVars
                 /\ a # None
    BY <1>8, NullAssumption DEF CreateLate
  <1>9. ASSUME NEW t \in Session, CreateForeign(t)
        PROVE  /\ remote[s].status # "unborn" =>
                    remote'[s].status # "unborn" /\ remote'[s].shape = remote[s].shape
               /\ Creator(s) # None => Creator(s)' = Creator(s)
               /\ remote'[s].status # "unborn" =>
                    IF Creator(s)' = None THEN remote'[s].shape \in ForeignShapes
                                          ELSE remote'[s].shape = att'[Creator(s)'].shape
    <2>1. PICK sh \in ForeignShapes :
            remote' = [remote EXCEPT ![t] = [status |-> "active", shape |-> sh,
                                             creator |-> None]]
      BY <1>9 DEF CreateForeign
    <2>2. remote[t].status = "unborn" /\ Creator(t) = None
      BY <1>1, <1>9 DEF CreateForeign, MadeOK
    <2>3. s = t => Creator(s)' = None /\ remote'[s].shape \in ForeignShapes
      BY <1>1, <2>1 DEF Creator
    <2>4. s # t => remote'[s] = remote[s] /\ Creator(s)' = Creator(s)
      BY <1>1, <2>1 DEF Creator
    <2> QED
      BY <1>4, <2>2, <2>3, <2>4
  <1>10. ASSUME NEW t \in Session, SessionMoves(t)
         PROVE  /\ remote'[s].shape = remote[s].shape /\ Creator(s)' = Creator(s)
                /\ remote[s].status = "unborn" <=> remote'[s].status = "unborn"
    <2>1. PICK status \in {"active", "inactive", "gone"} :
            remote' = [remote EXCEPT ![t].status = status]
      BY <1>10 DEF SessionMoves
    <2>2. remote[t].status # "unborn"
      BY <1>10 DEF SessionMoves, Visible
    <2> QED
      BY <1>1, <2>1, <2>2 DEF RemoteSession, Creator
  <1>11. ASSUME Quiet \/ \E p \in Proc : BindsOwn(p) PROVE UNCHANGED remote
    BY <1>11 DEF Quiet, BindsOwn, Binds, remoteVars
  <1>12. CASE \E t \in Session : CreateForeign(t)
    BY <1>9, <1>12
  <1>13. CASE \E t \in Session : SessionMoves(t)
    BY <1>4, <1>10, <1>13
  <1> QED
    BY <1>1, <1>5, <1>6, <1>7, <1>8, <1>11, <1>12, <1>13, StepsAre DEF PromiseInv

(* Only reserve_work fills an empty row, for what its caller asked.         *)
LEMMA RowsAreAsked ==
  ASSUME IndInv, ShapesOK, Next, NEW a \in Attempt
  PROVE  /\ att'[a].state = "ABSENT" => att'[a] = att[a]
         /\ Known(a)' => Known(a) \/ <<att'[a].key, att'[a].shape>> \in Requests
  <1> DEFINE Goal == /\ att'[a].state = "ABSENT" => att'[a] = att[a]
                     /\ Known(a)' => Known(a) \/ <<att'[a].key, att'[a].shape>> \in Requests
  <1>1. att \in [Attempt -> AttemptRow] /\ att[a] \in AttemptRow
    BY DEF IndInv, LedgerInv, LedgerTypeOK
  <1>2. ASSUME att'[a] = att[a] \/ (Known(a) /\ att'[a].state # "ABSENT") PROVE Goal
    BY <1>2 DEF Known
  <1>3. ASSUME NEW b, Known(b), NEW row, att' = [att EXCEPT ![b] = row],
               row.state # "ABSENT"
        PROVE  Goal
    BY <1>1, <1>2, <1>3 DEF Known
  <1>4. ASSUME NEW p \in Proc, Reserve(p) PROVE Goal
    <2>1. ASSUME NEW b \in Attempt, ~HasWork(call[p].key),
                 InsertReservation(call[p].key, call[p].shape, b, Seen(call[p].view))
          PROVE  Goal
      <3>1. call[p].key \in Key
        BY <1>4 DEF Reserve, At, IndInv, CallsOK, CallOK
      <3>2. <<call[p].key, call[p].shape>> \in Requests
        BY <3>1 DEF ShapesOK
      <3>3. b # a => att'[a] = att[a]
        BY <1>1, <2>1 DEF InsertReservation
      <3>4. b = a => /\ att'[a].key = call[p].key /\ att'[a].shape = call[p].shape
                     /\ att'[a].state = "RESERVED"
        BY <1>1, <2>1 DEF InsertReservation
      <3> QED
        BY <1>2, <3>2, <3>3, <3>4
    <2> HIDE DEF Goal
    <2>2. att' = att => Goal
      BY <1>2
    <2> QED
      BY <1>4, <2>1, <2>2 DEF Reserve, ledgerVars
  <1>5. ASSUME NEW p \in Proc, Send(p) PROVE Goal
    <2>1. ASSUME NEW early, BeginSend(call[p].att, early) PROVE Goal
      <3>1. Known(call[p].att)
        BY <1>5, CallHolds DEF Send, At, HoldsAttempt
      <3>2. PICK b : b = call[p].att
        OBVIOUS
      <3>3. att[b] \in AttemptRow
        BY <1>1, <3>1, <3>2 DEF Known
      <3>4. PICK row : row = [att[b] EXCEPT !.state = "SEND_STARTED", !.sent = "recent",
                                            !.early = early]
        OBVIOUS
      <3>5. row.state # "ABSENT"
        BY <3>3, <3>4 DEF AttemptRow
      <3>6. att' = [att EXCEPT ![b] = row]
        BY <2>1, <3>2, <3>4 DEF BeginSend
      <3> HIDE DEF Goal
      <3> QED
        BY <1>3, <3>1, <3>2, <3>5, <3>6
    <2> HIDE DEF Goal
    <2>2. att' = att => Goal
      BY <1>2
    <2> QED
      BY <1>5, <2>1, <2>2 DEF Send, ledgerVars
  <1>6. ASSUME NEW p \in Proc, MarkRejected(p) \/ MarkReconciling(p) \/ MarkIndeterminate(p)
        PROVE  Goal
    <2>1. PICK state \in AttemptState : MarkAttemptError(call[p].att, state)
      BY <1>6 DEF MarkRejected, MarkReconciling, MarkIndeterminate, AttemptState, Unresolved
    <2>2. Known(call[p].att)
      BY <1>6, CallHolds
      DEF MarkRejected, MarkReconciling, MarkIndeterminate, At, HoldsAttempt
    <2>3. PICK b : b = call[p].att
      OBVIOUS
    <2>4. att[b] \in AttemptRow
      BY <1>1, <2>2, <2>3 DEF Known
    <2>5. [att[b] EXCEPT !.state = state].state # "ABSENT"
      BY <2>4 DEF AttemptRow, AttemptState, Unresolved
    <2>6. att' = [att EXCEPT ![b] = [att[b] EXCEPT !.state = state]]
      BY <2>1, <2>3 DEF MarkAttemptError
    <2> HIDE DEF Goal
    <2> QED
      BY <1>3, <2>2, <2>3, <2>5, <2>6
  <1>7. ASSUME NEW p \in Proc, Bind(p) PROVE Goal
    <2>1. ASSUME NEW state \in {"CONFIRMED", "ADOPTED"},
                 BindSession(call[p].att, call[p].sess, state)
          PROVE  Goal
      <3>1. Known(call[p].att)
        BY <1>7, CallHolds DEF Bind, At, HoldsAttempt
      <3>2. PICK b, s : b = call[p].att /\ s = call[p].sess
        OBVIOUS
      <3>3. att[b] \in AttemptRow
        BY <1>1, <3>1, <3>2 DEF Known
      <3>4. PICK row : row = [att[b] EXCEPT !.state = state, !.session = s]
        OBVIOUS
      <3>5. row.state # "ABSENT"
        BY <3>3, <3>4 DEF AttemptRow
      <3>6. att' = [att EXCEPT ![b] = row]
        BY <2>1, <3>2, <3>4 DEF BindSession
      <3> HIDE DEF Goal
      <3> QED
        BY <1>3, <3>1, <3>2, <3>5, <3>6
    <2> HIDE DEF Goal
    <2>2. att' = att => Goal
      BY <1>2
    <2> QED
      BY <1>7, <2>1, <2>2 DEF Bind, ledgerVars
  <1>8. ASSUME NEW value \in BOOLEAN, Fence(value) PROVE Goal
    <2>1. att'[a] = att[a] \/ (Known(a) /\ att'[a].state = "CANCELLED_LOCAL")
      BY <1>1, <1>8 DEF Fence, SetFrozen, AttemptRow, Known
    <2> QED
      BY <1>2, <2>1
  <1>9. ASSUME NEW b \in Attempt, TimePasses(b) PROVE Goal
    <2>1. b # a => att'[a] = att[a]
      BY <1>1, <1>9 DEF TimePasses, StartAges
    <2>2. b = a => att[a].sent = "recent" /\ att'[a].state = att[a].state
      BY <1>1, <1>9 DEF TimePasses, StartAges, AttemptRow
    <2>3. b = a => Known(a)
      BY <2>2 DEF IndInv, LedgerInv, ReservedIsUnsent, Transmitted, Known
    <2> QED
      BY <1>2, <2>1, <2>2, <2>3 DEF Known
  <1>10. ASSUME NEW p \in Proc,
               \/ StartDispatch(p) \/ StartList(p) \/ StartReconcile(p)
               \/ AdoptCommand(p) \/ Lookup(p) \/ Route(p) \/ ListRemote(p)
               \/ Snapshot(p) \/ EndListing(p) \/ PostAnswered(p) \/ PostRejected(p)
               \/ PostUncertain(p) \/ ReadAttempt(p) \/ Scan(p) \/ Crash(p)
               \/ RememberListed(p) \/ RememberOne(p) \/ Retire(p)
        PROVE  Goal
    <2>1. UNCHANGED att
      BY <1>10
      DEF StartDispatch, StartList, StartReconcile, AdoptCommand, Lookup, Route,
          ListRemote, Snapshot, EndListing, PostAnswered, PostRejected, PostUncertain,
          ReadAttempt, Scan, Crash, RememberListed, RememberOne, Retire, UpsertSessions,
          MarkNotVisible, ledgerVars
    <2> QED
      BY <1>2, <2>1
  <1>11. ASSUME \/ \E b \in Attempt : CreateLate(b)
                \/ \E s \in Session : CreateForeign(s) \/ SessionMoves(s)
         PROVE  Goal
    <2>1. UNCHANGED att
      BY <1>11 DEF CreateLate, CreateForeign, SessionMoves, ledgerVars
    <2> QED
      BY <1>2, <2>1
  <1>12. Goal
    <2> HIDE DEF Goal
    <2> QED
      BY <1>4, <1>5, <1>6, <1>7, <1>8, <1>9, <1>10, <1>11 DEF Next, Step
  <1> QED
    BY <1>12

LEMMA ShapesStep ==
  ASSUME PromiseInv, ShapesOK, Next
  PROVE  ShapesOK'
  <1>1. IndInv /\ Evolves
    BY LedgerStep DEF PromiseInv
  <1>2. \A p \in Proc : call'[p].key \in Key => <<call'[p].key, call'[p].shape>> \in Requests
    BY <1>1, CallsMove
  <1>3. ASSUME NEW a \in Attempt, Known(a)'
        PROVE  <<att'[a].key, att'[a].shape>> \in Requests
    <2>1. Known(a) \/ <<att'[a].key, att'[a].shape>> \in Requests
      BY <1>1, <1>3, RowsAreAsked
    <2>2. Known(a) => att'[a].key = att[a].key /\ att'[a].shape = att[a].shape
      BY <1>1, KnownEvolves
    <2> QED
      BY <2>1, <2>2 DEF ShapesOK
  <1>4. \A s \in Session : remote'[s].status # "unborn" =>
          IF Creator(s)' = None THEN remote'[s].shape \in ForeignShapes
                                ELSE remote'[s].shape = att'[Creator(s)'].shape
    BY RemoteEvolves
  <1>5. (\A s \in Session : remote[s].status # "unborn" =>
          IF Creator(s) = None THEN remote[s].shape \in ForeignShapes
                               ELSE remote[s].shape = att[Creator(s)].shape)'
    BY <1>4
  <1> QED
    BY <1>2, <1>3, <1>5 DEF ShapesOK

(* A process about to bind holds a session its own attempt made.            *)
LEMMA BindersStep ==
  ASSUME DistinctShapes, OwnInv, Next, NEW p \in Proc, call'[p].pc \in Binding
  PROVE  remote'[call'[p].sess].creator = call'[p].att
  <1>1. MayBind(call[p], call'[p])
    BY CallsMove DEF OwnInv, PromiseInv
  <1>2. PICK s, a : s = call'[p].sess /\ a = call'[p].att
    OBVIOUS
  <1>3. CASE call'[p] = call[p]
    <2>1. call[p].pc \in Binding /\ call[p].sess = s /\ call[p].att = a
      BY <1>2, <1>3
    <2>2. Creator(s) = a /\ s \in Session /\ a \in Attempt
      BY <2>1
      DEF OwnInv, OwnOK, PromiseInv, IndInv, CallsOK, CallOK, Binding, HoldsAttempt
    <2>3. Creator(s)' = Creator(s)
      BY <2>2, RemoteEvolves, NullAssumption DEF OwnInv
    <2> QED
      BY <1>2, <2>2, <2>3 DEF Creator
  <1>4. CASE Create(s, a) /\ s \in Session /\ a \in Attempt
    <2>1. Creator(s)' = a
      BY <1>4, CreateMakes DEF OwnInv
    <2> QED
      BY <1>2, <2>1 DEF Creator
  <1>5. CASE UNCHANGED remote /\ Known(a) /\ s \in Visible /\ Matches(a, s)
    <2>1. Creator(s) = a
      BY <1>5, MatchIsOwn DEF OwnInv
    <2>2. Creator(s)' = Creator(s)
      BY <1>5 DEF Creator
    <2> QED
      BY <1>2, <2>1, <2>2 DEF Creator
  <1> QED
    BY <1>1, <1>2, <1>3, <1>4, <1>5 DEF MayBind

(* The session of an attempt is the one it had, or the one just bound.      *)
LEMMA SessionsBound ==
  ASSUME OwnInv, Next, NEW a \in Attempt
  PROVE  \/ att'[a].session = att[a].session
         \/ att'[a].session = None
         \/ \E p \in Proc : BindsOwn(p) /\ a = call[p].att /\ att'[a].session = call[p].sess
  <1>1. IndInv /\ MadeOK /\ Evolves /\ LedgerInv' /\ LedgerInv
    BY LedgerStep DEF OwnInv, PromiseInv, IndInv
  <1>2. CASE ~Known(a)'
    BY <1>1, <1>2, RowsAreAsked DEF OwnInv, Known
  <1>3. ASSUME Known(a)'
        PROVE  att'[a].key \in Key /\ att'[a].session = work'[att'[a].key].session
               /\ work'[att'[a].key].attempt = a
    BY <1>1, <1>3 DEF LedgerInv, WorkMirrorsAttempt, Known
  <1>4. ASSUME Known(a)
        PROVE  /\ Known(a)' /\ att'[a].key = att[a].key /\ att[a].key \in Key
               /\ att[a].session = work[att[a].key].session
               /\ work[att[a].key].attempt = a
    BY <1>1, <1>4, KnownEvolves DEF LedgerInv, WorkMirrorsAttempt, Known
  <1>5. ASSUME Known(a)', ~Known(a)
        PROVE  work[att'[a].key].session = None
    <2>1. ASSUME HasWork(att'[a].key) PROVE FALSE
      <3>1. PICK b : b = work[att'[a].key].attempt
        OBVIOUS
      <3>2. Known(b) /\ att[b].key = att'[a].key
        BY <1>1, <1>3, <1>5, <2>1, <3>1 DEF LedgerInv, WorkMirrorsAttempt, Known
      <3>3. Known(b)' /\ att'[b].key = att'[a].key
        BY <1>1, <3>2, KnownEvolves
      <3>4. work'[att'[b].key].attempt = b
        BY <1>1, <3>3 DEF LedgerInv, WorkMirrorsAttempt, Known
      <3> QED
        BY <1>3, <1>5, <3>2, <3>3, <3>4
    <2> QED
      BY <1>1, <1>3, <1>5, <2>1 DEF MadeOK
  <1>6. ASSUME \A k \in Key : work'[k].session = work[k].session
        PROVE  att'[a].session = att[a].session \/ att'[a].session = None \/ ~Known(a)'
    BY <1>3, <1>4, <1>5, <1>6
  <1>7. ASSUME NEW p \in Proc, BindsOwn(p)
        PROVE  \/ att'[a].session = att[a].session \/ att'[a].session = None \/ ~Known(a)'
               \/ a = call[p].att /\ att'[a].session = call[p].sess
    <2>1. PICK b, s : b = call[p].att /\ s = call[p].sess
      OBVIOUS
    <2>2. /\ Known(b)
          /\ \A k \in Key : work'[k].session = IF k = att[b].key THEN s ELSE work[k].session
      BY <1>7, <2>1 DEF BindsOwn, Binds
    <2>3. att[b].key \in Key /\ work[att[b].key].attempt = b
      BY <1>1, <2>2 DEF LedgerInv, WorkMirrorsAttempt, Known
    <2>4. CASE Known(a)
      BY <1>3, <1>4, <2>1, <2>2, <2>3, <2>4
    <2>5. CASE ~Known(a) /\ Known(a)'
      <3>1. att'[a].key # att[b].key
        <4>1. att'[b].key = att[b].key /\ Known(b)'
          BY <1>1, <2>2, KnownEvolves
        <4>2. work'[att'[b].key].attempt = b
          BY <1>1, <4>1 DEF LedgerInv, WorkMirrorsAttempt, Known
        <4> QED
          BY <1>3, <2>2, <2>5, <4>1, <4>2
      <3> QED
        BY <1>3, <1>5, <2>2, <2>5, <3>1
    <2> QED
      BY <2>4, <2>5
  <1>8. CASE \E p \in Proc : BindsOwn(p)
    BY <1>2, <1>7, <1>8
  <1>9. CASE Quiet
    BY <1>2, <1>6, <1>9 DEF Quiet
  <1>10. ASSUME \/ \E p \in Proc : PostAnswered(p) \/ PostRejected(p) \/ PostUncertain(p)
                \/ \E c \in Attempt : CreateLate(c)
                \/ \E s \in Session : CreateForeign(s) \/ SessionMoves(s)
         PROVE  att' = att
    BY <1>10
    DEF PostAnswered, PostRejected, PostUncertain, CreateLate, CreateForeign, SessionMoves,
        ledgerVars
  <1> QED
    BY <1>1, <1>8, <1>9, <1>10, StepsAre

LEMMA OwnInvNext == DistinctShapes /\ OwnInv /\ [Next]_vars => OwnInv'
  <1>1. ASSUME DistinctShapes, OwnInv, Next PROVE OwnInv'
    <2>1. PromiseInv' /\ ShapesOK'
      BY <1>1, PromiseInvNext, ShapesStep DEF OwnInv
    <2>2. \A p \in Proc : call'[p].pc \in Binding => remote'[call'[p].sess].creator = call'[p].att
      BY <1>1, BindersStep
    <2>3. ASSUME NEW a \in Attempt, ~Known(a)' PROVE att'[a].session = None
      <3>1. att'[a] = att[a] /\ ~Known(a)
        BY <1>1, <2>3, RowsAreAsked, KnownEvolves, LedgerStep DEF OwnInv, PromiseInv, Known
      <3> QED
        BY <1>1, <3>1 DEF OwnInv, OwnOK
    <2>4. ASSUME NEW a \in Attempt, att'[a].session # None
          PROVE  remote'[att'[a].session].creator = a
      <3>1. CASE att'[a].session = att[a].session
        <4>1. PICK s : s = att[a].session
          OBVIOUS
        <4>2. s \in Session
          BY <1>1, <2>4, <3>1, <4>1
          DEF OwnInv, PromiseInv, IndInv, LedgerInv, LedgerTypeOK, AttemptRow
        <4>3. Creator(s) = a /\ a # None
          BY <1>1, <2>4, <3>1, <4>1, NullAssumption DEF OwnInv, OwnOK, BoundSessionIsOwn, Creator
        <4>4. Creator(s)' = Creator(s)
          BY <1>1, <4>2, <4>3, RemoteEvolves DEF OwnInv
        <4> QED
          BY <3>1, <4>1, <4>3, <4>4 DEF Creator
      <3>2. ASSUME NEW p \in Proc, BindsOwn(p), a = call[p].att,
                   att'[a].session = call[p].sess
            PROVE  remote'[att'[a].session].creator = a
        <4>1. Creator(call[p].sess) = a
          BY <1>1, <3>2 DEF BindsOwn, Bind, At, OwnInv, OwnOK, Binding
        <4>2. UNCHANGED remote
          BY <3>2 DEF BindsOwn, Binds, remoteVars
        <4> QED
          BY <3>2, <4>1, <4>2 DEF Creator
      <3> QED
        BY <1>1, <2>4, <3>1, <3>2, SessionsBound
    <2> QED
      BY <2>1, <2>2, <2>3, <2>4 DEF OwnInv, OwnOK, BoundSessionIsOwn, Creator
  <1>2. ASSUME OwnInv, UNCHANGED vars PROVE OwnInv'
    <2>1. PromiseInv'
      BY <1>2, PromiseInvNext DEF OwnInv
    <2> QED
      BY <1>2, <2>1
      DEF OwnInv, ShapesOK, OwnOK, BoundSessionIsOwn, vars, Creator, Known
  <1> QED
    BY <1>1, <1>2

LEMMA OwnInvInit == Init => OwnInv
  <1> SUFFICES ASSUME Init PROVE OwnInv
    OBVIOUS
  <1>1. PromiseInv
    BY PromiseInvInit
  <1>2. \A p \in Proc : call[p].pc = "idle" /\ call[p].key = None
    BY DEF Init, Idle, NewCall
  <1>3. \A a \in Attempt : att[a].state = "ABSENT" /\ att[a].session = None
    BY DEF Init, LedgerInit, NoAttempt
  <1>4. \A s \in Session : remote[s].status = "unborn"
    BY DEF Init, Unborn
  <1> QED
    BY <1>1, <1>2, <1>3, <1>4, NullAssumption
    DEF OwnInv, ShapesOK, OwnOK, BoundSessionIsOwn, Known, Binding

(* A key answers only with the session its own request made.                *)
THEOREM SessionsAreOwn == ASSUME DistinctShapes PROVE Spec => []BoundSessionIsOwn
  <1>1. OwnInv => BoundSessionIsOwn
    BY DEF OwnInv, OwnOK
  <1> QED
    BY <1>1, OwnInvInit, OwnInvNext, PTL DEF Spec

(* Once a key has answered with a session it never answers with another:    *)
(* every later bind of its attempt binds the same one.                      *)
THEOREM BindingsAreFinal == ASSUME DistinctShapes PROVE Spec => BindingFinal
  <1>1. ASSUME OwnInv, Next, NEW k \in Key, work[k].session # None
        PROVE  work'[k].session = work[k].session
    <2>1. IndInv /\ MadeOK /\ LedgerInv
      BY <1>1 DEF OwnInv, PromiseInv, IndInv
    <2>2. ASSUME NEW p \in Proc, BindsOwn(p), att[call[p].att].key = k
          PROVE  call[p].sess = work[k].session
      <3>1. PICK a : a = call[p].att
        OBVIOUS
      <3>2. Known(a) /\ a \in Attempt /\ call[p].sess \in Session
        BY <2>1, <2>2, <3>1
        DEF BindsOwn, Bind, At, Known, IndInv, CallsOK, CallOK, HoldsAttempt
      <3>3. att[a].session = work[k].session /\ work[k].session \in Session
        BY <1>1, <2>1, <2>2, <3>1, <3>2
        DEF LedgerInv, WorkMirrorsAttempt, Known, LedgerTypeOK, WorkRow
      <3>4. Creator(call[p].sess) = a
        BY <1>1, <2>2, <3>1 DEF BindsOwn, Bind, At, OwnInv, OwnOK, Binding
      <3>5. Creator(work[k].session) = a
        BY <1>1, <3>2, <3>3 DEF OwnInv, OwnOK, BoundSessionIsOwn, Creator
      <3>6. a # None
        BY <3>2, NullAssumption
      <3> QED
        BY <2>1, <3>2, <3>3, <3>4, <3>5, <3>6 DEF MadeOK
    <2>3. ASSUME NEW p \in Proc, BindsOwn(p) PROVE work'[k].session = work[k].session
      BY <2>2, <2>3 DEF BindsOwn, Binds
    <2>4. ASSUME \/ \E p \in Proc : PostAnswered(p) \/ PostRejected(p) \/ PostUncertain(p)
                 \/ \E c \in Attempt : CreateLate(c)
                 \/ \E s \in Session : CreateForeign(s) \/ SessionMoves(s)
          PROVE  work' = work
      BY <2>4
      DEF PostAnswered, PostRejected, PostUncertain, CreateLate, CreateForeign,
          SessionMoves, ledgerVars
    <2> QED
      BY <1>1, <2>1, <2>3, <2>4, StepsAre DEF Quiet
  <1>2. OwnInv /\ [Next]_vars => [\A k \in Key : work[k].session # None
                                    => work'[k].session = work[k].session]_vars
    BY <1>1
  <1> QED
    BY <1>2, OwnInvInit, OwnInvNext, PTL DEF Spec, BindingFinal

-----------------------------------------------------------------------------
(* Reconciliation can find what a request made.  A candidate is excluded    *)
(* when the listing before the reservation showed it, or when it is older   *)
(* than the transmission tolerates; both lists hold only sessions that      *)
(* existed before the request left, and none of those is its own.           *)
Born(s) == remote[s].status # "unborn"
Hidden(a) == att[a].baseline \cup att[a].early

HiddenOK ==
    /\ \A p \in Proc : \A s \in Seen(call[p].view) : Born(s)
    /\ \A a \in Attempt : \A s \in Hidden(a) :
         s \in Session /\ Born(s) /\ Creator(s) # a

FindInv == PromiseInv /\ ShapesOK /\ HiddenOK

(* A session that exists stays so, under its creator.                       *)
LEMMA BornStays ==
  ASSUME PromiseInv, Next, NEW s \in Session, Born(s)
  PROVE  Born(s)' /\ Creator(s)' = Creator(s)
  <1>1. ASSUME UNCHANGED remote PROVE Born(s)' /\ Creator(s)' = Creator(s)
    BY <1>1 DEF Born, Creator
  <1>2. ASSUME NEW t \in Session, NEW a \in Attempt, remote[t].status = "unborn",
               Create(t, a)
        PROVE  Born(s)' /\ Creator(s)' = Creator(s)
    BY <1>2, CreateMakes DEF Born
  <1>3. ASSUME NEW p \in Proc, PostAnswered(p) \/ PostRejected(p) \/ PostUncertain(p)
        PROVE  Born(s)' /\ Creator(s)' = Creator(s)
    <2>1. call[p].att \in Attempt
      BY <1>3, PostDoes, BeforePost
    <2> QED
      BY <1>1, <1>2, <1>3, <2>1, PostDoes
  <1>4. ASSUME NEW a \in Attempt, CreateLate(a)
        PROVE  Born(s)' /\ Creator(s)' = Creator(s)
    BY <1>2, <1>4 DEF CreateLate
  <1>5. ASSUME NEW t \in Session, CreateForeign(t) \/ SessionMoves(t)
        PROVE  Born(s)' /\ Creator(s)' = Creator(s)
    BY <1>5, ForeignKeepsCreators DEF Born
  <1>6. ASSUME Quiet \/ \E p \in Proc : BindsOwn(p) PROVE UNCHANGED remote
    BY <1>6 DEF Quiet, BindsOwn, Binds, remoteVars
  <1> QED
    BY <1>1, <1>3, <1>4, <1>5, <1>6, StepsAre DEF PromiseInv

(* Where the listing that a call holds comes from.                          *)
LEMMA ViewsAre ==
  ASSUME IndInv, NEW p \in Proc,
         \/ StartDispatch(p) \/ StartList(p) \/ StartReconcile(p) \/ AdoptCommand(p)
         \/ Step(p) \/ Crash(p)
  PROVE  \/ call'[p].view \in {call[p].view, NoView}
         \/ call'[p].view = Listing /\ UNCHANGED remote
         \/ \E s \in Visible : \E status :
              call'[p].view = Only(s, status) /\ UNCHANGED remote
         \/ \E s \in Session : \E a, status :
              Create(s, a) /\ call'[p].view = Only(s, status)
  <1>a. call \in [Proc -> Call] /\ call[p] \in Call
    BY DEF IndInv, CallsOK
  <1>1. End(p) => call'[p].view = NoView
    BY <1>a DEF End, Idle, NewCall
  <1>2. \A label : Goto(p, label) => call'[p].view = call[p].view
    BY <1>a DEF Goto, Call
  <1>3. ASSUME StartDispatch(p) PROVE call'[p].view = NoView
    BY <1>a, <1>3 DEF StartDispatch, NewCall
  <1>4. ASSUME Lookup(p) PROVE call'[p].view \in {call[p].view, NoView}
    <2>1. ASSUME NEW a, call' = [call EXCEPT ![p].pc = "route", ![p].att = a]
          PROVE  call'[p].view = call[p].view
      BY <1>a, <2>1 DEF Call
    <2> QED
      BY <1>1, <1>2, <1>4, <2>1 DEF Lookup
  <1>5. ASSUME NEW label, NEW todo, call' = [call EXCEPT ![p].pc = label, ![p].todo = todo]
        PROVE  call'[p].view = call[p].view
    BY <1>a, <1>5 DEF Call
  <1>6. ASSUME Snapshot(p) \/ Retire(p) PROVE call'[p].view \in {call[p].view, NoView}
    BY <1>1, <1>5, <1>6 DEF Snapshot, Retire, AfterSnapshot
  <1>7. ASSUME RememberListed(p) PROVE call'[p].view = call[p].view
    BY <1>a, <1>7 DEF RememberListed, Call
  <1>8. ASSUME Reserve(p) PROVE call'[p].view = NoView
    <2>1. ASSUME NEW label, NEW a,
                 call' = [call EXCEPT ![p].pc = label, ![p].att = a, ![p].view = NoView]
          PROVE  call'[p].view = NoView
      BY <1>a, <2>1 DEF Call
    <2> QED
      BY <1>1, <1>8, <2>1 DEF Reserve
  <1>9. ASSUME NEW label, NEW s, NEW view,
               call' = [call EXCEPT ![p].pc = label, ![p].sess = s, ![p].view = view]
        PROVE  call'[p].view = view
    BY <1>a, <1>9 DEF Call
  <1>10. ASSUME ReadAttempt(p) PROVE call'[p].view \in {call[p].view, NoView}
    <2>1. ASSUME call' = [call EXCEPT ![p].pc = "scan", ![p].tries = Scans]
          PROVE  call'[p].view = call[p].view
      BY <1>a, <2>1 DEF Call
    <2> QED
      BY <1>1, <1>10, <2>1 DEF ReadAttempt
  <1>11. ASSUME ListRemote(p)
         PROVE  call'[p].view = NoView \/ (call'[p].view = Listing /\ UNCHANGED remote)
    <2>1. UNCHANGED remote
      BY <1>11 DEF ListRemote, remoteVars
    <2>2. ASSUME NEW label, NEW todo, NEW view,
                 call' = [call EXCEPT ![p].pc = label, ![p].view = view, ![p].todo = todo]
          PROVE  call'[p].view = view
      BY <1>a, <2>2 DEF Call
    <2> QED
      BY <1>1, <1>11, <2>1, <2>2 DEF ListRemote
  <1>12. ASSUME AdoptCommand(p)
         PROVE  \E s \in Visible : \E status :
                  call'[p].view = Only(s, status) /\ UNCHANGED remote
    <2>1. PICK a \in Attempt, s \in Visible :
            call' = [call EXCEPT ![p] =
                       NewCall("adopt", None, None, a, s, Only(s, remote[s].status))]
      BY <1>12 DEF AdoptCommand
    <2>2. call'[p].view = Only(s, remote[s].status)
      BY <1>a, <2>1 DEF NewCall
    <2> QED
      BY <1>12, <2>2 DEF AdoptCommand, remoteVars
  <1>13. ASSUME PostAnswered(p)
         PROVE  \E s \in Session : \E a, status :
                  Create(s, a) /\ call'[p].view = Only(s, status)
    BY <1>9, <1>13 DEF PostAnswered
  <1>14. ASSUME Scan(p)
         PROVE  \/ call'[p].view \in {call[p].view, NoView}
                \/ \E s \in Visible : \E status :
                     call'[p].view = Only(s, status) /\ UNCHANGED remote
    <2>1. ASSUME NEW s \in Session, Candidates(call[p].att) = {s},
                 call' = [call EXCEPT ![p].pc = "adopt", ![p].sess = s,
                                      ![p].view = Only(s, remote[s].status)]
          PROVE  s \in Visible /\ call'[p].view = Only(s, remote[s].status)
      BY <1>9, <2>1 DEF Candidates
    <2>2. ASSUME NextRound(p) PROVE call'[p].view = call[p].view
      BY <1>a, <2>2 DEF NextRound, Call
    <2> QED
      BY <1>1, <1>2, <1>14, <2>1, <2>2 DEF Scan, remoteVars
  <1>15. ASSUME \/ StartList(p) \/ StartReconcile(p) \/ Route(p) \/ EndListing(p)
                \/ Send(p) \/ PostRejected(p) \/ PostUncertain(p) \/ MarkRejected(p)
                \/ MarkReconciling(p) \/ Bind(p) \/ RememberOne(p) \/ MarkIndeterminate(p)
                \/ Crash(p)
         PROVE  call'[p].view \in {call[p].view, NoView}
    <2>1. End(p) \/ \E label : Goto(p, label)
      BY <1>15
      DEF StartList, StartReconcile, Route, EndListing, Send, PostRejected, PostUncertain,
          MarkRejected, MarkReconciling, Bind, RememberOne, MarkIndeterminate, Crash
    <2> QED
      BY <1>1, <1>2, <2>1
  <1> QED
    BY <1>3, <1>4, <1>6, <1>7, <1>8, <1>10, <1>11, <1>12, <1>13, <1>14, <1>15 DEF Step

LEMMA ViewsStep ==
  ASSUME PromiseInv, HiddenOK, Next, NEW p \in Proc, NEW s \in Seen(call'[p].view)
  PROVE  Born(s)'
  <1>a. IndInv /\ s \in Session
    BY DEF PromiseInv, Seen
  <1>1. CASE call'[p].view = call[p].view
    BY <1>1, <1>a, BornStays DEF HiddenOK
  <1>2. ASSUME call'[p].view # call[p].view
        PROVE  \/ StartDispatch(p) \/ StartList(p) \/ StartReconcile(p) \/ AdoptCommand(p)
               \/ Step(p) \/ Crash(p)
    <2>1. call'[p] # call[p]
      BY <1>2
    <2>2. ASSUME \/ \E value \in BOOLEAN : Fence(value)
                 \/ \E a \in Attempt : TimePasses(a) \/ CreateLate(a)
                 \/ \E t \in Session : CreateForeign(t) \/ SessionMoves(t)
          PROVE  UNCHANGED call
      BY <2>2 DEF Fence, TimePasses, CreateLate, CreateForeign, SessionMoves
    <2> QED
      BY <1>a, <2>1, <2>2, OthersStay DEF Next
  <1>3. CASE call'[p].view = NoView
    BY <1>3, <1>a DEF Seen, NoView
  <1>4. CASE call'[p].view = Listing /\ UNCHANGED remote
    BY <1>4, <1>a DEF Seen, Listing, Visible, Born
  <1>5. \A t \in Session : \A status : call'[p].view = Only(t, status) => s = t
    BY <1>a DEF Seen, Only, NoView
  <1>6. CASE \E t \in Visible : \E status :
               call'[p].view = Only(t, status) /\ UNCHANGED remote
    BY <1>5, <1>6 DEF Visible, Born
  <1>7. CASE \E t \in Session : \E a, status :
               Create(t, a) /\ call'[p].view = Only(t, status)
    <2>1. \E a : Create(s, a)
      BY <1>5, <1>7
    <2> QED
      BY <1>a, <2>1 DEF Create, Born, IndInv, RemoteOK
  <1> QED
    BY <1>a, <1>1, <1>2, <1>3, <1>4, <1>6, <1>7, ViewsAre

(* What an attempt excludes is settled when it is reserved and when its     *)
(* transmission begins.                                                     *)
LEMMA HiddenSteps ==
  ASSUME PromiseInv, HiddenOK, Next, NEW a \in Attempt, NEW s \in Hidden(a)'
  PROVE  s \in Hidden(a) \/ (s \in Session /\ Born(s) /\ Creator(s) # a)
  <1> DEFINE Goal == s \in Hidden(a) \/ (s \in Session /\ Born(s) /\ Creator(s) # a)
  <1>1. att \in [Attempt -> AttemptRow] /\ IndInv /\ MadeOK
    BY DEF PromiseInv, IndInv, LedgerInv, LedgerTypeOK
  <1>2. ASSUME att'[a].baseline = att[a].baseline, att'[a].early = att[a].early
        PROVE  Goal
    BY <1>2 DEF Hidden
  <1>3. ASSUME UNCHANGED att PROVE Goal
    BY <1>2, <1>3
  <1>4. ASSUME NEW p \in Proc, Reserve(p) PROVE Goal
    <2>1. ASSUME NEW b \in Attempt, att[b].state = "ABSENT",
                 InsertReservation(call[p].key, call[p].shape, b, Seen(call[p].view))
          PROVE  Goal
      <3>1. CASE b # a
        <4>1. att'[a] = att[a]
          BY <1>1, <2>1, <3>1 DEF InsertReservation
        <4> QED
          BY <1>2, <4>1
      <3>2. CASE b = a
        <4>1. att'[a].baseline = Seen(call[p].view) /\ att'[a].early = {}
          BY <1>1, <2>1, <3>2 DEF InsertReservation
        <4>2. s \in Session /\ Born(s)
          BY <4>1 DEF Hidden, HiddenOK, Seen
        <4>3. Creator(s) # None => Known(Creator(s))
          BY <1>1, <4>2 DEF MadeOK
        <4> QED
          BY <2>1, <3>2, <4>2, <4>3, NullAssumption DEF Known
      <3> QED
        BY <3>1, <3>2
    <2> HIDE DEF Goal
    <2> QED
      BY <1>3, <1>4, <2>1 DEF Reserve, ledgerVars
  <1>5. ASSUME NEW p \in Proc, Send(p) PROVE Goal
    <2>1. ASSUME NEW early \in SUBSET Visible, CanBeginSend(call[p].att),
                 BeginSend(call[p].att, early)
          PROVE  Goal
      <3>1. PICK b : b = call[p].att
        OBVIOUS
      <3>2. CASE b # a
        <4>1. att'[a] = att[a]
          BY <1>1, <2>1, <3>1, <3>2 DEF BeginSend
        <4> QED
          BY <1>2, <4>1
      <3>3. CASE b = a
        <4>1. att[a] \in AttemptRow
                /\ att' = [att EXCEPT ![a] = [att[a] EXCEPT !.state = "SEND_STARTED",
                             !.sent = "recent", !.early = early]]
          BY <1>1, <2>1, <3>1, <3>3 DEF BeginSend
        <4>2. att'[a].baseline = att[a].baseline /\ att'[a].early = early
          BY <1>1, <4>1 DEF AttemptRow
        <4>3. CASE s \in Hidden(a)
          BY <4>3
        <4>4. CASE s \in early
          <5>1. s \in Session /\ Born(s)
            BY <4>4 DEF Visible, Born
          <5>2. att[a].state = "RESERVED"
            BY <2>1, <3>1, <3>3 DEF CanBeginSend
          <5>3. posts[att[a].key] = 0
            BY <1>1, <5>2 DEF IndInv, LedgerInv, ReservedIsUnsent, PostsOK
          <5>4. Creator(s) # a
            BY <1>1, <5>1, <5>3, NullAssumption DEF MadeOK
          <5> QED
            BY <5>1, <5>4
        <4> QED
          BY <4>2, <4>3, <4>4 DEF Hidden
      <3> QED
        BY <3>2, <3>3
    <2> HIDE DEF Goal
    <2>2. \A T : SUBSET (Visible \ T) \subseteq SUBSET Visible
      OBVIOUS
    <2> QED
      BY <1>3, <1>5, <2>1, <2>2 DEF Send, ledgerVars
  <1>6. ASSUME NEW p \in Proc, MarkRejected(p) \/ MarkReconciling(p) \/ MarkIndeterminate(p)
        PROVE  Goal
    <2>1. PICK state : MarkAttemptError(call[p].att, state)
      BY <1>6 DEF MarkRejected, MarkReconciling, MarkIndeterminate
    <2>2. att'[a].baseline = att[a].baseline /\ att'[a].early = att[a].early
      BY <1>1, <2>1 DEF MarkAttemptError, AttemptRow
    <2> QED
      BY <1>2, <2>2
  <1>7. ASSUME NEW p \in Proc, Bind(p) PROVE Goal
    <2>1. ASSUME NEW state, BindSession(call[p].att, call[p].sess, state) PROVE Goal
      <3>1. att'[a].baseline = att[a].baseline /\ att'[a].early = att[a].early
        BY <1>1, <2>1 DEF BindSession, AttemptRow
      <3> QED
        BY <1>2, <3>1
    <2> HIDE DEF Goal
    <2> QED
      BY <1>3, <1>7, <2>1 DEF Bind, ledgerVars
  <1>8. ASSUME NEW value \in BOOLEAN, Fence(value) PROVE Goal
    <2>1. att'[a].baseline = att[a].baseline /\ att'[a].early = att[a].early
      BY <1>1, <1>8 DEF Fence, SetFrozen, AttemptRow
    <2> QED
      BY <1>2, <2>1
  <1>9. ASSUME NEW b \in Attempt, TimePasses(b) PROVE Goal
    <2>1. att'[a].baseline = att[a].baseline /\ att'[a].early = att[a].early
      BY <1>1, <1>9 DEF TimePasses, StartAges, AttemptRow
    <2> QED
      BY <1>2, <2>1
  <1>10. ASSUME NEW p \in Proc,
               \/ StartDispatch(p) \/ StartList(p) \/ StartReconcile(p)
               \/ AdoptCommand(p) \/ Lookup(p) \/ Route(p) \/ ListRemote(p)
               \/ Snapshot(p) \/ EndListing(p) \/ PostAnswered(p) \/ PostRejected(p)
               \/ PostUncertain(p) \/ ReadAttempt(p) \/ Scan(p) \/ Crash(p)
               \/ RememberListed(p) \/ RememberOne(p) \/ Retire(p)
        PROVE  UNCHANGED att
    BY <1>10
    DEF StartDispatch, StartList, StartReconcile, AdoptCommand, Lookup, Route,
        ListRemote, Snapshot, EndListing, PostAnswered, PostRejected, PostUncertain,
        ReadAttempt, Scan, Crash, RememberListed, RememberOne, Retire, UpsertSessions,
        MarkNotVisible, ledgerVars
  <1>11. ASSUME \/ \E b \in Attempt : CreateLate(b)
                \/ \E t \in Session : CreateForeign(t) \/ SessionMoves(t)
         PROVE  UNCHANGED att
    BY <1>11 DEF CreateLate, CreateForeign, SessionMoves, ledgerVars
  <1>12. Goal
    <2> HIDE DEF Goal
    <2> QED
      BY <1>3, <1>4, <1>5, <1>6, <1>7, <1>8, <1>9, <1>10, <1>11 DEF Next, Step
  <1> QED
    BY <1>12

LEMMA FindInvNext == FindInv /\ [Next]_vars => FindInv'
  <1>1. ASSUME FindInv, Next PROVE FindInv'
    <2>1. PromiseInv' /\ ShapesOK'
      BY <1>1, PromiseInvNext, ShapesStep DEF FindInv
    <2>2. ASSUME NEW p \in Proc, NEW s \in Seen(call'[p].view) PROVE Born(s)'
      BY <1>1, <2>2, ViewsStep DEF FindInv
    <2>3. ASSUME NEW a \in Attempt, NEW s \in Hidden(a)'
          PROVE  s \in Session /\ Born(s)' /\ Creator(s)' # a
      <3>1. s \in Session /\ Born(s) /\ Creator(s) # a
        BY <1>1, <2>3, HiddenSteps DEF FindInv, HiddenOK
      <3> QED
        BY <1>1, <3>1, BornStays DEF FindInv
    <2>4. HiddenOK'
      BY <2>2, <2>3 DEF HiddenOK, Seen
    <2> QED
      BY <2>1, <2>4 DEF FindInv
  <1>2. ASSUME FindInv, UNCHANGED vars PROVE FindInv'
    <2>1. PromiseInv'
      BY <1>2, PromiseInvNext DEF FindInv
    <2> QED
      BY <1>2, <2>1 DEF FindInv, ShapesOK, HiddenOK, vars, Creator, Known, Born, Hidden, Seen
  <1> QED
    BY <1>1, <1>2

LEMMA FindInvInit == Init => FindInv
  <1> SUFFICES ASSUME Init PROVE FindInv
    OBVIOUS
  <1>1. OwnInv
    BY OwnInvInit
  <1>2. \A p \in Proc : Seen(call[p].view) = {}
    BY DEF Init, Idle, NewCall, NoView, Seen
  <1>3. \A a \in Attempt : Hidden(a) = {}
    BY DEF Init, LedgerInit, NoAttempt, Hidden
  <1> QED
    BY <1>1, <1>2, <1>3 DEF FindInv, OwnInv, HiddenOK

(* Neither the baseline, nor the tolerance of the creation time, nor what   *)
(* happens to the session later hides it from the attempt that made it.     *)
THEOREM OwnSessionIsFound == Spec => []OwnSessionIsCandidate
  <1>1. FindInv => OwnSessionIsCandidate
    <2> SUFFICES ASSUME FindInv, NEW s \in Visible, remote[s].creator # None
                 PROVE  s \in Candidates(remote[s].creator)
      BY DEF OwnSessionIsCandidate
    <2>1. PICK a : a = Creator(s)
      OBVIOUS
    <2>2. a \in Attempt /\ s \in Session /\ remote[s].status # "unborn"
      BY <2>1 DEF FindInv, PromiseInv, MadeOK, Known, Creator, Visible
    <2>3. remote[s].shape = att[a].shape
      BY <2>1, <2>2 DEF FindInv, ShapesOK, Creator
    <2>4. s \notin att[a].baseline /\ s \notin att[a].early
      BY <2>1, <2>2 DEF FindInv, HiddenOK, Hidden
    <2> QED
      BY <2>1, <2>3, <2>4 DEF Candidates, Matches, Creator
  <1> QED
    BY <1>1, FindInvInit, FindInvNext, PTL DEF Spec
=============================================================================
