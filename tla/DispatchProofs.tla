---------------------------- MODULE DispatchProofs ----------------------------
(***************************************************************************)
(* Proofs about Dispatch, for any number of processes, keys, attempts and  *)
(* sessions.  IndInv is the inductive invariant: the invariant of the      *)
(* tables (LedgerProofs), what each process may rely on at each label, and *)
(* the accounting of the one transmission that an attempt may make.  After *)
(* the safety properties come the measure that every call runs down and    *)
(* what it takes to revive a rejected attempt.                             *)
(***************************************************************************)
EXTENDS Dispatch, LedgerProofs

HoldsAttempt == {"route", "send", "post", "rejected", "uncertain", "bind",
                 "recon", "scan", "adopt", "none", "multiple"}

(* A process past get_work holds an attempt of the table, one that binds or *)
(* remembers holds a session, one that looks up or reserves holds a key.    *)
CallOK(c, table) ==
    /\ c.pc \in HoldsAttempt => c.att \in Attempt /\ table[c.att].state # "ABSENT"
    /\ c.pc \in {"bind", "adopt", "rememberOne"} => c.sess \in Session
    /\ c.key \in Key => c.shape \in Shape
    /\ c.pc \in {"lookup", "reserve"} => c.key \in Key
    /\ c.pc = "scan" => c.tries \in 1 .. Scans

CallsOK ==
    /\ call \in [Proc -> Call]
    /\ \A p \in Proc : CallOK(call[p], att)

RemoteOK ==
    /\ remote \in [Session -> RemoteSession]
    /\ pending \subseteq Attempt
    /\ posts \in [Key -> Nat]

(* Where the one transmission of an attempt is: not begun, in the hands of  *)
(* the one process that committed begin_send, or spent.                     *)
PostsOK ==
    /\ \A k \in Key : posts[k] \in {0, 1} /\ (~HasWork(k) => posts[k] = 0)
    /\ \A a \in Attempt : att[a].state # "ABSENT" /\ ~Transmitted(a)
                            => posts[att[a].key] = 0
    /\ \A p \in Proc : At(p, "post") =>
         Transmitted(call[p].att) /\ posts[att[call[p].att].key] = 0
    /\ \A p, q \in Proc : At(p, "post") /\ At(q, "post")
                            /\ call[p].att = call[q].att => p = q

IndInv == LedgerInv /\ CallsOK /\ RemoteOK /\ PostsOK

-----------------------------------------------------------------------------
LEMMA IdleCall == Idle \in Call /\ \A table : CallOK(Idle, table)
  BY NullAssumption, ScanAssumption
  DEF Idle, NewCall, Call, Label, View, NoView, CallOK, HoldsAttempt

LEMMA InitInv == Init => IndInv
  <1> SUFFICES ASSUME Init PROVE IndInv
    OBVIOUS
  <1>1. LedgerInv
    BY LedgerInitInv DEF Init
  <1>2. CallsOK
    BY IdleCall DEF Init, CallsOK
  <1>3. RemoteOK
    BY DEF Init, RemoteOK, RemoteSession, Unborn
  <1>4. \A p \in Proc : ~At(p, "post")
    BY DEF Init, At, Idle, NewCall
  <1>5. PostsOK
    BY <1>4 DEF Init, PostsOK, LedgerInit, NoAttempt
  <1> QED
    BY <1>1, <1>2, <1>3, <1>5 DEF IndInv

(* A relabelled call keeps its locals.                                      *)
LEMMA Relabel ==
  ASSUME NEW c \in Call, NEW label \in Label
  PROVE  /\ [c EXCEPT !.pc = label] \in Call
         /\ [c EXCEPT !.pc = label].pc = label
         /\ [c EXCEPT !.pc = label].key = c.key
         /\ [c EXCEPT !.pc = label].shape = c.shape
         /\ [c EXCEPT !.pc = label].att = c.att
         /\ [c EXCEPT !.pc = label].sess = c.sess
         /\ [c EXCEPT !.pc = label].tries = c.tries
  BY DEF Call


-----------------------------------------------------------------------------
(* Every step of Dispatch is a transaction of Ledger or leaves it alone.    *)
LEMMA LedgerStep ==
  ASSUME IndInv, Next
  PROVE  LedgerInv' /\ Evolves
  <1> USE DEF IndInv
  <1>1. ASSUME NEW p \in Proc, RememberListed(p) \/ RememberOne(p) \/ Retire(p)
        PROVE  LedgerInv' /\ Evolves
    <2>1. call[p].view \in [Session -> {"absent", "active", "inactive"}]
      BY DEF CallsOK, Call, View
    <2>2. sessions \in [Session -> {"absent", "active", "inactive"}]
      BY DEF LedgerInv, LedgerTypeOK
    <2>3. sessions' \in [Session -> {"absent", "active", "inactive"}]
      BY <1>1, <2>1, <2>2
      DEF RememberListed, RememberOne, Retire, UpsertSessions, MarkNotVisible
    <2>4. UNCHANGED <<frozen, generation, work, att>>
      BY <1>1
      DEF RememberListed, RememberOne, Retire, UpsertSessions, MarkNotVisible
    <2> QED
      BY <2>3, <2>4, SessionCacheInv
  <1>2. ASSUME NEW p \in Proc, Reserve(p)
        PROVE  LedgerInv' /\ Evolves
    <2> DEFINE k == call[p].key
               sh == call[p].shape
               base == Seen(call[p].view)
    <2>1. CASE UNCHANGED ledgerVars
      BY <2>1, LedgerStutterInv
    <2>2. ASSUME NEW a \in Attempt, ~ReserveRefused(k, sh), ~HasWork(k),
                 att[a].state = "ABSENT", InsertReservation(k, sh, a, base)
          PROVE  LedgerInv' /\ Evolves
      <3>1. k \in Key /\ sh \in Shape /\ base \in SUBSET Session
        BY <1>2 DEF Reserve, At, CallsOK, CallOK, Seen
      <3>2. ~frozen
        BY <2>2 DEF ReserveRefused
      <3> QED
        BY <2>2, <3>1, <3>2, InsertReservationInv
    <2> QED
      BY <1>2, <2>1, <2>2 DEF Reserve
  <1>3. ASSUME NEW p \in Proc, Send(p)
        PROVE  LedgerInv' /\ Evolves
    <2>1. call[p].att \in Attempt
      BY <1>3 DEF Send, At, CallsOK, CallOK, HoldsAttempt
    <2>2. Visible \subseteq Session
      BY DEF Visible
    <2> QED
      BY <1>3, <2>1, <2>2, BeginSendInv, LedgerStutterInv DEF Send
  <1>4. ASSUME NEW p \in Proc, MarkRejected(p) \/ MarkReconciling(p) \/ MarkIndeterminate(p)
        PROVE  LedgerInv' /\ Evolves
    <2>1. Known(call[p].att)
      BY <1>4
      DEF MarkRejected, MarkReconciling, MarkIndeterminate, At, CallsOK, CallOK,
          HoldsAttempt, Known
    <2>2. \E state \in (Unresolved \ {"RESERVED"}) \cup {"DEFINITIVELY_REJECTED"} :
            MarkAttemptError(call[p].att, state)
      BY <1>4 DEF MarkRejected, MarkReconciling, MarkIndeterminate, Unresolved
    <2> QED
      BY <2>1, <2>2, MarkAttemptErrorInv
  <1>5. ASSUME NEW p \in Proc, Bind(p)
        PROVE  LedgerInv' /\ Evolves
    <2>1. Known(call[p].att) /\ call[p].sess \in Session
      BY <1>5 DEF Bind, At, CallsOK, CallOK, HoldsAttempt, Known
    <2>2. CASE UNCHANGED ledgerVars
      BY <2>2, LedgerStutterInv
    <2>3. ASSUME ~BindConflict(call[p].att, call[p].sess),
                 BindSession(call[p].att, call[p].sess,
                             IF At(p, "bind") THEN "CONFIRMED" ELSE "ADOPTED")
          PROVE  LedgerInv' /\ Evolves
      BY <2>1, <2>3, BindSessionInv
    <2> QED
      BY <1>5, <2>2, <2>3 DEF Bind
  <1>6. ASSUME NEW value \in BOOLEAN, Fence(value)
        PROVE  LedgerInv' /\ Evolves
    BY <1>6, SetFrozenInv DEF Fence
  <1>7. ASSUME NEW a \in Attempt, TimePasses(a)
        PROVE  LedgerInv' /\ Evolves
    BY <1>7, StartAgesInv DEF TimePasses
  <1>8. ASSUME NEW p \in Proc,
               \/ StartDispatch(p) \/ StartList(p) \/ StartReconcile(p)
               \/ AdoptCommand(p) \/ Lookup(p) \/ Route(p) \/ ListRemote(p)
               \/ Snapshot(p) \/ EndListing(p) \/ PostAnswered(p) \/ PostRejected(p)
               \/ PostUncertain(p) \/ ReadAttempt(p) \/ Scan(p) \/ Crash(p)
        PROVE  LedgerInv' /\ Evolves
    <2>1. UNCHANGED ledgerVars
      BY <1>8
      DEF StartDispatch, StartList, StartReconcile, AdoptCommand, Lookup, Route,
          ListRemote, Snapshot, EndListing, PostAnswered, PostRejected, PostUncertain,
          ReadAttempt, Scan, Crash
    <2> QED
      BY <2>1, LedgerStutterInv
  <1>9. ASSUME \/ \E a \in Attempt : CreateLate(a)
               \/ \E s \in Session : CreateForeign(s) \/ SessionMoves(s)
        PROVE  LedgerInv' /\ Evolves
    <2>1. UNCHANGED ledgerVars
      BY <1>9 DEF CreateLate, CreateForeign, SessionMoves
    <2> QED
      BY <2>1, LedgerStutterInv
  <1> HIDE DEF IndInv
  <1> QED
    BY <1>1, <1>2, <1>3, <1>4, <1>5, <1>6, <1>7, <1>8, <1>9 DEF Next, Step

-----------------------------------------------------------------------------
(* A step moves at most one process, to a call whose assumptions hold.      *)
LEMMA OneMoves ==
  ASSUME CallsOK, Evolves, NEW p \in Proc,
         \E c \in Call : CallOK(c, att') /\ call' = [call EXCEPT ![p] = c]
  PROVE  CallsOK'
  <1>1. PICK c \in Call : CallOK(c, att') /\ call' = [call EXCEPT ![p] = c]
    OBVIOUS
  <1>2. call' \in [Proc -> Call]
    BY <1>1 DEF CallsOK
  <1>3. \A q \in Proc : call'[q] = IF q = p THEN c ELSE call[q]
    BY <1>1 DEF CallsOK
  <1>4. \A q \in Proc : CallOK(call[q], att')
    BY DEF CallsOK, CallOK, Evolves
  <1>5. \A q \in Proc : CallOK(call'[q], att')
    BY <1>1, <1>3, <1>4
  <1> QED
    BY <1>2, <1>5 DEF CallsOK

LEMMA NoneMoves ==
  ASSUME CallsOK, Evolves, UNCHANGED call
  PROVE  CallsOK'
  BY DEF CallsOK, CallOK, Evolves

LEMMA CallEnds ==
  ASSUME CallsOK, Evolves, NEW p \in Proc, End(p)
  PROVE  CallsOK'
  BY IdleCall, OneMoves DEF End

(* A move to a label that holds no more than the one before it.             *)
LEMMA CallGoes ==
  ASSUME CallsOK, Evolves, NEW p \in Proc, NEW label \in Label, Goto(p, label),
         CallOK([call[p] EXCEPT !.pc = label], att)
  PROVE  CallsOK'
  <1> DEFINE c == [call[p] EXCEPT !.pc = label]
  <1>1. c \in Call
    BY Relabel DEF CallsOK
  <1>2. call' = [call EXCEPT ![p] = c]
    BY DEF Goto
  <1>3. CallOK(c, att')
    BY DEF CallOK, Evolves
  <1> HIDE DEF c
  <1> QED
    BY <1>1, <1>2, <1>3, OneMoves

LEMMA CallsStep ==
  ASSUME IndInv, Next, Evolves
  PROVE  CallsOK'
  <1> USE DEF IndInv
  <1>a. \A p \in Proc : call[p] \in Call /\ CallOK(call[p], att)
    BY DEF CallsOK
  <1>1. ASSUME NEW p \in Proc, StartDispatch(p) PROVE CallsOK'
    <2>1. PICK r \in Requests :
            call' = [call EXCEPT ![p] = NewCall("lookup", r[1], r[2], None, None, NoView)]
      BY <1>1 DEF StartDispatch
    <2> DEFINE c == NewCall("lookup", r[1], r[2], None, None, NoView)
    <2>2. r[1] \in Key /\ r[2] \in Shape
      BY RequestAssumption
    <2>3. c \in Call
      BY <2>2, ScanAssumption DEF NewCall, Call, Label, View, NoView
    <2>4. CallOK(c, att')
      BY <2>2 DEF NewCall, CallOK, HoldsAttempt
    <2> QED
      BY <2>1, <2>3, <2>4, OneMoves
  <1>2. ASSUME NEW p \in Proc, StartList(p) \/ StartReconcile(p) PROVE CallsOK'
    <2>1. \A label \in {"list", "survey"} : CallOK([call[p] EXCEPT !.pc = label], att)
      BY <1>a, <1>2, Relabel DEF CallOK, HoldsAttempt, Label
    <2> QED
      BY <1>2, <2>1, CallGoes DEF StartList, StartReconcile, Label
  <1>3. ASSUME NEW p \in Proc, AdoptCommand(p) PROVE CallsOK'
    <2>1. PICK a \in Attempt, s \in Visible :
            /\ att[a].state # "ABSENT"
            /\ call' = [call EXCEPT ![p] =
                          NewCall("adopt", None, None, a, s, Only(s, remote[s].status))]
      BY <1>3 DEF AdoptCommand
    <2> DEFINE c == NewCall("adopt", None, None, a, s, Only(s, remote[s].status))
    <2>2. s \in Session /\ remote[s].status \in {"active", "inactive"}
      BY DEF Visible
    <2>3. Only(s, remote[s].status) \in View
      BY <2>2 DEF Only, NoView, View
    <2>4. c \in Call
      BY <2>2, <2>3, ScanAssumption DEF NewCall, Call, Label
    <2>5. CallOK(c, att')
      BY <2>1, <2>2, NullAssumption DEF NewCall, CallOK, HoldsAttempt, Evolves
    <2> QED
      BY <2>1, <2>4, <2>5, OneMoves
  <1>4. ASSUME NEW p \in Proc, Lookup(p) PROVE CallsOK'
    <2>1. call[p].key \in Key
      BY <1>a, <1>4 DEF Lookup, At, CallOK
    <2>2. CASE Goto(p, "list")
      <3>1. CallOK([call[p] EXCEPT !.pc = "list"], att)
        BY <1>a, Relabel DEF CallOK, HoldsAttempt, Label
      <3> QED
        BY <2>2, <3>1, CallGoes DEF Label
    <2>3. CASE /\ HasWork(call[p].key)
               /\ call' = [call EXCEPT ![p].pc = "route",
                                       ![p].att = work[call[p].key].attempt]
      <3> DEFINE a == work[call[p].key].attempt
                 c == [call[p] EXCEPT !.pc = "route", !.att = a]
      <3>1. Known(a)
        BY <2>1, <2>3 DEF LedgerInv, WorkMirrorsAttempt, Known
      <3> HIDE DEF a
      <3>2. c \in Call
        BY <1>a, <3>1 DEF Call, Label, Known
      <3>3. c.pc = "route" /\ c.att = a /\ c.key = call[p].key /\ c.shape = call[p].shape
        BY <1>a DEF Call
      <3>4. call' = [call EXCEPT ![p] = c]
        BY <2>3 DEF a
      <3> HIDE DEF c
      <3>5. CallOK(c, att')
        BY <1>a, <3>1, <3>3 DEF CallOK, HoldsAttempt, Known, Evolves
      <3> QED
        BY <3>2, <3>4, <3>5, OneMoves
    <2> QED
      BY <1>4, <2>2, <2>3, CallEnds DEF Lookup
  <1>5. ASSUME NEW p \in Proc, Route(p) PROVE CallsOK'
    <2>1. \A label \in {"send", "recon"} : CallOK([call[p] EXCEPT !.pc = label], att)
      BY <1>a, <1>5, Relabel DEF Route, At, CallOK, HoldsAttempt, Label
    <2> QED
      BY <1>5, <2>1, CallGoes, CallEnds DEF Route, Label
  <1>6. ASSUME NEW p \in Proc, NEW label \in Label \ HoldsAttempt, NEW view \in View,
               NEW todo \in SUBSET Session,
               label \notin {"rememberOne", "lookup"},
               label = "reserve" => call[p].key \in Key,
               call' = [call EXCEPT ![p].pc = label, ![p].view = view, ![p].todo = todo]
        PROVE  CallsOK'
    <2> DEFINE c == [call[p] EXCEPT !.pc = label, !.view = view, !.todo = todo]
    <2>1. c \in Call /\ c.pc = label /\ c.key = call[p].key /\ c.shape = call[p].shape
      BY <1>a DEF Call
    <2>2. call' = [call EXCEPT ![p] = c]
      BY <1>6
    <2> HIDE DEF c
    <2>3. CallOK(c, att')
      BY <1>a, <1>6, <2>1 DEF CallOK, HoldsAttempt
    <2> QED
      BY <2>1, <2>2, <2>3, OneMoves
  <1>6a. ASSUME NEW p \in Proc, NEW label \in Label \ HoldsAttempt,
                NEW todo \in SUBSET Session,
                label \notin {"rememberOne", "lookup"},
                label = "reserve" => call[p].key \in Key,
                call' = [call EXCEPT ![p].pc = label, ![p].todo = todo]
         PROVE  CallsOK'
    <2> DEFINE c == [call[p] EXCEPT !.pc = label, !.todo = todo]
    <2>1. c \in Call /\ c.pc = label /\ c.key = call[p].key /\ c.shape = call[p].shape
      BY <1>a DEF Call
    <2>2. call' = [call EXCEPT ![p] = c]
      BY <1>6a
    <2> HIDE DEF c
    <2>3. CallOK(c, att')
      BY <1>a, <1>6a, <2>1 DEF CallOK, HoldsAttempt
    <2> QED
      BY <2>1, <2>2, <2>3, OneMoves
  <1>6b. ASSUME NEW p \in Proc, ListRemote(p) PROVE CallsOK'
    <2>1. Listing \in View /\ Seen(Listing) \subseteq Session
      BY DEF Listing, View, Visible, Seen
    <2> DEFINE label == IF At(p, "list") THEN "remember" ELSE "select"
    <2>2. label \in (Label \ HoldsAttempt) \ {"rememberOne", "lookup", "reserve"}
      BY DEF Label, HoldsAttempt
    <2>3. End(p) \/ call' = [call EXCEPT ![p].pc = label, ![p].view = Listing,
                                        ![p].todo = Seen(Listing)]
      BY <1>6b DEF ListRemote
    <2> HIDE DEF label
    <2> QED
      BY <1>6, <2>1, <2>2, <2>3, CallEnds
  <1>7. ASSUME NEW p \in Proc, RememberListed(p) PROVE CallsOK'
    <2>1. PICK s \in call[p].todo : call' = [call EXCEPT ![p].todo = @ \ {s}]
      BY <1>7 DEF RememberListed
    <2> DEFINE c == [call[p] EXCEPT !.todo = @ \ {s}]
    <2>2. /\ c \in Call /\ c.pc \in {"remember", "rememberRest"}
          /\ c.key = call[p].key /\ c.shape = call[p].shape
      BY <1>a, <1>7 DEF Call, RememberListed, At
    <2>3. call' = [call EXCEPT ![p] = c]
      BY <2>1
    <2> HIDE DEF c
    <2>4. CallOK(c, att')
      BY <1>a, <2>2 DEF CallOK, HoldsAttempt
    <2> QED
      BY <2>2, <2>3, <2>4, OneMoves
  <1>8. ASSUME NEW p \in Proc, AfterSnapshot(p) PROVE CallsOK'
    <2> DEFINE label == IF call[p].pc \in {"select", "retireFirst"} THEN "rememberRest"
                                                                  ELSE "reserve"
               todo == IF label = "reserve" THEN {} ELSE Seen(call[p].view)
    <2>1. label \in (Label \ HoldsAttempt) \ {"rememberOne", "lookup"}
      BY DEF Label, HoldsAttempt
    <2>2. todo \in SUBSET Session
      BY DEF Seen
    <2>3. \/ End(p)
          \/ /\ label = "reserve" => call[p].key # None
             /\ call' = [call EXCEPT ![p].pc = label, ![p].todo = todo]
      BY <1>8 DEF AfterSnapshot
    <2>4. call[p].key # None => call[p].key \in Key
      BY <1>a DEF Call
    <2> HIDE DEF label, todo
    <2> QED
      BY <1>6a, <2>1, <2>2, <2>3, <2>4, CallEnds
  <1>8a. ASSUME NEW p \in Proc, Snapshot(p) PROVE CallsOK'
    <2> DEFINE label == IF At(p, "select") THEN "retireFirst" ELSE "retire"
               missing == MissingFrom(Seen(call[p].view))
    <2>1. label \in (Label \ HoldsAttempt) \ {"rememberOne", "lookup", "reserve"}
      BY DEF Label, HoldsAttempt
    <2>2. missing \in SUBSET Session
      BY DEF MissingFrom, ActiveSessions
    <2>3. AfterSnapshot(p) \/ call' = [call EXCEPT ![p].pc = label, ![p].todo = missing]
      BY <1>8a DEF Snapshot
    <2> HIDE DEF label, missing
    <2> QED
      BY <1>6a, <1>8, <2>1, <2>2, <2>3
  <1>8b. ASSUME NEW p \in Proc, Retire(p) \/ EndListing(p) PROVE CallsOK'
    BY <1>8, <1>8b, CallEnds DEF Retire, EndListing
  <1>9. ASSUME NEW p \in Proc, Reserve(p) PROVE CallsOK'
    <2> DEFINE k == call[p].key
    <2>1. k \in Key
      BY <1>a, <1>9 DEF Reserve, At, CallOK
    <2>2. ASSUME NEW a \in Attempt, NEW label \in {"recon", "send"},
                 att'[a].state # "ABSENT",
                 call' = [call EXCEPT ![p].pc = label, ![p].att = a, ![p].view = NoView]
          PROVE  CallsOK'
      <3> DEFINE c == [call[p] EXCEPT !.pc = label, !.att = a, !.view = NoView]
      <3>1. c \in Call
        BY <1>a DEF Call, Label, View, NoView
      <3>2. c.pc = label /\ c.att = a /\ c.key = call[p].key /\ c.shape = call[p].shape
        BY <1>a DEF Call
      <3>3. call' = [call EXCEPT ![p] = c]
        BY <2>2
      <3> HIDE DEF c
      <3>4. CallOK(c, att')
        BY <1>a, <2>2, <3>2 DEF CallOK, HoldsAttempt
      <3> QED
        BY <3>1, <3>3, <3>4, OneMoves
    <2>3. ASSUME HasWork(k), call' = [call EXCEPT ![p].pc = "recon",
                               ![p].att = work[k].attempt, ![p].view = NoView]
          PROVE  CallsOK'
      <3>1. Known(work[k].attempt)
        BY <2>1, <2>3 DEF LedgerInv, WorkMirrorsAttempt, Known
      <3> QED
        BY <2>2, <2>3, <3>1 DEF Known, Evolves
    <2>4. ASSUME NEW a \in Attempt,
                 InsertReservation(k, call[p].shape, a, Seen(call[p].view)),
                 call' = [call EXCEPT ![p].pc = "send", ![p].att = a, ![p].view = NoView]
          PROVE  CallsOK'
      <3>1. att'[a].state # "ABSENT"
        BY <2>4 DEF InsertReservation, LedgerInv, LedgerTypeOK
      <3> QED
        BY <2>2, <2>4, <3>1
    <2> QED
      BY <1>9, <2>3, <2>4, CallEnds DEF Reserve
  <1>10. ASSUME NEW p \in Proc, Send(p) PROVE CallsOK'
    <2>1. CallOK([call[p] EXCEPT !.pc = "post"], att)
      BY <1>a, <1>10, Relabel DEF Send, At, CallOK, HoldsAttempt, Label
    <2> QED
      BY <1>10, <2>1, CallGoes, CallEnds DEF Send, Label
  <1>11. ASSUME NEW p \in Proc, NEW label \in {"bind", "adopt"}, NEW s \in Session,
                NEW status \in {"active", "inactive"},
                call[p].pc \in HoldsAttempt,
                call' = [call EXCEPT ![p].pc = label, ![p].sess = s,
                                     ![p].view = Only(s, status)]
         PROVE  CallsOK'
    <2> DEFINE c == [call[p] EXCEPT !.pc = label, !.sess = s, !.view = Only(s, status)]
    <2>1. Only(s, status) \in View
      BY DEF Only, NoView, View
    <2>2. c \in Call
      BY <1>a, <2>1 DEF Call, Label
    <2>3. /\ c.pc = label /\ c.sess = s /\ c.att = call[p].att
          /\ c.key = call[p].key /\ c.shape = call[p].shape
      BY <1>a DEF Call
    <2>4. call' = [call EXCEPT ![p] = c]
      BY <1>11
    <2> HIDE DEF c
    <2>5. CallOK(c, att')
      BY <1>a, <1>11, <2>3 DEF CallOK, HoldsAttempt, Evolves
    <2> QED
      BY <2>2, <2>4, <2>5, OneMoves
  <1>12. ASSUME NEW p \in Proc, PostAnswered(p) PROVE CallsOK'
    BY <1>11, <1>12 DEF PostAnswered, At, HoldsAttempt
  <1>13. ASSUME NEW p \in Proc, PostRejected(p) \/ PostUncertain(p) PROVE CallsOK'
    <2>1. \A label \in {"rejected", "uncertain"} :
            CallOK([call[p] EXCEPT !.pc = label], att)
      BY <1>a, <1>13, Relabel DEF PostRejected, PostUncertain, At, CallOK, HoldsAttempt, Label
    <2> QED
      BY <1>13, <2>1, CallGoes DEF PostRejected, PostUncertain, Label
  <1>14. ASSUME NEW p \in Proc, MarkReconciling(p) PROVE CallsOK'
    <2>1. CallOK([call[p] EXCEPT !.pc = "recon"], att)
      BY <1>a, <1>14, Relabel DEF MarkReconciling, At, CallOK, HoldsAttempt, Label
    <2> QED
      BY <1>14, <2>1, CallGoes DEF MarkReconciling, Label
  <1>15. ASSUME NEW p \in Proc, Bind(p) PROVE CallsOK'
    <2>1. CallOK([call[p] EXCEPT !.pc = "rememberOne"], att)
      BY <1>a, <1>15, Relabel DEF Bind, At, CallOK, HoldsAttempt, Label
    <2> QED
      BY <1>15, <2>1, CallGoes, CallEnds DEF Bind, Label
  <1>16. ASSUME NEW p \in Proc,
                \/ RememberOne(p) \/ MarkRejected(p) \/ MarkIndeterminate(p) \/ Crash(p)
         PROVE  CallsOK'
    BY <1>16, CallEnds DEF RememberOne, MarkRejected, MarkIndeterminate, Crash
  <1>17. ASSUME NEW p \in Proc, ReadAttempt(p) PROVE CallsOK'
    <2>1. CASE call' = [call EXCEPT ![p].pc = "scan", ![p].tries = Scans]
      <3> DEFINE c == [call[p] EXCEPT !.pc = "scan", !.tries = Scans]
      <3>0. Scans \in 0 .. Scans
        BY ScanAssumption
      <3>1. c \in Call
        BY <1>a, <3>0 DEF Call, Label
      <3>2. /\ c.pc = "scan" /\ c.tries = Scans /\ c.att = call[p].att
            /\ c.key = call[p].key /\ c.shape = call[p].shape
        BY <1>a DEF Call
      <3>3. call' = [call EXCEPT ![p] = c]
        BY <2>1
      <3> HIDE DEF c
      <3>4. CallOK(c, att')
        BY <1>a, <1>17, <3>2, ScanAssumption
        DEF ReadAttempt, At, CallOK, HoldsAttempt, Evolves
      <3> QED
        BY <3>1, <3>3, <3>4, OneMoves
    <2> QED
      BY <1>17, <2>1, CallEnds DEF ReadAttempt
  <1>18. ASSUME NEW p \in Proc, Scan(p) PROVE CallsOK'
    <2>1. call[p].tries \in 1 .. Scans /\ call[p].pc = "scan"
      BY <1>a, <1>18 DEF Scan, At, CallOK
    <2>2. ASSUME NEW s \in Session, Candidates(call[p].att) = {s},
                 call' = [call EXCEPT ![p].pc = "adopt", ![p].sess = s,
                                      ![p].view = Only(s, remote[s].status)]
          PROVE  CallsOK'
      <3>1. remote[s].status \in {"active", "inactive"}
        BY <2>2 DEF Candidates, Visible
      <3> QED
        BY <1>11, <2>1, <2>2, <3>1 DEF HoldsAttempt
    <2>3. CASE Goto(p, "multiple")
      <3>1. CallOK([call[p] EXCEPT !.pc = "multiple"], att)
        BY <1>a, <2>1, Relabel DEF CallOK, HoldsAttempt, Label
      <3> QED
        BY <2>3, <3>1, CallGoes DEF Label
    <2>4. CASE NextRound(p)
      <3> DEFINE label == IF call[p].tries = 1 THEN "none" ELSE "scan"
                 left == call[p].tries - 1
                 c == [call[p] EXCEPT !.tries = left, !.pc = label]
      <3>0. /\ left \in 0 .. Scans /\ label \in {"none", "scan"}
            /\ label = "scan" => left \in 1 .. Scans
        BY <2>1, ScanAssumption
      <3>b. call' = [call EXCEPT ![p] = c]
        BY <2>4 DEF NextRound
      <3> HIDE DEF left, label
      <3>1. /\ c \in Call /\ c.pc = label /\ c.tries = left
            /\ c.att = call[p].att /\ c.key = call[p].key /\ c.shape = call[p].shape
        BY <1>a, <3>0 DEF Call, Label
      <3> HIDE DEF c
      <3>2. CallOK(c, att')
        BY <1>a, <2>1, <3>0, <3>1 DEF CallOK, HoldsAttempt, Evolves
      <3> QED
        BY <3>1, <3>b, <3>2, OneMoves
    <2> QED
      BY <1>18, <2>2, <2>3, <2>4, CallEnds DEF Scan
  <1>19. ASSUME UNCHANGED call PROVE CallsOK'
    BY <1>19, NoneMoves
  <1> HIDE DEF IndInv
  <1>20. ASSUME NEW p \in Proc, Step(p) PROVE CallsOK'
    BY <1>20, <1>4, <1>5, <1>6b, <1>7, <1>8a, <1>8b, <1>9, <1>10, <1>12, <1>13, <1>14,
       <1>15, <1>16,
       <1>17, <1>18 DEF Step
  <1>21. ASSUME \/ \E value \in BOOLEAN : Fence(value)
                \/ \E a \in Attempt : TimePasses(a) \/ CreateLate(a)
                \/ \E s \in Session : CreateForeign(s) \/ SessionMoves(s)
         PROVE  CallsOK'
    BY <1>19, <1>21 DEF Fence, TimePasses, CreateLate, CreateForeign, SessionMoves
  <1> QED
    BY <1>1, <1>2, <1>3, <1>16, <1>20, <1>21 DEF Next

-----------------------------------------------------------------------------
LEMMA RemoteStep ==
  ASSUME IndInv, Next
  PROVE  RemoteOK'
  <1> USE DEF IndInv
  <1>1. ASSUME NEW a, Known(a), NEW s \in Session, Create(s, a)
        PROVE  remote' \in [Session -> RemoteSession]
    <2>1. att[a].shape \in Shape \cup {None}
      BY <1>1 DEF Known, LedgerInv, LedgerTypeOK, AttemptRow
    <2> DEFINE row == [status |-> "active", shape |-> att[a].shape, creator |-> a]
    <2>2. row \in RemoteSession
      BY <1>1, <2>1 DEF RemoteSession, Known
    <2>3. remote' = [remote EXCEPT ![s] = row]
      BY <1>1 DEF Create
    <2> HIDE DEF row
    <2> QED
      BY <2>2, <2>3 DEF RemoteOK
  <1>2. ASSUME NEW a, Known(a), Transmit(a)
        PROVE  posts' \in [Key -> Nat]
    BY <1>2 DEF Transmit, RemoteOK, Known, LedgerInv, WorkMirrorsAttempt
  <1>3. ASSUME NEW p \in Proc, PostAnswered(p) \/ PostRejected(p) \/ PostUncertain(p)
        PROVE  RemoteOK'
    <2>1. Known(call[p].att)
      BY <1>3
      DEF PostAnswered, PostRejected, PostUncertain, At, CallsOK, CallOK, HoldsAttempt, Known
    <2>2. posts' \in [Key -> Nat]
      BY <1>2, <1>3, <2>1 DEF PostAnswered, PostRejected, PostUncertain
    <2>3. remote' \in [Session -> RemoteSession]
      BY <1>1, <1>3, <2>1 DEF PostAnswered, PostRejected, PostUncertain, RemoteOK
    <2>4. pending' \subseteq Attempt
      BY <1>3, <2>1 DEF PostAnswered, PostRejected, PostUncertain, RemoteOK, Known
    <2> QED
      BY <2>2, <2>3, <2>4 DEF RemoteOK
  <1>4. ASSUME NEW a \in Attempt, a \in pending, NEW s \in Session, Create(s, a)
        PROVE  remote' \in [Session -> RemoteSession]
    <2>1. att[a].shape \in Shape \cup {None}
      BY DEF LedgerInv, LedgerTypeOK, AttemptRow
    <2> DEFINE row == [status |-> "active", shape |-> att[a].shape, creator |-> a]
    <2>2. row \in RemoteSession
      BY <2>1 DEF RemoteSession
    <2>3. remote' = [remote EXCEPT ![s] = row]
      BY <1>4 DEF Create
    <2> HIDE DEF row
    <2> QED
      BY <2>2, <2>3 DEF RemoteOK
  <1>5. ASSUME NEW a \in Attempt, CreateLate(a) PROVE RemoteOK'
    BY <1>4, <1>5 DEF CreateLate, RemoteOK
  <1>6. ASSUME NEW s \in Session, CreateForeign(s) PROVE RemoteOK'
    <2>1. PICK sh \in ForeignShapes :
            remote' = [remote EXCEPT ![s] = [status |-> "active", shape |-> sh,
                                             creator |-> None]]
      BY <1>6 DEF CreateForeign
    <2> DEFINE row == [status |-> "active", shape |-> sh, creator |-> None]
    <2>2. row \in RemoteSession
      BY ForeignAssumption DEF RemoteSession
    <2>3. remote' \in [Session -> RemoteSession]
      BY <2>1, <2>2 DEF RemoteOK
    <2> QED
      BY <1>6, <2>3 DEF CreateForeign, RemoteOK
  <1>7. ASSUME NEW s \in Session, SessionMoves(s) PROVE RemoteOK'
    <2>1. PICK status \in {"active", "inactive", "gone"} :
            remote' = [remote EXCEPT ![s].status = status]
      BY <1>7 DEF SessionMoves
    <2> DEFINE row == [remote[s] EXCEPT !.status = status]
    <2>2. row \in RemoteSession
      BY DEF RemoteOK, RemoteSession
    <2>3. remote' = [remote EXCEPT ![s] = row]
      BY <2>1
    <2> HIDE DEF row
    <2>4. remote' \in [Session -> RemoteSession]
      BY <2>2, <2>3 DEF RemoteOK
    <2> QED
      BY <1>7, <2>4 DEF SessionMoves, RemoteOK
  <1>8. ASSUME UNCHANGED remoteVars PROVE RemoteOK'
    BY <1>8 DEF remoteVars, RemoteOK
  <1>9. ASSUME NEW p \in Proc,
               \/ StartDispatch(p) \/ StartList(p) \/ StartReconcile(p)
               \/ EndListing(p) \/ Retire(p) \/ AdoptCommand(p) \/ Lookup(p)
               \/ Route(p) \/ ListRemote(p) \/ RememberListed(p) \/ Snapshot(p)
               \/ Reserve(p) \/ Send(p) \/ MarkRejected(p) \/ MarkReconciling(p)
               \/ Bind(p) \/ RememberOne(p) \/ ReadAttempt(p) \/ Scan(p)
               \/ MarkIndeterminate(p) \/ Crash(p)
        PROVE  UNCHANGED remoteVars
    BY <1>9
    DEF StartDispatch, StartList, StartReconcile, EndListing, Retire, AfterSnapshot,
          AdoptCommand, Lookup, Route, ListRemote, RememberListed,
        Snapshot, Reserve, Send, MarkRejected, MarkReconciling, Bind, RememberOne,
        ReadAttempt, Scan, MarkIndeterminate, Crash
  <1>10. ASSUME \/ \E value \in BOOLEAN : Fence(value)
                \/ \E a \in Attempt : TimePasses(a)
         PROVE  UNCHANGED remoteVars
    BY <1>10 DEF Fence, TimePasses
  <1> HIDE DEF IndInv
  <1> QED
    BY <1>3, <1>5, <1>6, <1>7, <1>8, <1>9, <1>10 DEF Next, Step

-----------------------------------------------------------------------------
(* Steps that neither commit begin_send nor transmit: no process arrives at *)
(* the POST and no attempt becomes transmitted.                             *)
LEMMA QuietPosts ==
  ASSUME IndInv, Evolves, UNCHANGED posts,
         \A a \in Attempt : Transmitted(a)' => Transmitted(a),
         \A a \in Attempt : att[a].state = "ABSENT" /\ att'[a].state # "ABSENT"
                               => posts[att'[a].key] = 0,
         \A p \in Proc : At(p, "post")' => At(p, "post") /\ UNCHANGED (call[p].att)
  PROVE  PostsOK'
  <1>1. \A p \in Proc : At(p, "post") => Known(call[p].att)
    BY DEF IndInv, CallsOK, CallOK, HoldsAttempt, At, Known
  <1>2. \A k \in Key : posts'[k] \in {0, 1} /\ (~HasWork(k)' => posts'[k] = 0)
    BY DEF IndInv, PostsOK, Evolves
  <1>3. \A a \in Attempt : (att[a].state # "ABSENT" /\ ~Transmitted(a)
                              => posts[att[a].key] = 0)'
    BY DEF IndInv, PostsOK, Evolves
  <1>4. \A p \in Proc : (At(p, "post") =>
          Transmitted(call[p].att) /\ posts[att[call[p].att].key] = 0)'
    BY <1>1 DEF IndInv, PostsOK, Evolves, Known
  <1>5. \A p, q \in Proc : (At(p, "post") /\ At(q, "post")
                               /\ call[p].att = call[q].att => p = q)'
    BY DEF IndInv, PostsOK
  <1> QED
    BY <1>2, <1>3, <1>4, <1>5 DEF PostsOK

(* Only begin_send brings a process to the POST.                            *)
NoArrival ==
    \A q \in Proc : At(q, "post")' => At(q, "post") /\ UNCHANGED (call[q].att)

LEMMA ArrivalOnlyBySend ==
  ASSUME IndInv, NEW p \in Proc,
         \/ StartDispatch(p) \/ StartList(p) \/ StartReconcile(p)
               \/ EndListing(p) \/ Retire(p) \/ AdoptCommand(p) \/ Lookup(p) \/ Route(p)
         \/ ListRemote(p) \/ RememberListed(p) \/ Snapshot(p) \/ Reserve(p)
         \/ PostAnswered(p) \/ PostRejected(p) \/ PostUncertain(p)
         \/ MarkRejected(p) \/ MarkReconciling(p) \/ Bind(p) \/ RememberOne(p)
         \/ ReadAttempt(p) \/ Scan(p) \/ MarkIndeterminate(p) \/ Crash(p)
  PROVE  ~At(p, "post")' /\ NoArrival
  <1>1. call \in [Proc -> Call] /\ call[p] \in Call
    BY DEF IndInv, CallsOK
  <1>2. ~At(p, "post")' /\ \A q \in Proc \ {p} : call'[q] = call[q]
    <2>1. CASE StartDispatch(p)
      BY <1>1, <2>1 DEF StartDispatch, At, Goto, End, Idle, NewCall, Call
    <2>2. CASE StartList(p)
      BY <1>1, <2>2 DEF StartList, At, Goto, End, Idle, NewCall, Call
    <2>3. CASE AdoptCommand(p)
      BY <1>1, <2>3 DEF AdoptCommand, At, Goto, End, Idle, NewCall, Call
    <2>4. CASE Lookup(p)
      BY <1>1, <2>4 DEF Lookup, At, Goto, End, Idle, NewCall, Call
    <2>5. CASE Route(p)
      BY <1>1, <2>5 DEF Route, At, Goto, End, Idle, NewCall, Call
    <2>6. CASE ListRemote(p)
      BY <1>1, <2>6 DEF ListRemote, At, Goto, End, Idle, NewCall, Call
    <2>7. CASE RememberListed(p)
      BY <1>1, <2>7 DEF RememberListed, At, Goto, End, Idle, NewCall, Call
    <2>8. CASE Snapshot(p)
      <3>1. CASE AfterSnapshot(p)
        BY <1>1, <3>1 DEF AfterSnapshot, At, End, Idle, NewCall, Call
      <3> QED
        BY <1>1, <2>8, <3>1 DEF Snapshot, At, Call
    <2>9. CASE Reserve(p)
      <3>1. CASE End(p)
        BY <1>1, <3>1 DEF At, End, Idle, NewCall
      <3>2. ASSUME NEW label \in {"recon", "send"}, NEW a,
                   call' = [call EXCEPT ![p].pc = label, ![p].att = a, ![p].view = NoView]
            PROVE  ~At(p, "post")' /\ \A q \in Proc \ {p} : call'[q] = call[q]
        <4> DEFINE c == [call[p] EXCEPT !.pc = label, !.att = a, !.view = NoView]
        <4>1. c.pc = label
          BY <1>1 DEF Call
        <4>2. call' = [call EXCEPT ![p] = c]
          BY <3>2
        <4> HIDE DEF c
        <4> QED
          BY <1>1, <4>1, <4>2 DEF At
      <3> QED
        BY <2>9, <3>1, <3>2 DEF Reserve
    <2>10. CASE PostAnswered(p)
      <3>1. ASSUME NEW s \in Session, NEW view,
                   call' = [call EXCEPT ![p].pc = "bind", ![p].sess = s, ![p].view = view]
            PROVE  ~At(p, "post")' /\ \A q \in Proc \ {p} : call'[q] = call[q]
        <4> DEFINE c == [call[p] EXCEPT !.pc = "bind", !.sess = s, !.view = view]
        <4>1. c.pc = "bind"
          BY <1>1 DEF Call
        <4>2. call' = [call EXCEPT ![p] = c]
          BY <3>1
        <4> HIDE DEF c
        <4> QED
          BY <1>1, <4>1, <4>2 DEF At
      <3> QED
        BY <2>10, <3>1 DEF PostAnswered
    <2>11. CASE PostRejected(p)
      BY <1>1, <2>11 DEF PostRejected, At, Goto, End, Idle, NewCall, Call
    <2>12. CASE PostUncertain(p)
      BY <1>1, <2>12 DEF PostUncertain, At, Goto, End, Idle, NewCall, Call
    <2>13. CASE MarkRejected(p)
      BY <1>1, <2>13 DEF MarkRejected, At, Goto, End, Idle, NewCall, Call
    <2>14. CASE MarkReconciling(p)
      BY <1>1, <2>14 DEF MarkReconciling, At, Goto, End, Idle, NewCall, Call
    <2>15. CASE Bind(p)
      BY <1>1, <2>15 DEF Bind, At, Goto, End, Idle, NewCall, Call
    <2>16. CASE RememberOne(p)
      BY <1>1, <2>16 DEF RememberOne, At, Goto, End, Idle, NewCall, Call
    <2>17. CASE ReadAttempt(p)
      BY <1>1, <2>17 DEF ReadAttempt, At, Goto, End, Idle, NewCall, Call
    <2>18. CASE Scan(p)
      <3>1. CASE End(p) \/ Goto(p, "multiple")
        BY <1>1, <3>1 DEF At, End, Goto, Idle, NewCall, Call
      <3>2. CASE NextRound(p)
        BY <1>1, <3>2 DEF NextRound, At, Call
      <3>3. ASSUME NEW s \in Session, NEW view,
                   call' = [call EXCEPT ![p].pc = "adopt", ![p].sess = s, ![p].view = view]
            PROVE  ~At(p, "post")' /\ \A q \in Proc \ {p} : call'[q] = call[q]
        <4> DEFINE c == [call[p] EXCEPT !.pc = "adopt", !.sess = s, !.view = view]
        <4>1. c.pc = "adopt"
          BY <1>1 DEF Call
        <4>2. call' = [call EXCEPT ![p] = c]
          BY <3>3
        <4> HIDE DEF c
        <4> QED
          BY <1>1, <4>1, <4>2 DEF At
      <3> QED
        BY <2>18, <3>1, <3>2, <3>3 DEF Scan
    <2>19. CASE MarkIndeterminate(p)
      BY <1>1, <2>19 DEF MarkIndeterminate, At, Goto, End, Idle, NewCall, Call
    <2>20. CASE Crash(p)
      BY <1>1, <2>20 DEF Crash, At, Goto, End, Idle, NewCall, Call
    <2>21. CASE StartReconcile(p) \/ EndListing(p)
      BY <1>1, <2>21 DEF StartReconcile, EndListing, At, Goto, End, Idle, NewCall, Call
    <2>22. CASE Retire(p)
      <3>1. CASE End(p)
        BY <1>1, <3>1 DEF At, End, Idle, NewCall
      <3>2. ASSUME NEW label \in {"rememberRest", "reserve"}, NEW todo,
                   call' = [call EXCEPT ![p].pc = label, ![p].todo = todo]
            PROVE  ~At(p, "post")' /\ \A q \in Proc \ {p} : call'[q] = call[q]
        BY <1>1, <3>2 DEF At, Call
      <3> QED
        BY <2>22, <3>1, <3>2 DEF Retire, AfterSnapshot
    <2> QED
      BY <2>1, <2>2, <2>3, <2>4, <2>5, <2>6, <2>7, <2>8, <2>9, <2>10, <2>11,
         <2>12, <2>13, <2>14, <2>15, <2>16, <2>17, <2>18, <2>19, <2>20, <2>21, <2>22
  <1> QED
    BY <1>2 DEF NoArrival, At

(* The tables, in every step but begin_send: nothing becomes transmitted,   *)
(* and an attempt enters the table under a key that never sent.             *)
Untransmitted ==
    /\ \A a \in Attempt : Transmitted(a)' => Transmitted(a)
    /\ \A a \in Attempt : att[a].state = "ABSENT" /\ att'[a].state # "ABSENT"
                            => posts[att'[a].key] = 0

LEMMA UntransmittedSteps ==
  ASSUME IndInv
  PROVE  /\ \A p \in Proc : Reserve(p) => Untransmitted
         /\ \A p \in Proc : MarkRejected(p) \/ MarkReconciling(p) \/ MarkIndeterminate(p)
                              => Untransmitted
         /\ \A p \in Proc : Bind(p) => Untransmitted
         /\ \A value \in BOOLEAN : Fence(value) => Untransmitted
         /\ \A a \in Attempt : TimePasses(a) => Untransmitted
         /\ UNCHANGED att => Untransmitted
  <1>a. att \in [Attempt -> AttemptRow]
    BY DEF IndInv, LedgerInv, LedgerTypeOK
  <1>1. UNCHANGED att => Untransmitted
    BY DEF Untransmitted, Transmitted
  <1>2. ASSUME NEW p \in Proc, Reserve(p) PROVE Untransmitted
    <2> DEFINE k == call[p].key
               sh == call[p].shape
               base == Seen(call[p].view)
    <2>1. k \in Key
      BY <1>2 DEF Reserve, At, IndInv, CallsOK, CallOK
    <2>2. ASSUME NEW a \in Attempt, ~HasWork(k), InsertReservation(k, sh, a, base)
          PROVE  Untransmitted
      <3> DEFINE row == [key |-> k, shape |-> sh, state |-> "RESERVED",
                         gen |-> generation, baseline |-> base, session |-> None,
                         sent |-> "never", early |-> {}]
      <3>1. att' = [att EXCEPT ![a] = row] /\ row.sent = "never" /\ row.key = k
        BY <2>2 DEF InsertReservation
      <3>2. posts[k] = 0
        BY <2>1, <2>2 DEF IndInv, PostsOK
      <3> HIDE DEF row, k
      <3> QED
        BY <1>a, <3>1, <3>2 DEF Untransmitted, Transmitted
    <2>3. CASE UNCHANGED ledgerVars
      BY <1>1, <2>3 DEF ledgerVars
    <2> QED
      BY <1>2, <2>2, <2>3 DEF Reserve
  <1>3. ASSUME NEW a, Known(a), NEW state, MarkAttemptError(a, state)
        PROVE  Untransmitted
    <2> DEFINE row == [att[a] EXCEPT !.state = state]
    <2>1. att' = [att EXCEPT ![a] = row] /\ row.sent = att[a].sent
      BY <1>a, <1>3 DEF MarkAttemptError, Known, AttemptRow
    <2> HIDE DEF row
    <2> QED
      BY <1>a, <1>3, <2>1 DEF Untransmitted, Transmitted, Known
  <1>4. ASSUME NEW p \in Proc,
               MarkRejected(p) \/ MarkReconciling(p) \/ MarkIndeterminate(p)
        PROVE  Untransmitted
    <2>1. Known(call[p].att)
      BY <1>4
      DEF MarkRejected, MarkReconciling, MarkIndeterminate, At, IndInv, CallsOK, CallOK,
          HoldsAttempt, Known
    <2> QED
      BY <1>3, <1>4, <2>1 DEF MarkRejected, MarkReconciling, MarkIndeterminate
  <1>5. ASSUME NEW p \in Proc, Bind(p) PROVE Untransmitted
    <2> DEFINE a == call[p].att
    <2>1. Known(a)
      BY <1>5 DEF Bind, At, IndInv, CallsOK, CallOK, HoldsAttempt, Known
    <2>2. ASSUME NEW s, NEW state, BindSession(a, s, state) PROVE Untransmitted
      <3> DEFINE row == [att[a] EXCEPT !.state = state, !.session = s]
      <3>1. att' = [att EXCEPT ![a] = row] /\ row.sent = att[a].sent
        BY <1>a, <2>1, <2>2 DEF BindSession, Known, AttemptRow
      <3> HIDE DEF row, a
      <3> QED
        BY <1>a, <2>1, <3>1 DEF Untransmitted, Transmitted, Known
    <2>3. CASE UNCHANGED ledgerVars
      BY <1>1, <2>3 DEF ledgerVars
    <2> QED
      BY <1>5, <2>2, <2>3 DEF Bind
  <1>6. ASSUME NEW value \in BOOLEAN, Fence(value) PROVE Untransmitted
    <2> DEFINE c == {a \in Attempt : value /\ att[a].state = "RESERVED"}
    <2>1. att' = [a \in Attempt |-> IF a \in c
                                   THEN [att[a] EXCEPT !.state = "CANCELLED_LOCAL"]
                                   ELSE att[a]]
      BY <1>6 DEF Fence, SetFrozen
    <2>2. \A a \in c : att[a].state = "RESERVED"
      OBVIOUS
    <2> HIDE DEF c
    <2>3. \A a \in Attempt : att'[a].sent = att[a].sent
      BY <1>a, <2>1 DEF AttemptRow
    <2>4. \A a \in Attempt : att[a].state = "ABSENT" => att'[a] = att[a]
      BY <2>1, <2>2
    <2> QED
      BY <2>3, <2>4 DEF Untransmitted, Transmitted
  <1>7. ASSUME NEW a \in Attempt, TimePasses(a) PROVE Untransmitted
    <2> DEFINE row == [att[a] EXCEPT !.sent = "aged"]
    <2>1. att' = [att EXCEPT ![a] = row] /\ row.state = att[a].state
          /\ att[a].sent = "recent"
      BY <1>a, <1>7 DEF TimePasses, StartAges, AttemptRow
    <2> HIDE DEF row
    <2> QED
      BY <1>a, <2>1 DEF Untransmitted, Transmitted
  <1> QED
    BY <1>1, <1>2, <1>4, <1>5, <1>6, <1>7

LEMMA PostsStep ==
  ASSUME IndInv, Next, Evolves
  PROVE  PostsOK'
  <1>3. ASSUME UNCHANGED posts, Untransmitted, NoArrival PROVE PostsOK'
    BY <1>3, QuietPosts DEF Untransmitted, NoArrival
  <1>1. ASSUME NEW p \in Proc, Send(p) PROVE PostsOK'
    <2> DEFINE a == call[p].att
    <2>0. call \in [Proc -> Call] /\ Known(a) /\ UNCHANGED posts
      BY <1>1 DEF Send, At, IndInv, CallsOK, CallOK, HoldsAttempt, Known, remoteVars
    <2>1. CASE End(p) /\ UNCHANGED ledgerVars
      <3>1. NoArrival
        BY <2>0, <2>1 DEF End, NoArrival, At, Idle, NewCall
      <3> QED
        BY <1>3, <2>0, <2>1, <3>1, UntransmittedSteps DEF ledgerVars
    <2>2. ASSUME NEW early, CanBeginSend(a), BeginSend(a, early), Goto(p, "post")
          PROVE  PostsOK'
      <3>1. ~Transmitted(a) /\ posts[att[a].key] = 0
        BY <2>0, <2>2 DEF CanBeginSend, IndInv, LedgerInv, ReservedIsUnsent, PostsOK, Known
      <3>2. /\ att'[a].sent = "recent"
            /\ \A b \in Attempt \ {a} : att'[b] = att[b]
        <4> DEFINE row == [att[a] EXCEPT !.state = "SEND_STARTED", !.sent = "recent",
                                         !.early = early]
        <4>1. att[a] \in AttemptRow /\ att \in [Attempt -> AttemptRow]
          BY <2>0 DEF Known, IndInv, LedgerInv, LedgerTypeOK
        <4>2. row.sent = "recent"
          BY <4>1 DEF AttemptRow
        <4>3. att' = [att EXCEPT ![a] = row]
          BY <2>2 DEF BeginSend
        <4> HIDE DEF row, a
        <4> QED
          BY <2>0, <4>1, <4>2, <4>3 DEF Transmitted, Known
      <3>3. /\ \A q \in Proc \ {p} : call'[q] = call[q]
            /\ call'[p].att = a
        BY <2>0, <2>2 DEF Goto, Call
      <3>4. \A q \in Proc : At(q, "post") => Known(call[q].att) /\ call[q].att # a
                                            /\ posts[att[call[q].att].key] = 0
        BY <3>1 DEF IndInv, PostsOK, CallsOK, CallOK, HoldsAttempt, At, Known
      <3>5. att'[a].key = att[a].key
        BY <2>0 DEF Evolves, Known
      <3>6. \A k \in Key : posts'[k] \in {0, 1} /\ (~HasWork(k)' => posts'[k] = 0)
        BY <2>0 DEF IndInv, PostsOK, Evolves
      <3> HIDE DEF a
      <3>7. \A b \in Attempt : (att[b].state # "ABSENT" /\ ~Transmitted(b)
                                   => posts[att[b].key] = 0)'
        BY <2>0, <3>2 DEF IndInv, PostsOK, Transmitted
      <3>8. \A q \in Proc : (At(q, "post") =>
              Transmitted(call[q].att) /\ posts[att[call[q].att].key] = 0)'
        <4>1. (Transmitted(call[p].att) /\ posts[att[call[p].att].key] = 0)'
          BY <2>0, <3>1, <3>2, <3>3, <3>5 DEF Transmitted
        <4>2. ASSUME NEW q \in Proc \ {p}, At(q, "post")'
              PROVE  (Transmitted(call[q].att) /\ posts[att[call[q].att].key] = 0)'
          <5>1. At(q, "post") /\ call'[q].att = call[q].att
            BY <3>3, <4>2 DEF At
          <5>2. Transmitted(call[q].att)
            BY <5>1 DEF IndInv, PostsOK
          <5>3. att'[call[q].att] = att[call[q].att]
            BY <3>2, <3>4, <5>1 DEF Known
          <5> QED
            BY <2>0, <3>4, <5>1, <5>2, <5>3 DEF Transmitted
        <4> QED
          BY <4>1, <4>2
      <3>9. \A q, r \in Proc : (At(q, "post") /\ At(r, "post")
                                   /\ call[q].att = call[r].att => q = r)'
        BY <3>3, <3>4 DEF IndInv, PostsOK, At
      <3> QED
        BY <3>6, <3>7, <3>8, <3>9 DEF PostsOK
    <2> QED
      BY <1>1, <2>1, <2>2 DEF Send
  <1>2. ASSUME NEW p \in Proc,
               PostAnswered(p) \/ PostRejected(p) \/ PostUncertain(p)
        PROVE PostsOK'
    <2> DEFINE a == call[p].att
    <2>1. Transmit(a) /\ UNCHANGED <<att, work>> /\ At(p, "post")
      BY <1>2 DEF PostAnswered, PostRejected, PostUncertain, ledgerVars
    <2>2. Known(a) /\ Transmitted(a) /\ posts[att[a].key] = 0
      BY <2>1 DEF At, IndInv, CallsOK, CallOK, HoldsAttempt, Known, PostsOK
    <2>3. att[a].key \in Key /\ HasWork(att[a].key)
      BY <2>2 DEF IndInv, LedgerInv, WorkMirrorsAttempt, Known, HasWork
    <2>4. \A b \in Attempt : Known(b) /\ b # a => att[b].key \in Key /\ att[b].key # att[a].key
      BY <2>2 DEF IndInv, LedgerInv, WorkMirrorsAttempt, Known
    <2>5. posts' = [posts EXCEPT ![att[a].key] = 1]
      BY <2>1, <2>2, <2>3 DEF Transmit, IndInv, RemoteOK
    <2>6. ~At(p, "post")' /\ NoArrival
      BY <1>2, ArrivalOnlyBySend
    <2>7. posts \in [Key -> Nat]
      BY DEF IndInv, RemoteOK
    <2> HIDE DEF a
    <2>8. \A k \in Key : (posts[k] \in {0, 1} /\ (~HasWork(k) => posts[k] = 0))'
      BY <2>1, <2>3, <2>5, <2>7 DEF IndInv, PostsOK, HasWork
    <2>9. \A b \in Attempt : (att[b].state # "ABSENT" /\ ~Transmitted(b)
                                 => posts[att[b].key] = 0)'
      BY <2>1, <2>2, <2>4, <2>5, <2>7 DEF IndInv, PostsOK, Transmitted, Known
    <2>10. \A q \in Proc : (At(q, "post") =>
              Transmitted(call[q].att) /\ posts[att[call[q].att].key] = 0)'
      <3>1. SUFFICES ASSUME NEW q \in Proc, At(q, "post")'
                     PROVE  (Transmitted(call[q].att) /\ posts[att[call[q].att].key] = 0)'
        OBVIOUS
      <3>2. q # p /\ At(q, "post") /\ call'[q].att = call[q].att
        BY <2>6, <3>1 DEF NoArrival
      <3>3. call[q].att # a
        BY <2>1, <3>2 DEF IndInv, PostsOK, a
      <3>4. Known(call[q].att) /\ Transmitted(call[q].att)
            /\ posts[att[call[q].att].key] = 0
        BY <3>2 DEF At, IndInv, CallsOK, CallOK, HoldsAttempt, Known, PostsOK
      <3> QED
        BY <2>1, <2>4, <2>5, <2>7, <3>2, <3>3, <3>4 DEF Transmitted, Known
    <2>11. \A q, r \in Proc : (At(q, "post") /\ At(r, "post")
                                  /\ call[q].att = call[r].att => q = r)'
      BY <2>6 DEF NoArrival, IndInv, PostsOK
    <2> QED
      BY <2>8, <2>9, <2>10, <2>11 DEF PostsOK
  <1>4. ASSUME NEW p \in Proc,
               \/ StartDispatch(p) \/ StartList(p) \/ StartReconcile(p)
               \/ EndListing(p) \/ Retire(p) \/ AdoptCommand(p) \/ Lookup(p)
               \/ Route(p) \/ ListRemote(p) \/ RememberListed(p) \/ Snapshot(p)
               \/ RememberOne(p) \/ ReadAttempt(p) \/ Scan(p) \/ Crash(p)
        PROVE PostsOK'
    <2>1. UNCHANGED posts /\ UNCHANGED att
      BY <1>4
      DEF StartDispatch, StartList, StartReconcile, EndListing, Retire, AfterSnapshot,
          AdoptCommand, Lookup, Route, ListRemote,
          RememberListed, Snapshot, RememberOne, ReadAttempt, Scan, Crash, remoteVars,
          ledgerVars, UpsertSessions, MarkNotVisible
    <2>2. NoArrival
      BY <1>4, ArrivalOnlyBySend
    <2> QED
      BY <1>3, <2>1, <2>2, UntransmittedSteps
  <1>5. ASSUME NEW p \in Proc,
               Reserve(p) \/ MarkRejected(p) \/ MarkReconciling(p)
               \/ MarkIndeterminate(p) \/ Bind(p)
        PROVE PostsOK'
    <2>1. UNCHANGED posts
      BY <1>5 DEF Reserve, MarkRejected, MarkReconciling, MarkIndeterminate, Bind, remoteVars
    <2>2. NoArrival
      BY <1>5, ArrivalOnlyBySend
    <2> QED
      BY <1>3, <1>5, <2>1, <2>2, UntransmittedSteps
  <1>6. ASSUME \/ \E value \in BOOLEAN : Fence(value)
               \/ \E a \in Attempt : TimePasses(a) \/ CreateLate(a)
               \/ \E s \in Session : CreateForeign(s) \/ SessionMoves(s)
        PROVE PostsOK'
    <2>1. UNCHANGED posts /\ UNCHANGED call
      BY <1>6 DEF Fence, TimePasses, CreateLate, CreateForeign, SessionMoves, remoteVars
    <2>2. NoArrival
      BY <2>1 DEF NoArrival, At
    <2>3. Untransmitted
      BY <1>6, UntransmittedSteps DEF CreateLate, CreateForeign, SessionMoves, ledgerVars
    <2> QED
      BY <1>3, <2>1, <2>2, <2>3
  <1> QED
    BY <1>1, <1>2, <1>4, <1>5, <1>6 DEF Next, Step

-----------------------------------------------------------------------------
LEMMA NextInv == IndInv /\ [Next]_vars => IndInv'
  <1>1. ASSUME IndInv, Next PROVE IndInv'
    <2>1. LedgerInv' /\ Evolves
      BY <1>1, LedgerStep
    <2>2. CallsOK'
      BY <1>1, <2>1, CallsStep
    <2>3. RemoteOK'
      BY <1>1, RemoteStep
    <2>4. PostsOK'
      BY <1>1, <2>1, PostsStep
    <2> QED
      BY <2>1, <2>2, <2>3, <2>4 DEF IndInv
  <1>2. ASSUME IndInv, UNCHANGED vars PROVE IndInv'
    <2>1. LedgerInv' /\ Evolves
      BY <1>2, LedgerStutterInv DEF IndInv, vars, ledgerVars
    <2>2. CallsOK'
      BY <1>2, <2>1, NoneMoves DEF IndInv, vars
    <2>3. RemoteOK' /\ PostsOK'
      BY <1>2 DEF IndInv, RemoteOK, PostsOK, vars, At, HasWork, Transmitted
    <2> QED
      BY <2>1, <2>2, <2>3 DEF IndInv
  <1> QED
    BY <1>1, <1>2

(* IndInv holds in every state a run of Dispatch reaches.                   *)
THEOREM Inductive == Spec => []IndInv
  BY InitInv, NextInv, PTL DEF Spec

(* Every variable of the tables, the calls and Jules keeps its type.        *)
THEOREM TypeCorrect == Spec => []TypeOK
  <1>1. IndInv => TypeOK
    BY DEF IndInv, LedgerInv, CallsOK, RemoteOK, TypeOK
  <1> QED
    BY <1>1, Inductive, PTL

(* At most one create request leaves for a key, whatever the processes,     *)
(* crashes and repetitions.                                                 *)
THEOREM AtMostOncePerKey == Spec => []AtMostOnePost
  <1>1. IndInv => AtMostOnePost
    BY DEF IndInv, PostsOK, AtMostOnePost
  <1> QED
    BY <1>1, Inductive, PTL

(* The two tables agree on every attempt.                                   *)
THEOREM TablesAgree == Spec => []WorkMirrorsAttempt
  <1>1. IndInv => WorkMirrorsAttempt
    BY DEF IndInv, LedgerInv
  <1> QED
    BY <1>1, Inductive, PTL

(* A frozen fleet has no attempt left that could be sent.                   *)
THEOREM FreezeIsFence == Spec => []FreezeLeavesNoReservation
  <1>1. IndInv => FreezeLeavesNoReservation
    BY DEF IndInv, LedgerInv
  <1> QED
    BY <1>1, Inductive, PTL

(* No session is bound to two attempts.                                     *)
THEOREM UniqueOwnership == Spec => []SessionOwnedOnce
  <1>1. IndInv => SessionOwnedOnce
    BY DEF IndInv, LedgerInv
  <1> QED
    BY <1>1, Inductive, PTL

(* An open create keeps counting against the occupancy.                     *)
THEOREM OpenCreatesCount == Spec => []OpenCreateIsCounted
  <1>1. IndInv => OpenCreateIsCounted
    BY DEF IndInv, LedgerInv
  <1> QED
    BY <1>1, Inductive, PTL

(* An attempt that is no longer a reservation before its transmission began *)
(* is never transmitted.                                                    *)
THEOREM NeverSentAfterFence == Spec => FencedNeverSent
  <1>1. ASSUME IndInv, IndInv', Next, NEW a \in Attempt,
               att[a].state \notin {"ABSENT", "RESERVED"}, ~Transmitted(a)
        PROVE  att'[a].sent = "never" /\ posts'[att[a].key] = posts[att[a].key]
    <2>0. att \in [Attempt -> AttemptRow] /\ posts \in [Key -> Nat] /\ Known(a)
      BY <1>1 DEF IndInv, LedgerInv, LedgerTypeOK, RemoteOK, Known
    <2>1. ASSUME NEW p \in Proc, Send(p)
          PROVE  Transmitted(a)' => Transmitted(a)
      <3> DEFINE b == call[p].att
      <3>1. CASE UNCHANGED ledgerVars
        BY <3>1 DEF ledgerVars, Transmitted
      <3>2. ASSUME NEW early, CanBeginSend(b), BeginSend(b, early)
            PROVE  Transmitted(a)' => Transmitted(a)
        <4>1. a # b
          BY <1>1, <3>2 DEF CanBeginSend
        <4>2. att'[a] = att[a]
          BY <2>0, <3>2, <4>1 DEF BeginSend
        <4> QED
          BY <4>2 DEF Transmitted
      <3> QED
        BY <2>1, <3>1, <3>2 DEF Send
    <2>2. ASSUME ~(\E p \in Proc : Send(p)) PROVE Untransmitted
      <3>1. ASSUME NEW p \in Proc,
                   \/ StartDispatch(p) \/ StartList(p) \/ StartReconcile(p)
               \/ EndListing(p) \/ Retire(p) \/ AdoptCommand(p) \/ Lookup(p)
                   \/ Route(p) \/ ListRemote(p) \/ RememberListed(p) \/ Snapshot(p)
                   \/ RememberOne(p) \/ ReadAttempt(p) \/ Scan(p) \/ Crash(p)
                   \/ PostAnswered(p) \/ PostRejected(p) \/ PostUncertain(p)
            PROVE  UNCHANGED att
        BY <3>1
        DEF StartDispatch, StartList, StartReconcile, EndListing, Retire, AfterSnapshot,
          AdoptCommand, Lookup, Route, ListRemote,
            RememberListed, Snapshot, RememberOne, ReadAttempt, Scan, Crash, PostAnswered,
            PostRejected, PostUncertain, ledgerVars, UpsertSessions,
            MarkNotVisible
      <3>2. ASSUME \/ \E b \in Attempt : CreateLate(b)
                   \/ \E s \in Session : CreateForeign(s) \/ SessionMoves(s)
            PROVE  UNCHANGED att
        BY <3>2 DEF CreateLate, CreateForeign, SessionMoves, ledgerVars
      <3> QED
        BY <1>1, <2>2, <3>1, <3>2, UntransmittedSteps DEF Next, Step
    <2>3. att'[a].sent = "never"
      BY <1>1, <2>0, <2>1, <2>2 DEF Untransmitted, Transmitted
    <2>4. ASSUME NEW p \in Proc, PostAnswered(p) \/ PostRejected(p) \/ PostUncertain(p)
          PROVE  posts'[att[a].key] = posts[att[a].key]
      <3> DEFINE b == call[p].att
      <3>1. Transmit(b) /\ At(p, "post")
        BY <2>4 DEF PostAnswered, PostRejected, PostUncertain
      <3>2. Known(b) /\ Transmitted(b)
        BY <1>1, <3>1 DEF At, IndInv, CallsOK, CallOK, HoldsAttempt, Known, PostsOK
      <3>3. att[a].key # att[b].key
        BY <1>1, <2>0, <3>2 DEF IndInv, LedgerInv, WorkMirrorsAttempt, Known
      <3> QED
        BY <2>0, <3>1, <3>3 DEF Transmit
    <2>5. ASSUME ~(\E p \in Proc : PostAnswered(p) \/ PostRejected(p) \/ PostUncertain(p))
          PROVE  UNCHANGED posts
      <3>1. ASSUME NEW p \in Proc,
               \/ StartDispatch(p) \/ StartList(p) \/ StartReconcile(p)
               \/ EndListing(p) \/ Retire(p) \/ AdoptCommand(p) \/ Lookup(p)
               \/ Route(p) \/ ListRemote(p) \/ RememberListed(p) \/ Snapshot(p)
               \/ Reserve(p) \/ Send(p) \/ MarkRejected(p) \/ MarkReconciling(p)
               \/ Bind(p) \/ RememberOne(p) \/ ReadAttempt(p) \/ Scan(p)
               \/ MarkIndeterminate(p) \/ Crash(p)
            PROVE  UNCHANGED posts
        BY <3>1
        DEF StartDispatch, StartList, StartReconcile, EndListing, Retire, AfterSnapshot,
          AdoptCommand, Lookup, Route, ListRemote,
            RememberListed, Snapshot, Reserve, Send, MarkRejected, MarkReconciling, Bind,
            RememberOne, ReadAttempt, Scan, MarkIndeterminate, Crash, remoteVars
      <3>2. ASSUME \/ \E value \in BOOLEAN : Fence(value)
                   \/ \E b \in Attempt : TimePasses(b) \/ CreateLate(b)
                   \/ \E s \in Session : CreateForeign(s) \/ SessionMoves(s)
            PROVE  UNCHANGED posts
        BY <3>2 DEF Fence, TimePasses, CreateLate, CreateForeign, SessionMoves, remoteVars
      <3> QED
        BY <1>1, <2>5, <3>1, <3>2 DEF Next, Step
    <2> QED
      BY <2>3, <2>4, <2>5
  <1>2. ASSUME IndInv, IndInv', [Next]_vars
        PROVE  [\A a \in Attempt :
                  att[a].state \notin {"ABSENT", "RESERVED"} /\ ~Transmitted(a)
                    => att'[a].sent = "never"
                       /\ posts'[att[a].key] = posts[att[a].key]]_vars
    BY <1>1, <1>2
  <1> QED
    BY <1>2, Inductive, PTL DEF Spec, FencedNeverSent

-----------------------------------------------------------------------------
(* A call runs down: its labels are passed in one direction, the sessions   *)
(* of a listing are remembered one by one, and the rounds of a              *)
(* reconciliation are counted.                                              *)
Stage(label) ==
    CASE label = "idle" -> 0
      [] label = "rememberOne" -> 1
      [] label \in {"rejected", "bind", "adopt", "none", "multiple"} -> 2
      [] label = "scan" -> 3
      [] label = "recon" -> 4
      [] label = "uncertain" -> 5
      [] label = "post" -> 6
      [] label = "send" -> 7
      [] label \in {"route", "reserve", "rememberRest"} -> 8
      [] label \in {"retire", "retireFirst"} -> 9
      [] label \in {"remember", "select"} -> 10
      [] label \in {"list", "survey"} -> 11
      [] label = "lookup" -> 12

(* A call at c is nearer to its end than one at d.                          *)
Nearer(c, d) ==
    \/ Stage(c.pc) < Stage(d.pc)
    \/ c.pc = d.pc /\ c.tries < d.tries
    \/ c.pc = d.pc /\ c.tries = d.tries /\ c.todo \subseteq d.todo /\ c.todo # d.todo

(* No step of a call is a detour: whatever other processes do to its        *)
(* attempt and its key meanwhile, it never returns to a label it has left   *)
(* and never gets a round back.                                             *)
CallsRunDown ==
    [][\A p \in Proc :
         At(p, "idle") \/ call'[p] = call[p] \/ Nearer(call'[p], call[p])]_vars

(* Where the steps of a call lead.                                          *)
LEMMA MovesOn ==
  ASSUME IndInv, NEW p \in Proc, Step(p) \/ Crash(p), ~RememberListed(p),
         ~At(p, "idle")
  PROVE  LET c == call'[p] IN
         \/ Stage(c.pc) < Stage(call[p].pc)
         \/ c.pc = call[p].pc /\ c.tries < call[p].tries
  <1>a. call \in [Proc -> Call] /\ call[p] \in Call /\ CallOK(call[p], att)
    BY DEF IndInv, CallsOK
  <1>b. \A label : Goto(p, label) => call'[p].pc = label
    BY <1>a DEF Goto, Call
  <1>c. End(p) => call'[p].pc = "idle"
    BY <1>a DEF End, Idle, NewCall
  <1>1. ASSUME End(p) PROVE Stage(call'[p].pc) < Stage(call[p].pc)
    BY <1>a, <1>c, <1>1 DEF Stage, Call, Label, At
  <1>2. ASSUME Lookup(p), ~End(p)
        PROVE  call[p].pc = "lookup" /\ call'[p].pc \in {"list", "route"}
    <2>1. \/ Goto(p, "list")
          \/ call' = [call EXCEPT ![p].pc = "route",
                                  ![p].att = work[call[p].key].attempt]
      BY <1>2 DEF Lookup
    <2> QED
      BY <1>a, <1>b, <1>2, <2>1 DEF Lookup, At, Call
  <1>3. ASSUME Route(p), ~End(p)
        PROVE  call[p].pc = "route" /\ call'[p].pc \in {"send", "recon"}
    BY <1>b, <1>3 DEF Route, At
  <1>4. ASSUME ListRemote(p), ~End(p)
        PROVE  call[p].pc \in {"list", "survey"} /\ call'[p].pc \in {"remember", "select"}
    BY <1>a, <1>4 DEF ListRemote, At, Call
  <1>5. ASSUME AfterSnapshot(p), ~End(p)
        PROVE  call'[p].pc \in {"reserve", "rememberRest"}
    BY <1>a, <1>5 DEF AfterSnapshot, Call
  <1>6. ASSUME Snapshot(p), ~End(p)
        PROVE  /\ call[p].pc \in {"remember", "select"}
               /\ call'[p].pc \in {"retire", "retireFirst", "reserve", "rememberRest"}
    <2>1. \/ AfterSnapshot(p)
          \/ call' = [call EXCEPT
                         ![p].pc = IF At(p, "select") THEN "retireFirst" ELSE "retire",
                         ![p].todo = MissingFrom(Seen(call[p].view))]
      BY <1>6 DEF Snapshot
    <2> QED
      BY <1>a, <1>5, <1>6, <2>1 DEF Snapshot, At, Call
  <1>7. ASSUME Retire(p), ~End(p)
        PROVE  /\ call[p].pc \in {"retire", "retireFirst"}
               /\ call'[p].pc \in {"reserve", "rememberRest"}
    BY <1>5, <1>7 DEF Retire, At
  <1>8. ASSUME Reserve(p), ~End(p)
        PROVE  call[p].pc = "reserve" /\ call'[p].pc \in {"recon", "send"}
    <2>1. call[p].pc = "reserve"
      BY <1>8 DEF Reserve, At
    <2>2. \E label \in {"recon", "send"} : \E a :
            call' = [call EXCEPT ![p].pc = label, ![p].att = a, ![p].view = NoView]
      BY <1>8 DEF Reserve
    <2>3. \A label : \A a :
            call' = [call EXCEPT ![p].pc = label, ![p].att = a, ![p].view = NoView]
              => call'[p].pc = label
      BY <1>a DEF Call
    <2> QED
      BY <2>1, <2>2, <2>3
  <1>9. ASSUME Send(p), ~End(p)
        PROVE  call[p].pc = "send" /\ call'[p].pc = "post"
    BY <1>b, <1>9 DEF Send, At
  <1>10. ASSUME PostAnswered(p) \/ PostRejected(p) \/ PostUncertain(p)
         PROVE  call[p].pc = "post" /\ call'[p].pc \in {"bind", "rejected", "uncertain"}
    BY <1>a, <1>b, <1>10 DEF PostAnswered, PostRejected, PostUncertain, At, Call
  <1>11. ASSUME MarkReconciling(p)
         PROVE  call[p].pc = "uncertain" /\ call'[p].pc = "recon"
    BY <1>b, <1>11 DEF MarkReconciling, At
  <1>12. ASSUME Bind(p), ~End(p)
         PROVE  call[p].pc \in {"bind", "adopt"} /\ call'[p].pc = "rememberOne"
    BY <1>b, <1>12 DEF Bind, At
  <1>13. ASSUME ReadAttempt(p), ~End(p)
         PROVE  call[p].pc = "recon" /\ call'[p].pc = "scan"
    BY <1>a, <1>13 DEF ReadAttempt, At, Call
  <1>14. ASSUME Scan(p), ~End(p)
         PROVE  /\ call[p].pc = "scan"
                /\ \/ call'[p].pc \in {"adopt", "multiple", "none"}
                   \/ call'[p].pc = "scan" /\ call'[p].tries < call[p].tries
    <2>1. call[p].pc = "scan" /\ call[p].tries \in 0 .. Scans
      BY <1>a, <1>14 DEF Scan, At, Call
    <2>2. ASSUME NextRound(p)
          PROVE  \/ call'[p].pc = "none"
                 \/ call'[p].pc = "scan" /\ call'[p].tries < call[p].tries
      BY <1>a, <2>1, <2>2, ScanAssumption DEF NextRound, Call
    <2>3. ASSUME NEW s \in Session,
                 call' = [call EXCEPT ![p].pc = "adopt", ![p].sess = s,
                                      ![p].view = Only(s, remote[s].status)]
          PROVE  call'[p].pc = "adopt"
      BY <1>a, <2>3 DEF Call
    <2> QED
      BY <1>b, <1>14, <2>1, <2>2, <2>3 DEF Scan
  <1>15. ASSUME EndListing(p) \/ MarkRejected(p) \/ RememberOne(p) \/ MarkIndeterminate(p)
                \/ Crash(p)
         PROVE  End(p)
    BY <1>15 DEF EndListing, MarkRejected, RememberOne, MarkIndeterminate, Crash
  <1>16. CASE End(p)
    BY <1>1, <1>16
  <1>17. CASE ~End(p)
    <2>1. \/ Stage(call'[p].pc) < Stage(call[p].pc)
          \/ call'[p].pc = call[p].pc /\ call'[p].tries < call[p].tries
      BY <1>2, <1>3, <1>4, <1>6, <1>7, <1>8, <1>9, <1>10, <1>11, <1>12, <1>13, <1>14,
         <1>15, <1>17
      DEF Step, Stage
    <2> QED
      BY <2>1
  <1> QED
    BY <1>16, <1>17

LEMMA CallAdvances ==
  ASSUME IndInv, NEW p \in Proc, Step(p) \/ Crash(p), ~At(p, "idle")
  PROVE  Nearer(call'[p], call[p])
  <1>1. ASSUME RememberListed(p) PROVE Nearer(call'[p], call[p])
    <2>1. PICK s \in call[p].todo : call' = [call EXCEPT ![p].todo = @ \ {s}]
      BY <1>1 DEF RememberListed
    <2>2. /\ call'[p].pc = call[p].pc /\ call'[p].tries = call[p].tries
          /\ call'[p].todo = call[p].todo \ {s}
      BY <2>1 DEF IndInv, CallsOK, Call
    <2> QED
      BY <2>2 DEF Nearer
  <1> QED
    BY <1>1, MovesOn DEF Nearer

LEMMA OthersStay ==
  ASSUME IndInv, NEW p \in Proc, NEW q \in Proc \ {p},
         \/ StartDispatch(q) \/ StartList(q) \/ StartReconcile(q) \/ AdoptCommand(q)
         \/ Step(q) \/ Crash(q)
  PROVE  call'[p] = call[p]
  BY DEF IndInv, CallsOK, StartDispatch, StartList, StartReconcile, AdoptCommand, Step,
         Crash, Lookup, Route, ListRemote, RememberListed, Snapshot, AfterSnapshot, Retire,
         EndListing, Reserve, Send, PostAnswered, PostRejected, PostUncertain,
         MarkRejected, MarkReconciling, Bind, RememberOne, ReadAttempt, Scan, NextRound,
         MarkIndeterminate, Goto, End

(* What the end of every call rests on (TLC checks that it comes).          *)
THEOREM EveryCallRunsDown == Spec => CallsRunDown
  <1>1. IndInv /\ [Next]_vars
          => \A p \in Proc :
               At(p, "idle") \/ call'[p] = call[p] \/ Nearer(call'[p], call[p])
    <2> SUFFICES ASSUME IndInv, [Next]_vars, NEW p \in Proc, ~At(p, "idle")
                 PROVE  call'[p] = call[p] \/ Nearer(call'[p], call[p])
      OBVIOUS
    <2>1. ~(StartDispatch(p) \/ StartList(p) \/ StartReconcile(p) \/ AdoptCommand(p))
      BY DEF StartDispatch, StartList, StartReconcile, AdoptCommand
    <2>2. ASSUME UNCHANGED call PROVE call'[p] = call[p]
      BY <2>2
    <2>3. ASSUME \/ UNCHANGED vars \/ \E value \in BOOLEAN : Fence(value)
                 \/ \E a \in Attempt : TimePasses(a) \/ CreateLate(a)
                 \/ \E s \in Session : CreateForeign(s) \/ SessionMoves(s)
          PROVE  UNCHANGED call
      BY <2>3 DEF vars, Fence, TimePasses, CreateLate, CreateForeign, SessionMoves
    <2> QED
      BY <2>1, <2>2, <2>3, CallAdvances, OthersStay DEF Next
  <1> QED
    BY <1>1, Inductive, PTL DEF Spec, CallsRunDown

-----------------------------------------------------------------------------
(* What it takes to revive a rejected attempt (the run dispatch_rejection): *)
(* a second process, or an operator who adopts.  A sole process decides     *)
(* from rows that nobody changes under it.                                  *)
Sole == \A p, q \in Proc : p = q

Listed == {"list", "remember", "retire", "reserve"}
Open == {"post", "rejected", "uncertain", "bind", "adopt", "recon", "scan", "none",
         "multiple"}

(* A call that observes the fleet for its key knows that the key is free;   *)
(* one that works on an attempt, that the attempt was not rejected.         *)
DecidedOK(c, table, book) ==
    /\ c.pc = "idle" => c.key = None
    /\ c.pc \in Listed /\ c.key \in Key => book[c.key].status = "ABSENT"
    /\ c.pc \in Open => table[c.att].state # "DEFINITIVELY_REJECTED"

Decided == \A p \in Proc : DecidedOK(call[p], att, work)

LEMMA DecidedStep ==
  ASSUME "adopt" \notin Events, IndInv, Decided, NEW p \in Proc,
         \/ StartDispatch(p) \/ StartList(p) \/ StartReconcile(p) \/ AdoptCommand(p)
         \/ Step(p) \/ Crash(p)
  PROVE  DecidedOK(call'[p], att', work')
  <1> DEFINE c == call[p]
             Goal == DecidedOK(call'[p], att', work')
  <1>a. /\ call \in [Proc -> Call] /\ c \in Call /\ CallOK(c, att)
        /\ att \in [Attempt -> AttemptRow] /\ \A a \in Attempt : att[a] \in AttemptRow
        /\ DecidedOK(c, att, work)
    BY DEF IndInv, CallsOK, LedgerInv, LedgerTypeOK, Decided
  <1>b. \A label : Goto(p, label) =>
          /\ call'[p].pc = label /\ call'[p].key = c.key /\ call'[p].att = c.att
    BY <1>a DEF Goto, Call
  <1>c. ASSUME End(p) PROVE Goal
    <2>1. call'[p] = Idle
      BY <1>a, <1>c DEF End
    <2> QED
      BY <2>1 DEF DecidedOK, Idle, NewCall, Listed, Open
  <1>d. ASSUME NEW label, label \notin Listed \cup Open \cup {"idle"},
               call'[p].pc = label
        PROVE  Goal
    BY <1>d DEF DecidedOK
  <1>e. ASSUME UNCHANGED ledgerVars, call'[p].key = c.key, c.pc \in Listed,
               call'[p].pc \in Listed
        PROVE  Goal
    BY <1>a, <1>e DEF DecidedOK, ledgerVars, Listed, Open
  <1>f. ASSUME UNCHANGED ledgerVars, call'[p].att = c.att, c.pc \in Open,
               call'[p].pc \in Open
        PROVE  Goal
    BY <1>a, <1>f DEF DecidedOK, ledgerVars, Listed, Open
  <1>1. ASSUME StartDispatch(p) PROVE Goal
    <2>1. call'[p].pc = "lookup"
      BY <1>a, <1>1 DEF StartDispatch, NewCall
    <2> QED
      BY <1>d, <2>1 DEF Listed, Open
  <1>2. ASSUME StartList(p) \/ StartReconcile(p) PROVE Goal
    <2>1. c.key = None
      BY <1>a, <1>2 DEF StartList, StartReconcile, At, DecidedOK
    <2> QED
      BY <1>b, <1>2, <2>1, NullAssumption
      DEF StartList, StartReconcile, DecidedOK, Listed, Open
  <1>3. ASSUME Lookup(p) PROVE Goal
    <2>1. CASE Goto(p, "list") /\ ~HasWork(c.key)
      BY <1>b, <1>3, <2>1 DEF Lookup, ledgerVars, HasWork, DecidedOK, Listed, Open
    <2>2. ASSUME NEW a, call' = [call EXCEPT ![p].pc = "route", ![p].att = a] PROVE Goal
      <3>1. call'[p].pc = "route"
        BY <1>a, <2>2 DEF Call
      <3> QED
        BY <1>d, <3>1 DEF Listed, Open
    <2> HIDE DEF Goal
    <2> QED
      BY <1>c, <1>3, <2>1, <2>2 DEF Lookup
  <1>4. ASSUME Route(p) PROVE Goal
    <2>1. CASE Goto(p, "send")
      BY <1>b, <2>1 DEF DecidedOK, Listed, Open
    <2>2. CASE Goto(p, "recon") /\ att[c.att].state # "DEFINITIVELY_REJECTED"
      BY <1>b, <1>4, <2>2 DEF Route, ledgerVars, DecidedOK, Listed, Open
    <2> HIDE DEF Goal
    <2> QED
      BY <1>c, <1>4, <2>1, <2>2 DEF Route
  <1>5. ASSUME ListRemote(p) PROVE Goal
    <2>1. ASSUME NEW label, NEW view, NEW todo,
                 call' = [call EXCEPT ![p].pc = label, ![p].view = view, ![p].todo = todo]
          PROVE  call'[p].pc = label /\ call'[p].key = c.key
      BY <1>a, <2>1 DEF Call
    <2>2. CASE At(p, "list") /\ call'[p].pc = "remember" /\ call'[p].key = c.key
      BY <1>e, <1>5, <2>2 DEF ListRemote, At, Listed
    <2>3. CASE call'[p].pc = "select"
      BY <1>d, <2>3 DEF Listed, Open
    <2>4. \/ End(p)
          \/ /\ call'[p].pc = IF At(p, "list") THEN "remember" ELSE "select"
             /\ call'[p].key = c.key
      BY <1>5, <2>1 DEF ListRemote
    <2> HIDE DEF Goal
    <2> QED
      BY <1>c, <2>2, <2>3, <2>4
  <1>6. ASSUME RememberListed(p) PROVE Goal
    <2>1. call'[p].pc = c.pc /\ call'[p].key = c.key
      BY <1>a, <1>6 DEF RememberListed, Call
    <2>2. c.pc \in {"remember", "rememberRest"} /\ UNCHANGED work
      BY <1>6 DEF RememberListed, At, UpsertSessions
    <2> QED
      BY <1>a, <2>1, <2>2 DEF DecidedOK, Listed, Open
  <1>7. ASSUME NEW label, NEW todo,
               call' = [call EXCEPT ![p].pc = label, ![p].todo = todo]
        PROVE  call'[p].pc = label /\ call'[p].key = c.key
    BY <1>a, <1>7 DEF Call
  <1>8. ASSUME AfterSnapshot(p), UNCHANGED work,
               c.pc \in {"select", "remember", "retire", "retireFirst"}
        PROVE  Goal
    <2>1. \/ End(p)
          \/ c.pc \in {"select", "retireFirst"} /\ call'[p].pc = "rememberRest"
          \/ /\ c.pc \in {"remember", "retire"} /\ call'[p].pc = "reserve"
             /\ call'[p].key = c.key
      BY <1>7, <1>8 DEF AfterSnapshot
    <2>2. CASE call'[p].pc = "rememberRest"
      BY <1>d, <2>2 DEF Listed, Open
    <2>3. CASE /\ c.pc \in {"remember", "retire"} /\ call'[p].pc = "reserve"
               /\ call'[p].key = c.key
      BY <1>a, <1>8, <2>3 DEF DecidedOK, Listed, Open
    <2> HIDE DEF Goal
    <2> QED
      BY <1>c, <2>1, <2>2, <2>3
  <1>9. ASSUME Snapshot(p) PROVE Goal
    <2>1. c.pc \in {"select", "remember"} /\ UNCHANGED ledgerVars
      BY <1>9 DEF Snapshot, At
    <2>2. \/ AfterSnapshot(p)
          \/ c.pc = "select" /\ call'[p].pc = "retireFirst"
          \/ c.pc = "remember" /\ call'[p].pc = "retire" /\ call'[p].key = c.key
      BY <1>7, <1>9, <2>1 DEF Snapshot, At
    <2>3. CASE call'[p].pc = "retireFirst"
      BY <1>d, <2>3 DEF Listed, Open
    <2>4. CASE c.pc = "remember" /\ call'[p].pc = "retire" /\ call'[p].key = c.key
      BY <1>e, <2>1, <2>4 DEF Listed
    <2>5. UNCHANGED work
      BY <2>1 DEF ledgerVars
    <2> HIDE DEF Goal
    <2> QED
      BY <1>8, <2>1, <2>2, <2>3, <2>4, <2>5
  <1>10. ASSUME Retire(p) PROVE Goal
    BY <1>8, <1>10 DEF Retire, At, MarkNotVisible
  <1>11. ASSUME Reserve(p) PROVE Goal
    <2>1. ~HasWork(c.key)
      BY <1>a, <1>11 DEF Reserve, At, CallOK, DecidedOK, Listed, HasWork
    <2>2. ASSUME NEW a, call' = [call EXCEPT ![p].pc = "send", ![p].att = a,
                                            ![p].view = NoView]
          PROVE  Goal
      <3>1. call'[p].pc = "send"
        BY <1>a, <2>2 DEF Call
      <3> QED
        BY <1>d, <3>1 DEF Listed, Open
    <2> HIDE DEF Goal
    <2> QED
      BY <1>c, <1>11, <2>1, <2>2 DEF Reserve
  <1>12. ASSUME Send(p) PROVE Goal
    <2>1. ASSUME NEW early, BeginSend(c.att, early), Goto(p, "post") PROVE Goal
      <3>1. c.att \in Attempt
        BY <1>a, <1>12 DEF Send, At, CallOK, HoldsAttempt
      <3>2. att'[c.att].state = "SEND_STARTED"
        BY <1>a, <2>1, <3>1 DEF BeginSend, AttemptRow
      <3> QED
        BY <1>b, <2>1, <3>2 DEF DecidedOK, Listed, Open
    <2> HIDE DEF Goal
    <2> QED
      BY <1>c, <1>12, <2>1 DEF Send
  <1>13. ASSUME PostAnswered(p) \/ PostRejected(p) \/ PostUncertain(p) PROVE Goal
    <2>1. /\ UNCHANGED ledgerVars /\ c.pc = "post"
          /\ \/ Goto(p, "rejected") \/ Goto(p, "uncertain")
             \/ \E s \in Session : call' = [call EXCEPT ![p].pc = "bind", ![p].sess = s,
                                              ![p].view = Only(s, "active")]
      BY <1>13 DEF PostAnswered, PostRejected, PostUncertain, At
    <2>2. ASSUME NEW s, NEW view,
                 call' = [call EXCEPT ![p].pc = "bind", ![p].sess = s, ![p].view = view]
          PROVE  call'[p].pc = "bind" /\ call'[p].att = c.att
      BY <1>a, <2>2 DEF Call
    <2>3. call'[p].pc \in {"rejected", "uncertain", "bind"} /\ call'[p].att = c.att
      <3>1. CASE Goto(p, "rejected")
        BY <1>b, <3>1
      <3>2. CASE Goto(p, "uncertain")
        BY <1>b, <3>2
      <3> QED
        BY <2>1, <2>2, <3>1, <3>2
    <2> QED
      BY <1>f, <2>1, <2>3 DEF Open
  <1>14. ASSUME MarkReconciling(p) PROVE Goal
    <2>1. c.att \in Attempt
      BY <1>a, <1>14 DEF MarkReconciling, At, CallOK, HoldsAttempt
    <2>2. att'[c.att].state = "RECONCILING"
      BY <1>a, <1>14, <2>1 DEF MarkReconciling, MarkAttemptError, AttemptRow
    <2>3. call'[p].pc = "recon" /\ call'[p].att = c.att
      BY <1>b, <1>14 DEF MarkReconciling
    <2> QED
      BY <2>2, <2>3 DEF DecidedOK, Listed, Open
  <1>15. ASSUME Bind(p) PROVE Goal
    <2>1. CASE Goto(p, "rememberOne")
      BY <1>b, <2>1 DEF DecidedOK, Listed, Open
    <2> HIDE DEF Goal
    <2> QED
      BY <1>c, <1>15, <2>1 DEF Bind
  <1>16. ASSUME ReadAttempt(p) PROVE Goal
    <2>1. CASE call' = [call EXCEPT ![p].pc = "scan", ![p].tries = Scans]
      <3>1. call'[p].pc = "scan" /\ call'[p].att = c.att
        BY <1>a, <2>1 DEF Call
      <3> QED
        BY <1>f, <1>16, <3>1 DEF ReadAttempt, At, Open
    <2> HIDE DEF Goal
    <2> QED
      BY <1>c, <1>16, <2>1 DEF ReadAttempt
  <1>17. ASSUME Scan(p) PROVE Goal
    <2>1. ASSUME NEW s, call' = [call EXCEPT ![p].pc = "adopt", ![p].sess = s,
                                   ![p].view = Only(s, remote[s].status)]
          PROVE  call'[p].pc = "adopt" /\ call'[p].att = c.att
      BY <1>a, <2>1 DEF Call
    <2>2. ASSUME NextRound(p)
          PROVE  call'[p].pc \in {"none", "scan"} /\ call'[p].att = c.att
      BY <1>a, <2>2 DEF NextRound, Call
    <2>3. End(p) \/ (call'[p].pc \in {"adopt", "multiple", "none", "scan"}
                       /\ call'[p].att = c.att)
      BY <1>b, <1>17, <2>1, <2>2 DEF Scan
    <2>4. UNCHANGED ledgerVars /\ c.pc = "scan"
      BY <1>17 DEF Scan, At
    <2>5. CASE /\ call'[p].pc \in {"adopt", "multiple", "none", "scan"}
               /\ call'[p].att = c.att
      BY <1>f, <2>4, <2>5 DEF Open
    <2> HIDE DEF Goal
    <2> QED
      BY <1>c, <2>3, <2>5
  <1>18. ASSUME EndListing(p) \/ MarkRejected(p) \/ RememberOne(p) \/ MarkIndeterminate(p)
                \/ Crash(p)
         PROVE  Goal
    BY <1>c, <1>18 DEF EndListing, MarkRejected, RememberOne, MarkIndeterminate, Crash
  <1>19. ~AdoptCommand(p)
    BY DEF AdoptCommand
  <1> HIDE DEF Goal
  <1>20. Goal
    BY <1>1, <1>2, <1>3, <1>4, <1>5, <1>6, <1>9, <1>10, <1>11, <1>12, <1>13, <1>14,
       <1>15, <1>16, <1>17, <1>18, <1>19 DEF Step
  <1> QED
    BY <1>20 DEF Goal

LEMMA DecidedInit == Init => Decided
  BY DEF Init, Decided, DecidedOK, Idle, NewCall, Listed, Open

LEMMA DecidedNext ==
  ASSUME Sole, "adopt" \notin Events, IndInv, Decided, [Next]_vars
  PROVE  Decided'
  <1>1. ASSUME NEW p \in Proc,
               \/ StartDispatch(p) \/ StartList(p) \/ StartReconcile(p) \/ AdoptCommand(p)
               \/ Step(p) \/ Crash(p)
        PROVE  Decided'
    <2>1. DecidedOK(call'[p], att', work')
      BY <1>1, DecidedStep
    <2> QED
      BY <2>1 DEF Sole, Decided
  <1>2. ASSUME UNCHANGED call,
               \A k \in Key : work[k].status = "ABSENT" => work'[k].status = "ABSENT",
               \A p \in Proc : At(p, call[p].pc) /\ call[p].pc \in Open =>
                 (att[call[p].att].state # "DEFINITIVELY_REJECTED"
                    => att'[call[p].att].state # "DEFINITIVELY_REJECTED")
        PROVE  Decided'
    BY <1>2 DEF Decided, DecidedOK, At
  <1>3. att \in [Attempt -> AttemptRow]
        /\ \A p \in Proc : call[p].pc \in Open => call[p].att \in Attempt
    BY DEF IndInv, LedgerInv, LedgerTypeOK, CallsOK, CallOK, HoldsAttempt, Open
  <1>4. ASSUME NEW value \in BOOLEAN, Fence(value) PROVE Decided'
    <2>1. \A k \in Key : work[k].status = "ABSENT" => work'[k].status = "ABSENT"
      <3>1. SUFFICES ASSUME NEW k \in Key, work[k].status = "ABSENT"
                     PROVE  work'[k].status = "ABSENT"
        OBVIOUS
      <3>2. ~\E a \in Attempt : att[a].state = "RESERVED" /\ att[a].key = k
        BY <3>1 DEF IndInv, LedgerInv, WorkMirrorsAttempt
      <3> QED
        BY <1>4, <3>1, <3>2 DEF Fence, SetFrozen
    <2>2. \A a \in Attempt : att'[a].state \in {att[a].state, "CANCELLED_LOCAL"}
      BY <1>3, <1>4 DEF Fence, SetFrozen, AttemptRow
    <2>3. UNCHANGED call
      BY <1>4 DEF Fence
    <2> QED
      BY <1>2, <1>3, <2>1, <2>2, <2>3
  <1>5. ASSUME NEW a \in Attempt, TimePasses(a) PROVE Decided'
    <2>1. \A b \in Attempt : att'[b].state = att[b].state
      BY <1>3, <1>5 DEF TimePasses, StartAges, AttemptRow
    <2>2. UNCHANGED <<call, work>>
      BY <1>5 DEF TimePasses, StartAges
    <2> QED
      BY <1>2, <1>3, <2>1, <2>2
  <1>6. ASSUME \/ \E a \in Attempt : CreateLate(a)
               \/ \E s \in Session : CreateForeign(s) \/ SessionMoves(s)
               \/ UNCHANGED vars
        PROVE  Decided'
    <2>1. UNCHANGED <<call, work, att>>
      BY <1>6 DEF CreateLate, CreateForeign, SessionMoves, ledgerVars, vars
    <2> QED
      BY <1>2, <2>1
  <1> QED
    BY <1>1, <1>4, <1>5, <1>6 DEF Next

(* One process at a time, and no adopt by hand: a rejected attempt is never *)
(* moved again (controller.py, MarkRejected to reconcile_attempt).  Without *)
(* either hypothesis TLC finds an attempt that is revived.                  *)
THEOREM SoleRejectionStands ==
  ASSUME Sole, "adopt" \notin Events
  PROVE  Spec => RejectionIsFinal
  <1> DEFINE Rejected == "DEFINITIVELY_REJECTED"
             Stands == \A a \in Attempt : att[a].state = Rejected
                                            => att'[a].state = Rejected
  <1>1. ASSUME IndInv, Decided, [Next]_vars PROVE Stands
    <2>1. att \in [Attempt -> AttemptRow] /\ \A a \in Attempt : att[a] \in AttemptRow
      BY <1>1 DEF IndInv, LedgerInv, LedgerTypeOK
    <2>a. \A p \in Proc : call[p].pc \in Open => att[call[p].att].state # Rejected
      BY <1>1 DEF Decided, DecidedOK
    <2>2. ASSUME UNCHANGED att PROVE Stands
      BY <2>2
    <2>3. ASSUME NEW p \in Proc, Reserve(p) PROVE Stands
      <3>1. ASSUME NEW a \in Attempt, NEW base, att[a].state = "ABSENT",
                   InsertReservation(call[p].key, call[p].shape, a, base)
            PROVE  Stands
        BY <2>1, <3>1 DEF InsertReservation
      <3> QED
        BY <2>2, <2>3, <3>1 DEF Reserve, ledgerVars
    <2>4. ASSUME NEW p \in Proc, Send(p) PROVE Stands
      <3>1. ASSUME NEW early, CanBeginSend(call[p].att), BeginSend(call[p].att, early)
            PROVE  Stands
        BY <2>1, <3>1 DEF BeginSend, CanBeginSend
      <3> QED
        BY <2>2, <2>4, <3>1 DEF Send, ledgerVars
    <2>5. ASSUME NEW p \in Proc, NEW state, MarkAttemptError(call[p].att, state),
                 state = Rejected \/ call[p].pc \in Open
          PROVE  Stands
      <3>1. CASE state = Rejected
        <4>1. \A a \in Attempt : att'[a] \in {att[a], [att[a] EXCEPT !.state = Rejected]}
          BY <2>1, <2>5, <3>1 DEF MarkAttemptError
        <4> QED
          BY <2>1, <4>1 DEF AttemptRow
      <3>2. CASE call[p].pc \in Open
        BY <2>1, <2>5, <2>a, <3>2 DEF MarkAttemptError
      <3> QED
        BY <2>5, <3>1, <3>2
    <2>6. ASSUME NEW p \in Proc,
                 MarkRejected(p) \/ MarkReconciling(p) \/ MarkIndeterminate(p)
          PROVE  Stands
      BY <2>5, <2>6 DEF MarkRejected, MarkReconciling, MarkIndeterminate, At, Open
    <2>7. ASSUME NEW p \in Proc, Bind(p) PROVE Stands
      <3>1. call[p].pc \in Open
        BY <2>7 DEF Bind, At, Open
      <3>2. ASSUME NEW s, NEW state, BindSession(call[p].att, s, state) PROVE Stands
        BY <2>1, <2>a, <3>1, <3>2 DEF BindSession
      <3> QED
        BY <2>2, <2>7, <3>2 DEF Bind, ledgerVars
    <2>8. ASSUME NEW value \in BOOLEAN, Fence(value) PROVE Stands
      BY <2>1, <2>8 DEF Fence, SetFrozen
    <2>9. ASSUME NEW a \in Attempt, TimePasses(a) PROVE Stands
      BY <2>1, <2>9 DEF TimePasses, StartAges, AttemptRow
    <2>10. ASSUME NEW p \in Proc,
                  \/ StartDispatch(p) \/ StartList(p) \/ StartReconcile(p)
                  \/ AdoptCommand(p) \/ Lookup(p) \/ Route(p) \/ ListRemote(p)
                  \/ RememberListed(p) \/ Snapshot(p) \/ Retire(p) \/ EndListing(p)
                  \/ PostAnswered(p) \/ PostRejected(p) \/ PostUncertain(p)
                  \/ RememberOne(p) \/ ReadAttempt(p) \/ Scan(p) \/ Crash(p)
           PROVE  UNCHANGED att
      BY <2>10
      DEF StartDispatch, StartList, StartReconcile, AdoptCommand, Lookup, Route,
          ListRemote, RememberListed, Snapshot, Retire, EndListing, PostAnswered,
          PostRejected, PostUncertain, RememberOne, ReadAttempt, Scan, Crash,
          UpsertSessions, MarkNotVisible, ledgerVars
    <2>11. ASSUME \/ \E a \in Attempt : CreateLate(a)
                  \/ \E s \in Session : CreateForeign(s) \/ SessionMoves(s)
                  \/ UNCHANGED vars
           PROVE  UNCHANGED att
      BY <2>11 DEF CreateLate, CreateForeign, SessionMoves, ledgerVars, vars
    <2> HIDE DEF Stands
    <2> QED
      BY <1>1, <2>2, <2>3, <2>4, <2>6, <2>7, <2>8, <2>9, <2>10, <2>11 DEF Next, Step
  <1>2. IndInv /\ Decided /\ [Next]_vars => Decided'
    BY DecidedNext
  <1>3. Stands => [Stands]_vars
    OBVIOUS
  <1> HIDE DEF Stands
  <1>4. RejectionIsFinal <=> [][Stands]_vars
    BY DEF RejectionIsFinal, Stands
  <1> QED
    BY <1>1, <1>2, <1>4, DecidedInit, Inductive, PTL DEF Spec
=============================================================================
