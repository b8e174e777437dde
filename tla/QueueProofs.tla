------------------------------ MODULE QueueProofs ------------------------------
(***************************************************************************)
(* Proofs about CandidateQueue, for any number of workers, candidates,     *)
(* attempts and sessions, any allow lists and any batch size.  QueueInv is *)
(* the inductive invariant: the tables (LedgerProofs), what a worker may   *)
(* rely on at each label although its claim may be requeued under it, and  *)
(* the accounting of create requests and of the sessions they made.  On it *)
(* rest the refinement, the measure that every run goes down and the       *)
(* policy that every request keeps.                                        *)
(***************************************************************************)
EXTENDS CandidateQueue, LedgerProofs, FiniteSetTheorems, WellFoundedInduction

HoldsAttempt == {"send", "post", "rejected", "uncertain", "bind", "recon", "scan", "none"}

(* A worker past the claim has a batch; one past the reservation holds the  *)
(* attempt of the head of its batch; one that binds, a session; one that    *)
(* finishes, a result, which is COMPLETED only if the head has a session.   *)
RunOK(r, table, book, fleet) ==
    /\ r.pc \notin {"idle", "claim"} => r.batch # {}
    /\ r.pc \in HoldsAttempt => /\ r.att \in Attempt
                                /\ table[r.att].state # "ABSENT"
                                /\ table[r.att].key = Oldest(r.batch)
    /\ r.pc = "bind" => fleet[r.att] # None
    /\ r.pc = "finish" => r.result # None
    /\ r.pc = "finish" /\ r.result = "COMPLETED" => book[Oldest(r.batch)].session # None

RunsOK ==
    /\ run \in [Worker -> Run]
    /\ \A w \in Worker : RunOK(run[w], att, work, made)

RowsOK == row \in [Key -> Row] /\ expired \subseteq Key

RemoteOK ==
    /\ made \in [Attempt -> Session \cup {None}]
    /\ pending \subseteq Attempt
    /\ posts \in [Key -> Nat]

NoWorkNoSession == \A k \in Key : ~HasWork(k) => work[k].session = None

(* Where the one transmission of an attempt is: not begun, in the hands of  *)
(* the one worker that committed begin_send, or spent.                      *)
PostsOK ==
    /\ \A k \in Key : posts[k] \in {0, 1} /\ (~HasWork(k) => posts[k] = 0)
    /\ \A a \in Attempt : att[a].state # "ABSENT" /\ ~Transmitted(a)
                            => posts[att[a].key] = 0
    /\ \A w \in Worker : At(w, "post") =>
         Transmitted(run[w].att) /\ posts[att[run[w].att].key] = 0
    /\ \A v, w \in Worker : At(v, "post") /\ At(w, "post")
                              /\ run[v].att = run[w].att => v = w

(* An attempt has a session, or may still get one, only if its request was  *)
(* sent; no two have one session.                                           *)
MadeOK ==
    /\ \A a \in Attempt : made[a] # None \/ a \in pending =>
         att[a].state # "ABSENT" /\ posts[att[a].key] = 1
    /\ \A a \in pending : made[a] = None
    /\ \A a, b \in Attempt : made[a] # None /\ made[a] = made[b] => a = b

QueueInv ==
    /\ LedgerInv
    /\ RowsOK
    /\ RemoteOK
    /\ RunsOK
    /\ NoWorkNoSession
    /\ CompletedIsBound
    /\ PostsOK
    /\ MadeOK

-----------------------------------------------------------------------------
(* A batch that is not empty has an oldest candidate.                       *)
LEMMA OldestIsIn ==
  ASSUME NEW S \in SUBSET Nat, S # {}
  PROVE  Oldest(S) \in S
  <1>1. PICK n \in S : TRUE
    OBVIOUS
  <1> DEFINE R == StrictSubsetOrdering(0 .. n)
             T == {0 .. m : m \in {m \in S : m <= n}}
  <1>2. IsWellFoundedOn(R, SUBSET (0 .. n))
    <2>1. IsFiniteSet(0 .. n)
      BY <1>1, FS_Interval
    <2>2. FiniteSubsetsOf(0 .. n) = SUBSET (0 .. n)
      BY <2>1, FS_FiniteSubsetsOfFinite
    <2> QED
      BY <2>2, FS_StrictSubsetOrderingWellFounded
  <1>3. T \subseteq SUBSET (0 .. n) /\ 0 .. n \in T
    BY <1>1
  <1>4. PICK x \in T : \A y \in T : <<y, x>> \notin R
    BY <1>2, <1>3, WFMin
  <1>5. PICK k \in S : k <= n /\ x = 0 .. k
    BY <1>4
  <1>6. \A j \in S : k <= j
    <2> SUFFICES ASSUME NEW j \in S, j < k PROVE FALSE
      OBVIOUS
    <2>1. 0 .. j \in T
      BY <1>1, <1>5
    <2>2. 0 .. j \subseteq 0 .. k /\ 0 .. j # 0 .. k
      <3>1. k \in 0 .. k /\ k \notin 0 .. j
        OBVIOUS
      <3> QED
        BY <3>1
    <2>3. <<0 .. j, x>> \in R
      BY <1>3, <1>4, <1>5, <2>1, <2>2 DEF StrictSubsetOrdering
    <2> QED
      BY <1>4, <2>1, <2>3
  <1> QED
    BY <1>6 DEF Oldest

LEMMA IdleRun ==
  NoRun \in Run /\ \A table, book, fleet : RunOK(NoRun, table, book, fleet)
  BY DEF NoRun, Run, Label, RunOK, HoldsAttempt

LEMMA InitInv == Init => QueueInv
  <1> SUFFICES ASSUME Init PROVE QueueInv
    OBVIOUS
  <1>1. LedgerInv
    BY LedgerInitInv DEF Init
  <1>2. RowsOK /\ CompletedIsBound
    BY DEF Init, RowsOK, Row, CompletedIsBound
  <1>3. RemoteOK
    BY DEF Init, RemoteOK
  <1>4. RunsOK
    BY IdleRun DEF Init, RunsOK
  <1>5. NoWorkNoSession
    BY DEF Init, LedgerInit, NoWork, NoWorkNoSession
  <1>6. \A w \in Worker : ~At(w, "post")
    BY DEF Init, At, NoRun
  <1>7. PostsOK
    BY <1>6 DEF Init, PostsOK, LedgerInit, NoAttempt
  <1>8. MadeOK
    BY DEF Init, MadeOK
  <1> QED
    BY <1>1, <1>2, <1>3, <1>4, <1>5, <1>7, <1>8 DEF QueueInv

-----------------------------------------------------------------------------
(* What a worker at a label relies on.                                      *)
LEMMA HeadIsCandidate ==
  ASSUME RunsOK, NEW w \in Worker, run[w].pc \notin {"idle", "claim"}
  PROVE  Head(w) \in Key
  <1>1. run[w].batch \in SUBSET Key /\ run[w].batch # {}
    BY DEF RunsOK, RunOK, Run
  <1>2. run[w].batch \in SUBSET Nat
    BY <1>1, CandidateAssumption
  <1>3. Oldest(run[w].batch) \in run[w].batch
    BY <1>1, <1>2, OldestIsIn
  <1> QED
    BY <1>1, <1>3 DEF Head

LEMMA AttemptOfHead ==
  ASSUME RunsOK, NEW w \in Worker, run[w].pc \in HoldsAttempt
  PROVE  Known(run[w].att) /\ att[run[w].att].key = Head(w)
  BY DEF RunsOK, RunOK, Known, Head

(* Every step of the queue is a transaction of Ledger or leaves it alone.   *)
LEMMA LedgerStep ==
  ASSUME QueueInv, Next
  PROVE  LedgerInv' /\ Evolves
  <1>1. LedgerInv /\ RunsOK /\ RemoteOK
    BY DEF QueueInv
  <1>2. ASSUME NEW w \in Worker, Reserve(w)
        PROVE  LedgerInv' /\ Evolves
    <2>1. Head(w) \in Key
      BY <1>1, <1>2, HeadIsCandidate DEF Reserve, At
    <2>2. CASE UNCHANGED ledgerVars
      BY <1>1, <2>2, LedgerStutterInv
    <2>3. ASSUME ~frozen, ~HasWork(Head(w)), NEW a \in Attempt, NEW sh \in Shape,
                 att[a].state = "ABSENT", InsertReservation(Head(w), sh, a, {})
          PROVE  LedgerInv' /\ Evolves
      BY <1>1, <2>1, <2>3, InsertReservationInv
    <2> QED
      BY <1>2, <2>2, <2>3 DEF Reserve
  <1>3. ASSUME NEW w \in Worker, Send(w)
        PROVE  LedgerInv' /\ Evolves
    <2>1. run[w].att \in Attempt
      BY <1>1, <1>3, AttemptOfHead DEF Send, At, HoldsAttempt, Known
    <2> QED
      BY <1>1, <1>3, <2>1, BeginSendInv, LedgerStutterInv DEF Send
  <1>4. ASSUME NEW w \in Worker, MarkRejected(w) \/ MarkReconciling(w) \/ MarkIndeterminate(w)
        PROVE  LedgerInv' /\ Evolves
    <2>1. Known(run[w].att)
      BY <1>1, <1>4, AttemptOfHead
      DEF MarkRejected, MarkReconciling, MarkIndeterminate, At, HoldsAttempt
    <2>2. \E state \in (Unresolved \ {"RESERVED"}) \cup {"DEFINITIVELY_REJECTED"} :
            MarkAttemptError(run[w].att, state)
      BY <1>4 DEF MarkRejected, MarkReconciling, MarkIndeterminate, Unresolved
    <2> QED
      BY <1>1, <2>1, <2>2, MarkAttemptErrorInv
  <1>5. ASSUME NEW w \in Worker, Bind(w)
        PROVE  LedgerInv' /\ Evolves
    <2>1. Known(run[w].att)
      BY <1>1, <1>5, AttemptOfHead DEF Bind, At, HoldsAttempt
    <2>2. made[run[w].att] \in Session
      BY <1>1, <1>5, <2>1 DEF Bind, At, RunsOK, RunOK, RemoteOK, Known
    <2> QED
      BY <1>1, <1>5, <2>1, <2>2, BindSessionInv, LedgerStutterInv DEF Bind
  <1>6. ASSUME NEW value \in BOOLEAN, Fence(value)
        PROVE  LedgerInv' /\ Evolves
    BY <1>1, <1>6, SetFrozenInv DEF Fence
  <1>7. ASSUME NEW w \in Worker,
               \/ Requeue(w) \/ Claim(w) \/ Item(w) \/ Finish(w) \/ Release(w)
               \/ Lookup(w) \/ PostAnswered(w) \/ PostRejected(w) \/ PostUncertain(w)
               \/ ReadAttempt(w) \/ Scan(w) \/ Crash(w)
        PROVE  UNCHANGED ledgerVars
    BY <1>7
    DEF Requeue, Claim, Item, Finish, Release, Lookup, PostAnswered, PostRejected,
        PostUncertain, ReadAttempt, Scan, Crash
  <1>8. ASSUME \/ \E k \in Key : Enqueue(k) \/ ClaimAges(k) \/ Expire(k)
               \/ \E a \in Attempt : CreateLate(a)
        PROVE  UNCHANGED ledgerVars
    BY <1>8 DEF Enqueue, ClaimAges, Expire, CreateLate
  <1> QED
    BY <1>1, <1>2, <1>3, <1>4, <1>5, <1>6, <1>7, <1>8, LedgerStutterInv DEF Next, Step

-----------------------------------------------------------------------------
(* The session a key answers with changes only in bind_session.             *)
KeepsOwners == \A k \in Key : work'[k].session = work[k].session

LEMMA TablesKeepOwners ==
  ASSUME LedgerInv, NoWorkNoSession,
         \/ \E value \in BOOLEAN : SetFrozen(value)
         \/ \E k \in Key, sh \in Shape, a \in Attempt, b \in SUBSET Session :
              ~HasWork(k) /\ InsertReservation(k, sh, a, b)
         \/ \E a \in Attempt : \E early : BeginSend(a, early)
         \/ \E a \in Attempt : \E state : MarkAttemptError(a, state)
         \/ UNCHANGED work
  PROVE  KeepsOwners
  <1>1. work \in [Key -> WorkRow]
    BY DEF LedgerInv, LedgerTypeOK
  <1>2. \A k \in Key : work[k] \in WorkRow
    BY <1>1
  <1>3. \A r \in WorkRow : \A x : [r EXCEPT !.status = x].session = r.session
    BY DEF WorkRow
  <1>4. ASSUME NEW value \in BOOLEAN, SetFrozen(value) PROVE KeepsOwners
    BY <1>2, <1>3, <1>4 DEF SetFrozen, KeepsOwners
  <1>5. ASSUME NEW k \in Key, NEW sh \in Shape, NEW a \in Attempt, NEW b \in SUBSET Session,
               ~HasWork(k), InsertReservation(k, sh, a, b)
        PROVE  KeepsOwners
    BY <1>1, <1>5 DEF InsertReservation, NoWorkNoSession, KeepsOwners
  <1>6. ASSUME NEW a \in Attempt, NEW early, BeginSend(a, early) PROVE KeepsOwners
    BY <1>1, <1>2, <1>3, <1>6 DEF BeginSend, KeepsOwners
  <1>7. ASSUME NEW a \in Attempt, NEW state, MarkAttemptError(a, state) PROVE KeepsOwners
    BY <1>1, <1>2, <1>3, <1>7 DEF MarkAttemptError, KeepsOwners
  <1> QED
    BY <1>4, <1>5, <1>6, <1>7 DEF KeepsOwners

(* A bind that is not refused gives the head of the batch the session made. *)
Binds(w) ==
    /\ run[w].pc = "bind"
    /\ UNCHANGED remoteVars
    /\ ~ BindConflict(run[w].att, made[run[w].att])
    /\ \A k \in Key : work'[k].session =
         IF k = Head(w) THEN made[run[w].att] ELSE work[k].session

LEMMA OwnerSteps ==
  ASSUME QueueInv, Next
  PROVE  KeepsOwners \/ \E w \in Worker : Binds(w)
  <1>1. LedgerInv /\ RunsOK /\ NoWorkNoSession
    BY DEF QueueInv
  <1>2. ASSUME NEW w \in Worker, Reserve(w) PROVE KeepsOwners
    <2>1. Head(w) \in Key
      BY <1>1, <1>2, HeadIsCandidate DEF Reserve, At
    <2>2. CASE UNCHANGED ledgerVars
      BY <1>1, <2>2, TablesKeepOwners DEF ledgerVars
    <2>3. ASSUME ~HasWork(Head(w)), NEW a \in Attempt, NEW sh \in Shape,
                 InsertReservation(Head(w), sh, a, {})
          PROVE  KeepsOwners
      BY <1>1, <2>1, <2>3, TablesKeepOwners
    <2> QED
      BY <1>2, <2>2, <2>3 DEF Reserve
  <1>3. ASSUME NEW w \in Worker, Send(w) PROVE KeepsOwners
    <2>1. run[w].att \in Attempt
      BY <1>1, <1>3, AttemptOfHead DEF Send, At, HoldsAttempt, Known
    <2>2. CASE UNCHANGED ledgerVars
      BY <1>1, <2>2, TablesKeepOwners DEF ledgerVars
    <2>3. CASE BeginSend(run[w].att, {})
      BY <1>1, <2>1, <2>3, TablesKeepOwners
    <2> QED
      BY <1>3, <2>2, <2>3 DEF Send
  <1>4. ASSUME NEW w \in Worker, MarkRejected(w) \/ MarkReconciling(w) \/ MarkIndeterminate(w)
        PROVE  KeepsOwners
    <2>1. run[w].att \in Attempt
      BY <1>1, <1>4, AttemptOfHead
      DEF MarkRejected, MarkReconciling, MarkIndeterminate, At, HoldsAttempt, Known
    <2>2. \E state : MarkAttemptError(run[w].att, state)
      BY <1>4 DEF MarkRejected, MarkReconciling, MarkIndeterminate
    <2> QED
      BY <1>1, <2>1, <2>2, TablesKeepOwners
  <1>5. ASSUME NEW w \in Worker, Bind(w) PROVE KeepsOwners \/ Binds(w)
    <2>1. CASE UNCHANGED ledgerVars
      BY <1>1, <2>1, TablesKeepOwners DEF ledgerVars
    <2>2. CASE /\ ~BindConflict(run[w].att, made[run[w].att])
               /\ BindSession(run[w].att, made[run[w].att], "CONFIRMED")
      <3>1. run[w].pc = "bind" /\ UNCHANGED remoteVars
        BY <1>5 DEF Bind, At
      <3>2. att[run[w].att].key = Head(w)
        BY <1>1, <3>1, AttemptOfHead DEF HoldsAttempt
      <3>3. work \in [Key -> WorkRow]
        BY <1>1 DEF LedgerInv, LedgerTypeOK
      <3>4. \A k \in Key : work[k] \in WorkRow
        BY <3>3
      <3>5. \A k \in Key : work'[k].session =
              IF k = Head(w) THEN made[run[w].att] ELSE work[k].session
        BY <2>2, <3>2, <3>3, <3>4 DEF BindSession, WorkRow
      <3> QED
        BY <2>2, <3>1, <3>5 DEF Binds
    <2> QED
      BY <1>5, <2>1, <2>2 DEF Bind
  <1>6. ASSUME NEW value \in BOOLEAN, Fence(value) PROVE KeepsOwners
    BY <1>1, <1>6, TablesKeepOwners DEF Fence
  <1>7. ASSUME NEW w \in Worker,
               \/ Requeue(w) \/ Claim(w) \/ Item(w) \/ Finish(w) \/ Release(w)
               \/ Lookup(w) \/ PostAnswered(w) \/ PostRejected(w) \/ PostUncertain(w)
               \/ ReadAttempt(w) \/ Scan(w) \/ Crash(w)
        PROVE  UNCHANGED work
    BY <1>7
    DEF Requeue, Claim, Item, Finish, Release, Lookup, PostAnswered, PostRejected,
        PostUncertain, ReadAttempt, Scan, Crash, ledgerVars
  <1>8. ASSUME \/ \E k \in Key : Enqueue(k) \/ ClaimAges(k) \/ Expire(k)
               \/ \E a \in Attempt : CreateLate(a)
        PROVE  UNCHANGED work
    BY <1>8 DEF Enqueue, ClaimAges, Expire, CreateLate, ledgerVars
  <1> QED
    BY <1>1, <1>2, <1>3, <1>4, <1>5, <1>6, <1>7, <1>8, TablesKeepOwners DEF Next, Step

(* A key that answers with a session goes on to answer with one.            *)
OwnersStay == \A k \in Key : work[k].session # None => work'[k].session # None

LEMMA OwnersRemain ==
  ASSUME QueueInv, Next
  PROVE  OwnersStay
  <1>1. CASE KeepsOwners
    BY <1>1 DEF KeepsOwners, OwnersStay
  <1>2. ASSUME NEW w \in Worker, Binds(w) PROVE OwnersStay
    <2>1. made[run[w].att] # None
      BY <1>2 DEF QueueInv, RunsOK, RunOK, Binds
    <2> QED
      BY <1>2, <2>1 DEF Binds, OwnersStay
  <1> QED
    BY <1>1, <1>2, OwnerSteps

-----------------------------------------------------------------------------
(* What Jules made and what was posted.                                     *)
MadeStays == \A a \in Attempt : made[a] # None => made'[a] = made[a]

LEMMA MakeOne ==
  ASSUME RemoteOK, NEW a \in Attempt, Make(a)
  PROVE  \E s \in Session :
           /\ s # None
           /\ \A b \in Attempt : made[b] # s
           /\ made' \in [Attempt -> Session \cup {None}]
           /\ \A b \in Attempt : made'[b] = IF b = a THEN s ELSE made[b]
  BY NullAssumption DEF RemoteOK, Make

LEMMA Transmits ==
  ASSUME RemoteOK, NEW a \in Attempt, att[a].key \in Key, Transmit(a)
  PROVE  /\ posts' \in [Key -> Nat]
         /\ \A k \in Key : posts'[k] = IF k = att[a].key THEN posts[k] + 1 ELSE posts[k]
  BY DEF RemoteOK, Transmit

(* The steps that send a request, and what they leave.                      *)
Posting(w) == PostAnswered(w) \/ PostRejected(w) \/ PostUncertain(w)

LEMMA PostDoes ==
  ASSUME NEW w, Posting(w)
  PROVE  /\ run[w].pc = "post"
         /\ UNCHANGED <<frozen, generation, work, att, sessions, row, expired>>
         /\ Transmit(run[w].att)
         /\ \/ Make(run[w].att) /\ UNCHANGED pending
            \/ UNCHANGED made /\ pending' \in {pending, pending \cup {run[w].att}}
         /\ \E label \in {"bind", "rejected", "uncertain"} :
              /\ Goto(w, label)
              /\ label = "bind" => Make(run[w].att)
  BY DEF Posting, PostAnswered, PostRejected, PostUncertain, At, ledgerVars, queueVars

LEMMA QuietSteps ==
  ASSUME Next
  PROVE  \/ UNCHANGED remoteVars
         \/ \E w \in Worker : Posting(w)
         \/ \E a \in Attempt : CreateLate(a)
  <1>1. ASSUME NEW w \in Worker, Step(w) \/ Crash(w), ~Posting(w)
        PROVE  UNCHANGED remoteVars
    BY <1>1
    DEF Step, Posting, Requeue, Claim, Item, Finish, Release, Lookup, Reserve, Send,
        MarkRejected, MarkReconciling, Bind, ReadAttempt, Scan, MarkIndeterminate, Crash
  <1>2. ASSUME NEW k \in Key, Enqueue(k) \/ ClaimAges(k) \/ Expire(k)
        PROVE  UNCHANGED remoteVars
    BY <1>2 DEF Enqueue, ClaimAges, Expire
  <1>3. ASSUME NEW value \in BOOLEAN, Fence(value)
        PROVE  UNCHANGED remoteVars
    BY <1>3 DEF Fence
  <1> QED
    BY <1>1, <1>2, <1>3 DEF Next

(* The holder of an attempt of the table.                                   *)
LEMMA PosterHolds ==
  ASSUME QueueInv, NEW w \in Worker, run[w].pc = "post"
  PROVE  /\ run[w].att \in Attempt /\ att[run[w].att].key \in Key
         /\ att[run[w].att].state # "ABSENT"
         /\ Transmitted(run[w].att) /\ posts[att[run[w].att].key] = 0
         /\ made[run[w].att] = None /\ run[w].att \notin pending
  <1>1. run[w].att \in Attempt /\ att[run[w].att].state # "ABSENT"
    BY DEF QueueInv, RunsOK, RunOK, HoldsAttempt
  <1>2. att[run[w].att].key \in Key
    BY <1>1 DEF QueueInv, LedgerInv, WorkMirrorsAttempt
  <1>3. Transmitted(run[w].att) /\ posts[att[run[w].att].key] = 0
    BY DEF QueueInv, PostsOK, At
  <1> QED
    BY <1>1, <1>2, <1>3 DEF QueueInv, MadeOK

LEMMA RemoteStep ==
  ASSUME QueueInv, Next
  PROVE  RemoteOK' /\ MadeStays
  <1>1. RemoteOK
    BY DEF QueueInv
  <1>2. CASE UNCHANGED remoteVars
    BY <1>1, <1>2 DEF remoteVars, RemoteOK, MadeStays
  <1>3. ASSUME NEW w \in Worker, Posting(w) PROVE RemoteOK' /\ MadeStays
    <2>1. /\ run[w].att \in Attempt /\ att[run[w].att].key \in Key
          /\ made[run[w].att] = None
      BY <1>3, PostDoes, PosterHolds
    <2>2. posts' \in [Key -> Nat]
      BY <1>1, <1>3, <2>1, PostDoes, Transmits
    <2>3. pending' \subseteq Attempt
      BY <1>1, <1>3, <2>1, PostDoes DEF RemoteOK
    <2>4. made' \in [Attempt -> Session \cup {None}] /\ MadeStays
      <3>1. CASE Make(run[w].att)
        BY <1>1, <2>1, <3>1, MakeOne DEF MadeStays
      <3>2. CASE UNCHANGED made
        BY <1>1, <3>2 DEF RemoteOK, MadeStays
      <3> QED
        BY <1>3, <3>1, <3>2, PostDoes
    <2> QED
      BY <2>2, <2>3, <2>4 DEF RemoteOK
  <1>4. ASSUME NEW a \in Attempt, CreateLate(a) PROVE RemoteOK' /\ MadeStays
    <2>1. made[a] = None /\ Make(a)
      BY <1>4 DEF CreateLate, QueueInv, MadeOK
    <2>2. made' \in [Attempt -> Session \cup {None}] /\ MadeStays
      BY <1>1, <2>1, MakeOne DEF MadeStays
    <2>3. pending' \subseteq Attempt /\ posts' = posts
      BY <1>1, <1>4 DEF CreateLate, RemoteOK
    <2> QED
      BY <1>1, <2>2, <2>3 DEF RemoteOK
  <1> QED
    BY <1>2, <1>3, <1>4, QuietSteps

-----------------------------------------------------------------------------
(* A step moves at most one worker, to a run whose assumptions hold.        *)
Stays == Evolves /\ OwnersStay /\ MadeStays

LEMMA OneRuns ==
  ASSUME QueueInv, Stays, NEW w \in Worker,
         \E r \in Run : RunOK(r, att', work', made') /\ run' = [run EXCEPT ![w] = r]
  PROVE  RunsOK'
  <1>1. PICK r \in Run : RunOK(r, att', work', made') /\ run' = [run EXCEPT ![w] = r]
    OBVIOUS
  <1>2. run' \in [Worker -> Run]
    BY <1>1 DEF QueueInv, RunsOK
  <1>3. \A v \in Worker : run'[v] = IF v = w THEN r ELSE run[v]
    BY <1>1 DEF QueueInv, RunsOK
  <1>4. ASSUME NEW v \in Worker PROVE RunOK(run[v], att', work', made')
    <2>1. run[v].pc \notin {"idle", "claim"} => Oldest(run[v].batch) \in Key
      BY HeadIsCandidate DEF QueueInv, Head
    <2>2. RunOK(run[v], att, work, made)
      BY DEF QueueInv, RunsOK
    <2>3. run[v].pc = "bind" => run[v].att \in Attempt
      BY <2>2 DEF RunOK, HoldsAttempt
    <2> QED
      BY <2>1, <2>2, <2>3 DEF RunOK, Stays, Evolves, OwnersStay, MadeStays
  <1>5. \A v \in Worker : RunOK(run'[v], att', work', made')
    BY <1>1, <1>3, <1>4
  <1> QED
    BY <1>2, <1>5 DEF RunsOK

LEMMA NoneRuns ==
  ASSUME QueueInv, Stays, UNCHANGED run
  PROVE  RunsOK'
  <1>1. ASSUME NEW v \in Worker PROVE RunOK(run[v], att', work', made')
    <2>1. run[v].pc \notin {"idle", "claim"} => Oldest(run[v].batch) \in Key
      BY HeadIsCandidate DEF QueueInv, Head
    <2>2. RunOK(run[v], att, work, made)
      BY DEF QueueInv, RunsOK
    <2>3. run[v].pc = "bind" => run[v].att \in Attempt
      BY <2>2 DEF RunOK, HoldsAttempt
    <2> QED
      BY <2>1, <2>2, <2>3 DEF RunOK, Stays, Evolves, OwnersStay, MadeStays
  <1> QED
    BY <1>1 DEF QueueInv, RunsOK

LEMMA RunEnds ==
  ASSUME QueueInv, Stays, NEW w \in Worker, End(w)
  PROVE  RunsOK'
  BY IdleRun, OneRuns DEF End

LEMMA RunAdvances ==
  ASSUME QueueInv, Stays, NEW w \in Worker, NextItem(w)
  PROVE  RunsOK'
  <1> DEFINE left == run[w].batch \ {Oldest(run[w].batch)}
             r == [NoRun EXCEPT !.pc = "item", !.batch = left]
  <1>1. CASE left = {}
    BY <1>1, RunEnds DEF NextItem
  <1>2. CASE left # {}
    <2>1. run[w].batch \in SUBSET Key
      BY DEF QueueInv, RunsOK, Run
    <2>2. r.pc = "item" /\ r.batch = left
      BY DEF NoRun
    <2>3. r \in Run
      BY <2>1 DEF NoRun, Run, Label
    <2>4. RunOK(r, att', work', made')
      BY <1>2, <2>2 DEF RunOK, HoldsAttempt
    <2>5. run' = [run EXCEPT ![w] = r]
      BY <1>2 DEF NextItem
    <2> HIDE DEF r
    <2> QED
      BY <2>3, <2>4, <2>5, OneRuns
  <1> QED
    BY <1>1, <1>2

(* A move to a label that relies on no more than the one before it.         *)
LEMMA RunGoes ==
  ASSUME QueueInv, Stays, NEW w \in Worker, run[w].pc \notin {"idle", "claim"},
         NEW label \in Label, Goto(w, label), label # "finish",
         label \in HoldsAttempt => run[w].pc \in HoldsAttempt,
         label = "bind" => made'[run[w].att] # None
  PROVE  RunsOK'
  <1> DEFINE r == [run[w] EXCEPT !.pc = label]
  <1>1. run[w] \in Run /\ RunOK(run[w], att, work, made)
    BY DEF QueueInv, RunsOK
  <1>2. r \in Run /\ r.pc = label /\ r.batch = run[w].batch /\ r.att = run[w].att
    BY <1>1 DEF Run
  <1>3. RunOK(r, att', work', made')
    BY <1>1, <1>2 DEF RunOK, Stays, Evolves, HoldsAttempt
  <1>4. run' = [run EXCEPT ![w] = r]
    BY DEF Goto
  <1> HIDE DEF r
  <1> QED
    BY <1>2, <1>3, <1>4, OneRuns

(* A dispatch that returns COMPLETED leaves the head with a session.        *)
LEMMA RunReturns ==
  ASSUME QueueInv, Stays, NEW w \in Worker, run[w].pc \notin {"idle", "claim"},
         NEW result \in Result, Returns(w, result),
         result = "COMPLETED" => work'[Head(w)].session # None
  PROVE  RunsOK'
  <1> DEFINE r == [run[w] EXCEPT !.pc = "finish", !.result = result]
  <1>1. run[w] \in Run /\ RunOK(run[w], att, work, made)
    BY DEF QueueInv, RunsOK
  <1>2. r \in Run /\ r.pc = "finish" /\ r.batch = run[w].batch /\ r.result = result
    BY <1>1 DEF Run, Label
  <1>3. RunOK(r, att', work', made')
    BY <1>1, <1>2, NullResultAssumption DEF RunOK, HoldsAttempt, Head
  <1>4. run' = [run EXCEPT ![w] = r]
    BY DEF Returns
  <1> HIDE DEF r
  <1> QED
    BY <1>2, <1>3, <1>4, OneRuns

LEMMA RunsStep ==
  ASSUME QueueInv, Next, Stays
  PROVE  RunsOK'
  <1>1. ASSUME NEW w \in Worker, Requeue(w) PROVE RunsOK'
    <2> DEFINE r == [run[w] EXCEPT !.pc = "claim"]
    <2>1. run[w] \in Run
      BY DEF QueueInv, RunsOK
    <2>2. r \in Run /\ r.pc = "claim"
      BY <2>1 DEF Run, Label
    <2>3. RunOK(r, att', work', made')
      BY <2>2 DEF RunOK, HoldsAttempt
    <2>4. run' = [run EXCEPT ![w] = r]
      BY <1>1 DEF Requeue, Goto
    <2> HIDE DEF r
    <2> QED
      BY <2>2, <2>3, <2>4, OneRuns
  <1>2. ASSUME NEW w \in Worker, Claim(w) PROVE RunsOK'
    <2>1. CASE End(w)
      BY <2>1, RunEnds
    <2>2. ASSUME NEW batch \in SUBSET Key, batch # {},
                 run' = [run EXCEPT ![w].pc = "item", ![w].batch = batch]
          PROVE  RunsOK'
      <3> DEFINE r == [run[w] EXCEPT !.pc = "item", !.batch = batch]
      <3>1. run[w] \in Run
        BY DEF QueueInv, RunsOK
      <3>2. r \in Run /\ r.pc = "item" /\ r.batch = batch
        BY <3>1 DEF Run, Label
      <3>3. RunOK(r, att', work', made')
        BY <2>2, <3>2 DEF RunOK, HoldsAttempt
      <3>4. run' = [run EXCEPT ![w] = r]
        BY <2>2
      <3> HIDE DEF r
      <3> QED
        BY <3>2, <3>3, <3>4, OneRuns
    <2> QED
      BY <1>2, <2>1, <2>2 DEF Claim, InState
  <1>3. ASSUME NEW w \in Worker, Item(w) \/ Finish(w) PROVE RunsOK'
    <2>1. run[w].pc \in {"item", "finish"}
      BY <1>3 DEF Item, Finish, At
    <2>2. ASSUME NEW k, NEW result, FinishCandidate(w, k, result) PROVE RunsOK'
      BY <2>2, RunEnds, RunAdvances DEF FinishCandidate
    <2>3. CASE Goto(w, "lookup")
      BY <2>1, <2>3, RunGoes DEF Label, HoldsAttempt
    <2> QED
      BY <1>3, <2>2, <2>3 DEF Item, Finish
  <1>4. ASSUME NEW w \in Worker, Release(w) \/ Crash(w) PROVE RunsOK'
    BY <1>4, RunEnds DEF Release, Crash
  <1>5. ASSUME NEW w \in Worker, Lookup(w) PROVE RunsOK'
    <2>1. run[w].pc = "lookup" /\ Head(w) \in Key
      BY <1>5, HeadIsCandidate DEF Lookup, At, QueueInv
    <2>2. CASE \E label \in {"reserve", "release"} : Goto(w, label)
      BY <2>1, <2>2, RunGoes DEF Label, HoldsAttempt
    <2>3. CASE Returns(w, "FAILED")
      BY <2>1, <2>3, RunReturns DEF Result
    <2>4. CASE work[Head(w)].session # None /\ Returns(w, "COMPLETED")
      BY <2>1, <2>4, RunReturns DEF Result, Stays, OwnersStay
    <2>5. CASE /\ HasWork(Head(w))
               /\ run' = [run EXCEPT ![w].att = work[Head(w)].attempt,
                            ![w].pc = IF work[Head(w)].status = "RESERVED"
                                      THEN "send" ELSE "recon"]
      <3> DEFINE label == IF work[Head(w)].status = "RESERVED" THEN "send" ELSE "recon"
                 r == [run[w] EXCEPT !.att = work[Head(w)].attempt, !.pc = label]
      <3>1. run[w] \in Run /\ run[w].batch # {}
        BY <2>1 DEF QueueInv, RunsOK, RunOK
      <3>2. /\ work[Head(w)].attempt \in Attempt
            /\ att[work[Head(w)].attempt].state # "ABSENT"
            /\ att[work[Head(w)].attempt].key = Head(w)
        BY <2>1, <2>5 DEF QueueInv, LedgerInv, WorkMirrorsAttempt
      <3>3. /\ r \in Run /\ r.pc \in {"send", "recon"} /\ r.batch = run[w].batch
            /\ r.att = work[Head(w)].attempt
        BY <3>1, <3>2 DEF Run, Label
      <3>4. RunOK(r, att', work', made')
        BY <3>1, <3>2, <3>3 DEF RunOK, Stays, Evolves, Head
      <3>5. run' = [run EXCEPT ![w] = r]
        BY <2>5
      <3> HIDE DEF r, label
      <3> QED
        BY <3>3, <3>4, <3>5, OneRuns
    <2> QED
      BY <1>5, <2>2, <2>3, <2>4, <2>5 DEF Lookup
  <1>6. ASSUME NEW w \in Worker, Reserve(w) PROVE RunsOK'
    <2>1. run[w].pc = "reserve" /\ Head(w) \in Key
      BY <1>6, HeadIsCandidate DEF Reserve, At, QueueInv
    <2>2. CASE Goto(w, "release")
      BY <2>1, <2>2, RunGoes DEF Label, HoldsAttempt
    <2>3. CASE work[Head(w)].session # None /\ Returns(w, "COMPLETED")
      BY <2>1, <2>3, RunReturns DEF Result, Stays, OwnersStay
    <2>4. ASSUME NEW a \in Attempt, att'[a].state # "ABSENT", att'[a].key = Head(w),
                 NEW label \in {"send", "recon"},
                 run' = [run EXCEPT ![w].pc = label, ![w].att = a]
          PROVE  RunsOK'
      <3> DEFINE r == [run[w] EXCEPT !.pc = label, !.att = a]
      <3>1. run[w] \in Run /\ run[w].batch # {}
        BY <2>1 DEF QueueInv, RunsOK, RunOK
      <3>2. r \in Run /\ r.pc = label /\ r.batch = run[w].batch /\ r.att = a
        BY <3>1 DEF Run, Label
      <3>3. RunOK(r, att', work', made')
        BY <2>4, <3>1, <3>2 DEF RunOK, Head
      <3>4. run' = [run EXCEPT ![w] = r]
        BY <2>4
      <3> HIDE DEF r
      <3> QED
        BY <3>2, <3>3, <3>4, OneRuns
    <2>5. CASE /\ HasWork(Head(w)) /\ UNCHANGED ledgerVars
               /\ run' = [run EXCEPT ![w].pc = "recon", ![w].att = work[Head(w)].attempt]
      <3>1. /\ work[Head(w)].attempt \in Attempt
            /\ att[work[Head(w)].attempt].state # "ABSENT"
            /\ att[work[Head(w)].attempt].key = Head(w)
        BY <2>1, <2>5 DEF QueueInv, LedgerInv, WorkMirrorsAttempt
      <3>2. att' = att
        BY <2>5 DEF ledgerVars
      <3> QED
        BY <2>4, <2>5, <3>1, <3>2
    <2>6. ASSUME NEW a \in Attempt, NEW sh \in Shape, InsertReservation(Head(w), sh, a, {}),
                 run' = [run EXCEPT ![w].pc = "send", ![w].att = a]
          PROVE  RunsOK'
      <3>1. att'[a].state # "ABSENT" /\ att'[a].key = Head(w)
        BY <2>6 DEF InsertReservation, QueueInv, LedgerInv, LedgerTypeOK
      <3> QED
        BY <2>4, <2>6, <3>1
    <2> QED
      BY <1>6, <2>2, <2>3, <2>5, <2>6 DEF Reserve
  <1>7. ASSUME NEW w \in Worker, Send(w) PROVE RunsOK'
    <2>1. run[w].pc = "send"
      BY <1>7 DEF Send, At
    <2>2. CASE \E label \in {"post", "release"} : Goto(w, label)
      BY <2>1, <2>2, RunGoes DEF Label, HoldsAttempt
    <2>3. CASE Returns(w, "FAILED")
      BY <2>1, <2>3, RunReturns DEF Result
    <2> QED
      BY <1>7, <2>2, <2>3 DEF Send
  <1>8. ASSUME NEW w \in Worker, Posting(w) PROVE RunsOK'
    <2>1. PICK label \in {"bind", "rejected", "uncertain"} :
            Goto(w, label) /\ (label = "bind" => Make(run[w].att))
      BY <1>8, PostDoes
    <2>2. run[w].pc = "post" /\ run[w].att \in Attempt
      BY <1>8, PostDoes, PosterHolds
    <2>3. label = "bind" => made'[run[w].att] # None
      BY <2>1, <2>2, MakeOne DEF QueueInv
    <2> QED
      BY <2>1, <2>2, <2>3, RunGoes DEF Label, HoldsAttempt
  <1>9. ASSUME NEW w \in Worker, MarkRejected(w) \/ MarkIndeterminate(w) PROVE RunsOK'
    <2>1. run[w].pc \in {"rejected", "none"}
      BY <1>9 DEF MarkRejected, MarkIndeterminate, At
    <2>2. \E result \in {"FAILED", "INDETERMINATE"} : Returns(w, result)
      BY <1>9 DEF MarkRejected, MarkIndeterminate
    <2> QED
      BY <2>1, <2>2, RunReturns DEF Result
  <1>10. ASSUME NEW w \in Worker, MarkReconciling(w) PROVE RunsOK'
    BY <1>10, RunGoes DEF MarkReconciling, At, Label, HoldsAttempt
  <1>11. ASSUME NEW w \in Worker, Bind(w) PROVE RunsOK'
    <2>1. /\ run[w].pc = "bind" /\ Head(w) \in Key /\ made[run[w].att] # None
          /\ Known(run[w].att) /\ att[run[w].att].key = Head(w)
      BY <1>11, HeadIsCandidate, AttemptOfHead
      DEF Bind, At, QueueInv, RunsOK, RunOK, HoldsAttempt
    <2>2. CASE Returns(w, "FAILED")
      BY <2>1, <2>2, RunReturns DEF Result
    <2>3. CASE /\ BindSession(run[w].att, made[run[w].att], "CONFIRMED")
               /\ Returns(w, "COMPLETED")
      <3>1. work'[Head(w)].session # None
        BY <2>1, <2>3 DEF BindSession, QueueInv, LedgerInv, LedgerTypeOK, WorkRow
      <3> QED
        BY <2>1, <2>3, <3>1, RunReturns DEF Result
    <2> QED
      BY <1>11, <2>2, <2>3 DEF Bind
  <1>12. ASSUME NEW w \in Worker, ReadAttempt(w) PROVE RunsOK'
    <2>1. /\ run[w].pc = "recon" /\ Head(w) \in Key
          /\ Known(run[w].att) /\ att[run[w].att].key = Head(w)
      BY <1>12, HeadIsCandidate, AttemptOfHead DEF ReadAttempt, At, QueueInv, HoldsAttempt
    <2>2. CASE Goto(w, "scan")
      BY <2>1, <2>2, RunGoes DEF Label, HoldsAttempt
    <2>3. CASE Returns(w, "FAILED")
      BY <2>1, <2>3, RunReturns DEF Result
    <2>4. CASE att[run[w].att].session # None /\ Returns(w, "COMPLETED")
      <3>1. work[Head(w)].session # None
        BY <2>1, <2>4 DEF Known, QueueInv, LedgerInv, WorkMirrorsAttempt
      <3> QED
        BY <2>1, <2>4, <3>1, RunReturns DEF Result, Stays, OwnersStay
    <2> QED
      BY <1>12, <2>2, <2>3, <2>4 DEF ReadAttempt
  <1>13. ASSUME NEW w \in Worker, Scan(w) PROVE RunsOK'
    <2>1. run[w].pc = "scan" /\ Known(run[w].att)
      BY <1>13, AttemptOfHead DEF Scan, At, QueueInv, HoldsAttempt
    <2>2. CASE made[run[w].att] # None /\ Goto(w, "bind")
      BY <2>1, <2>2, RunGoes DEF Label, HoldsAttempt, Stays, MadeStays, Known
    <2>3. CASE Goto(w, "none")
      BY <2>1, <2>3, RunGoes DEF Label, HoldsAttempt
    <2>4. CASE Returns(w, "FAILED")
      BY <2>1, <2>4, RunReturns DEF Result
    <2> QED
      BY <1>13, <2>2, <2>3, <2>4 DEF Scan
  <1>14. ASSUME \/ \E k \in Key : Enqueue(k) \/ ClaimAges(k) \/ Expire(k)
                \/ \E value \in BOOLEAN : Fence(value)
                \/ \E a \in Attempt : CreateLate(a)
         PROVE  RunsOK'
    BY <1>14, NoneRuns DEF Enqueue, ClaimAges, Expire, Fence, CreateLate
  <1> QED
    BY <1>1, <1>2, <1>3, <1>4, <1>5, <1>6, <1>7, <1>8, <1>9, <1>10, <1>11, <1>12, <1>13,
       <1>14 DEF Next, Step, Posting

-----------------------------------------------------------------------------
(* How a step changes the rows of the queue: a row with a result stays, and *)
(* a row becomes COMPLETED only when its key answers with a session.        *)
RowStays(k) ==
    \/ row'[k] = row[k]
    \/ /\ row[k].state \notin Result
       /\ row'[k] \in Row
       /\ row'[k].state = "COMPLETED" => work[k].session # None

LEMMA OneRowSet ==
  ASSUME RowsOK, NEW k \in Key, row[k].state \notin Result,
         NEW state \in {"PENDING", "CLAIMED"} \cup Result,
         Set(k, state), state = "COMPLETED" => work[k].session # None
  PROVE  row' \in [Key -> Row] /\ \A j \in Key : RowStays(j)
  BY DEF RowsOK, Set, RowStays, Row

LEMMA ClaimedIsNoResult == "CLAIMED" \notin Result /\ "PENDING" \notin Result
                             /\ "ABSENT" \notin Result
  BY DEF Result

LEMMA RowsStep ==
  ASSUME QueueInv, Next
  PROVE  RowsOK' /\ \A k \in Key : RowStays(k)
  <1>1. RowsOK
    BY DEF QueueInv
  <1>2. CASE UNCHANGED queueVars
    BY <1>1, <1>2 DEF queueVars, RowsOK, RowStays
  <1>3. ASSUME row' \in [Key -> Row], \A k \in Key : RowStays(k), expired' = expired
        PROVE  RowsOK' /\ \A k \in Key : RowStays(k)
    BY <1>1, <1>3 DEF RowsOK
  <1>4. ASSUME NEW k \in Key, Enqueue(k)
        PROVE  RowsOK' /\ \A j \in Key : RowStays(j)
    BY <1>1, <1>3, <1>4, OneRowSet, ClaimedIsNoResult DEF Enqueue, Result
  <1>5. ASSUME NEW k \in Key, ClaimAges(k)
        PROVE  RowsOK' /\ \A j \in Key : RowStays(j)
    <2>1. row[k] \in Row /\ row[k].state = "CLAIMED"
      BY <1>1, <1>5 DEF RowsOK, ClaimAges
    <2>2. [row[k] EXCEPT !.stale = TRUE] \in Row
      BY <2>1 DEF Row
    <2>3. [row[k] EXCEPT !.stale = TRUE].state = "CLAIMED"
      BY <2>1 DEF Row
    <2>4. row' = [row EXCEPT ![k] = [row[k] EXCEPT !.stale = TRUE]]
      BY <1>5 DEF ClaimAges
    <2>5. row' \in [Key -> Row]
      BY <1>1, <2>2, <2>4 DEF RowsOK
    <2>6. \A j \in Key : RowStays(j)
      BY <1>1, <2>1, <2>2, <2>3, <2>4, ClaimedIsNoResult DEF RowsOK, RowStays
    <2> QED
      BY <1>3, <1>5, <2>5, <2>6 DEF ClaimAges
  <1>6. ASSUME NEW k \in Key, Expire(k)
        PROVE  RowsOK' /\ \A j \in Key : RowStays(j)
    BY <1>1, <1>6 DEF Expire, RowsOK, RowStays
  <1>7. ASSUME NEW w \in Worker, Requeue(w)
        PROVE  RowsOK' /\ \A j \in Key : RowStays(j)
    <2>1. row' \in [Key -> Row] /\ \A j \in Key : RowStays(j)
      BY <1>1, <1>7, ClaimedIsNoResult DEF Requeue, RowsOK, RowStays, Row
    <2> QED
      BY <1>3, <1>7, <2>1 DEF Requeue
  <1>8. ASSUME NEW w \in Worker, Claim(w)
        PROVE  RowsOK' /\ \A j \in Key : RowStays(j)
    <2>1. CASE UNCHANGED row
      BY <1>1, <1>3, <1>8, <2>1 DEF Claim, RowsOK, RowStays
    <2>2. ASSUME NEW oldest \in SUBSET InState("PENDING"),
                 row' = [k \in Key |-> IF k \in oldest
                                       THEN [state |-> "CLAIMED", stale |-> FALSE]
                                       ELSE row[k]]
          PROVE  row' \in [Key -> Row] /\ \A j \in Key : RowStays(j)
      BY <1>1, <2>2, ClaimedIsNoResult DEF InState, RowsOK, RowStays, Row
    <2> QED
      BY <1>3, <1>8, <2>1, <2>2 DEF Claim
  <1>9. ASSUME NEW w \in Worker, run[w].pc \notin {"idle", "claim"}, NEW result \in Result,
               FinishCandidate(w, Head(w), result), expired' = expired,
               result = "COMPLETED" => work[Head(w)].session # None
        PROVE  RowsOK' /\ \A j \in Key : RowStays(j)
    <2>1. Head(w) \in Key
      BY <1>9, HeadIsCandidate DEF QueueInv
    <2>2. CASE UNCHANGED row
      BY <1>1, <1>3, <1>9, <2>2 DEF RowsOK, RowStays
    <2>3. CASE row[Head(w)].state = "CLAIMED" /\ Set(Head(w), result)
      BY <1>1, <1>3, <1>9, <2>1, <2>3, OneRowSet, ClaimedIsNoResult
    <2> QED
      BY <1>9, <2>2, <2>3 DEF FinishCandidate
  <1>10. ASSUME NEW w \in Worker, Item(w)
         PROVE  RowsOK' /\ \A j \in Key : RowStays(j)
    <2>1. run[w].pc \notin {"idle", "claim"} /\ expired' = expired
      BY <1>10 DEF Item, At
    <2>2. CASE UNCHANGED row
      BY <1>1, <1>3, <2>1, <2>2 DEF RowsOK, RowStays
    <2>3. CASE \E result \in {"FAILED", "EXPIRED", "REJECTED_POLICY"} :
                 FinishCandidate(w, Head(w), result)
      BY <1>9, <2>1, <2>3 DEF Result
    <2> QED
      BY <1>10, <2>2, <2>3 DEF Item
  <1>11. ASSUME NEW w \in Worker, Finish(w)
         PROVE  RowsOK' /\ \A j \in Key : RowStays(j)
    <2>1. run[w].pc = "finish" /\ expired' = expired
          /\ FinishCandidate(w, Head(w), run[w].result)
      BY <1>11 DEF Finish, At
    <2>2. run[w].result \in Result
          /\ (run[w].result = "COMPLETED" => work[Head(w)].session # None)
      BY <2>1 DEF QueueInv, RunsOK, RunOK, Run, Head
    <2> QED
      BY <1>9, <2>1, <2>2
  <1>12. ASSUME NEW w \in Worker, Release(w)
         PROVE  RowsOK' /\ \A j \in Key : RowStays(j)
    <2>1. Head(w) \in Key
      BY <1>12, HeadIsCandidate DEF Release, At, QueueInv
    <2>2. CASE UNCHANGED row
      BY <1>1, <1>3, <1>12, <2>2 DEF Release, RowsOK, RowStays
    <2>3. CASE row[Head(w)].state = "CLAIMED" /\ Set(Head(w), "PENDING")
      BY <1>1, <1>3, <1>12, <2>1, <2>3, OneRowSet, ClaimedIsNoResult DEF Release, Result
    <2> QED
      BY <1>12, <2>2, <2>3 DEF Release, ReleaseCandidate
  <1>13. ASSUME NEW w \in Worker,
                \/ Lookup(w) \/ Reserve(w) \/ Send(w) \/ PostAnswered(w)
                \/ PostRejected(w) \/ PostUncertain(w) \/ MarkRejected(w)
                \/ MarkReconciling(w) \/ Bind(w) \/ ReadAttempt(w) \/ Scan(w)
                \/ MarkIndeterminate(w) \/ Crash(w)
         PROVE  UNCHANGED queueVars
    BY <1>13
    DEF Lookup, Reserve, Send, PostAnswered, PostRejected, PostUncertain, MarkRejected,
        MarkReconciling, Bind, ReadAttempt, Scan, MarkIndeterminate, Crash
  <1>14. ASSUME \/ \E value \in BOOLEAN : Fence(value)
                \/ \E a \in Attempt : CreateLate(a)
         PROVE  UNCHANGED queueVars
    BY <1>14 DEF Fence, CreateLate
  <1> QED
    BY <1>2, <1>4, <1>5, <1>6, <1>7, <1>8, <1>10, <1>11, <1>12, <1>13, <1>14 DEF Next, Step

LEMMA CompletedStep ==
  ASSUME QueueInv, Next, OwnersStay
  PROVE  CompletedIsBound'
  BY RowsStep DEF QueueInv, CompletedIsBound, RowStays, OwnersStay, Result

LEMMA NoWorkStep ==
  ASSUME QueueInv, Next, Evolves
  PROVE  NoWorkNoSession'
  <1>1. CASE KeepsOwners
    BY <1>1 DEF QueueInv, KeepsOwners, NoWorkNoSession, Evolves
  <1>2. ASSUME NEW w \in Worker, Binds(w) PROVE NoWorkNoSession'
    <2>1. run[w].att \in Attempt /\ att[run[w].att].state # "ABSENT"
          /\ att[run[w].att].key = Head(w)
      BY <1>2, AttemptOfHead DEF Binds, HoldsAttempt, QueueInv, Known
    <2>2. HasWork(Head(w))
      BY <2>1 DEF QueueInv, LedgerInv, WorkMirrorsAttempt, HasWork
    <2> QED
      BY <1>2, <2>2 DEF QueueInv, Binds, NoWorkNoSession, Evolves
  <1> QED
    BY <1>1, <1>2, OwnerSteps

-----------------------------------------------------------------------------
(* Only begin_send brings a worker to the POST.                             *)
NoArrival ==
    \A v \in Worker : At(v, "post")' => At(v, "post") /\ UNCHANGED (run[v].att)

LEMMA LabelsReached ==
  ASSUME RunsOK, NEW w \in Worker
  PROVE  /\ End(w) => ~At(w, "post")' /\ NoArrival
         /\ NextItem(w) => ~At(w, "post")' /\ NoArrival
         /\ \A result : Returns(w, result) => ~At(w, "post")' /\ NoArrival
         /\ \A label \in Label \ {"post"} : Goto(w, label) => ~At(w, "post")' /\ NoArrival
  <1>1. run \in [Worker -> Run] /\ run[w] \in Run
    BY DEF RunsOK
  <1>2. ASSUME NEW r, r.pc # "post", run' = [run EXCEPT ![w] = r]
        PROVE  ~At(w, "post")' /\ NoArrival
    BY <1>1, <1>2 DEF NoArrival, At
  <1>3. End(w) => ~At(w, "post")' /\ NoArrival
    BY <1>2 DEF End, NoRun
  <1>4. NextItem(w) => ~At(w, "post")' /\ NoArrival
    <2> DEFINE r == [NoRun EXCEPT !.pc = "item",
                                  !.batch = run[w].batch \ {Oldest(run[w].batch)}]
    <2>1. r.pc = "item"
      BY DEF NoRun
    <2> HIDE DEF r
    <2>2. run' = [run EXCEPT ![w] = r] => ~At(w, "post")' /\ NoArrival
      BY <1>2, <2>1
    <2> QED
      BY <1>3, <2>2 DEF NextItem, r
  <1>5. ASSUME NEW result, Returns(w, result) PROVE ~At(w, "post")' /\ NoArrival
    <2> DEFINE r == [run[w] EXCEPT !.pc = "finish", !.result = result]
    <2>1. r.pc = "finish" /\ run' = [run EXCEPT ![w] = r]
      BY <1>1, <1>5 DEF Returns, Run
    <2> HIDE DEF r
    <2> QED
      BY <1>2, <2>1
  <1>6. ASSUME NEW label \in Label \ {"post"}, Goto(w, label)
        PROVE  ~At(w, "post")' /\ NoArrival
    <2> DEFINE r == [run[w] EXCEPT !.pc = label]
    <2>1. r.pc = label /\ run' = [run EXCEPT ![w] = r]
      BY <1>1, <1>6 DEF Goto, Run
    <2> HIDE DEF r
    <2> QED
      BY <1>2, <2>1
  <1> QED
    BY <1>3, <1>4, <1>5, <1>6

LEMMA ArrivalOnlyBySend ==
  ASSUME QueueInv, NEW w \in Worker,
         \/ Requeue(w) \/ Claim(w) \/ Item(w) \/ Finish(w) \/ Release(w) \/ Lookup(w)
         \/ Reserve(w) \/ Posting(w) \/ MarkRejected(w) \/ MarkReconciling(w) \/ Bind(w)
         \/ ReadAttempt(w) \/ Scan(w) \/ MarkIndeterminate(w) \/ Crash(w)
  PROVE  ~At(w, "post")' /\ NoArrival
  <1>1. RunsOK /\ run \in [Worker -> Run] /\ run[w] \in Run
    BY DEF QueueInv, RunsOK
  <1> DEFINE labels == {"claim", "lookup", "release", "reserve", "bind", "rejected",
                        "uncertain", "recon", "scan", "none"}
  <1>2. labels \subseteq Label \ {"post"}
    BY DEF Label
  <1> HIDE DEF labels
  <1>3. CASE \E label \in labels : Goto(w, label)
    BY <1>1, <1>2, <1>3, LabelsReached
  <1>4. CASE End(w) \/ NextItem(w) \/ \E result : Returns(w, result)
    BY <1>1, <1>4, LabelsReached
  <1>5. ASSUME NEW batch, run' = [run EXCEPT ![w].pc = "item", ![w].batch = batch]
        PROVE  ~At(w, "post")' /\ NoArrival
    <2>1. run'[w].pc = "item" /\ \A v \in Worker \ {w} : run'[v] = run[v]
      BY <1>1, <1>5 DEF Run
    <2> QED
      BY <2>1 DEF NoArrival, At
  <1>6. CASE Lookup(w)
    <2>1. CASE \/ Goto(w, "reserve") \/ Goto(w, "release")
               \/ Returns(w, "FAILED") \/ Returns(w, "COMPLETED")
      BY <1>3, <1>4, <2>1 DEF labels
    <2>2. CASE run' = [run EXCEPT ![w].att = work[Head(w)].attempt,
                         ![w].pc = IF work[Head(w)].status = "RESERVED"
                                   THEN "send" ELSE "recon"]
      <3> DEFINE label == IF work[Head(w)].status = "RESERVED" THEN "send" ELSE "recon"
                 r == [run[w] EXCEPT !.att = work[Head(w)].attempt, !.pc = label]
      <3>1. r.pc = label /\ label # "post" /\ run' = [run EXCEPT ![w] = r]
        BY <1>1, <2>2 DEF Run
      <3> HIDE DEF r, label
      <3>2. run'[w].pc # "post" /\ \A v \in Worker \ {w} : run'[v] = run[v]
        BY <1>1, <3>1
      <3> QED
        BY <3>2 DEF NoArrival, At
    <2> QED
      BY <1>6, <2>1, <2>2 DEF Lookup
  <1>7. CASE Reserve(w)
    <2>1. CASE Goto(w, "release") \/ Returns(w, "COMPLETED")
      BY <1>3, <1>4, <2>1 DEF labels
    <2>2. ASSUME NEW a, NEW label \in {"send", "recon"},
                 run' = [run EXCEPT ![w].pc = label, ![w].att = a]
          PROVE  ~At(w, "post")' /\ NoArrival
      <3> DEFINE r == [run[w] EXCEPT !.pc = label, !.att = a]
      <3>1. r.pc = label /\ run' = [run EXCEPT ![w] = r]
        BY <1>1, <2>2 DEF Run
      <3> HIDE DEF r
      <3>2. run'[w].pc # "post" /\ \A v \in Worker \ {w} : run'[v] = run[v]
        BY <1>1, <3>1
      <3> QED
        BY <3>2 DEF NoArrival, At
    <2> QED
      BY <1>7, <2>1, <2>2 DEF Reserve
  <1>8. CASE Posting(w)
    BY <1>3, <1>8, PostDoes DEF labels
  <1>9. CASE Claim(w)
    BY <1>4, <1>5, <1>9 DEF Claim
  <1>10. CASE Item(w)
    BY <1>3, <1>4, <1>10 DEF Item, FinishCandidate, labels
  <1>11. CASE Finish(w) \/ Release(w) \/ Crash(w)
    BY <1>4, <1>11 DEF Finish, FinishCandidate, Release, Crash
  <1>12. CASE Requeue(w) \/ MarkReconciling(w)
    BY <1>3, <1>12 DEF Requeue, MarkReconciling, labels
  <1>13. CASE MarkRejected(w) \/ MarkIndeterminate(w) \/ Bind(w)
    BY <1>4, <1>13 DEF MarkRejected, MarkIndeterminate, Bind
  <1>14. CASE ReadAttempt(w)
    BY <1>3, <1>4, <1>14 DEF ReadAttempt, labels
  <1>15. CASE Scan(w)
    BY <1>3, <1>4, <1>15 DEF Scan, labels
  <1> QED
    BY <1>6, <1>7, <1>8, <1>9, <1>10, <1>11, <1>12, <1>13, <1>14, <1>15

(* The tables, in every step but begin_send: nothing becomes transmitted,   *)
(* and an attempt enters the table under a key that never sent.             *)
Untransmitted ==
    /\ \A a \in Attempt : Transmitted(a)' => Transmitted(a)
    /\ \A a \in Attempt : att[a].state = "ABSENT" /\ att'[a].state # "ABSENT"
                            => posts[att'[a].key] = 0

LEMMA UntransmittedSteps ==
  ASSUME QueueInv
  PROVE  /\ \A w \in Worker : Reserve(w) => Untransmitted
         /\ \A w \in Worker : MarkRejected(w) \/ MarkReconciling(w) \/ MarkIndeterminate(w)
                                \/ Bind(w) => Untransmitted
         /\ \A value \in BOOLEAN : Fence(value) => Untransmitted
         /\ UNCHANGED att => Untransmitted
  <1>1. att \in [Attempt -> AttemptRow]
    BY DEF QueueInv, LedgerInv, LedgerTypeOK
  <1>2. UNCHANGED att => Untransmitted
    BY DEF Untransmitted, Transmitted
  <1>3. ASSUME NEW w \in Worker, Reserve(w) PROVE Untransmitted
    <2> DEFINE k == Head(w)
    <2>1. k \in Key
      BY <1>3, HeadIsCandidate DEF Reserve, At, QueueInv
    <2>2. ASSUME NEW a \in Attempt, NEW sh, ~HasWork(k), InsertReservation(k, sh, a, {})
          PROVE  Untransmitted
      <3> DEFINE item == [key |-> k, shape |-> sh, state |-> "RESERVED",
                          gen |-> generation, baseline |-> {}, session |-> None,
                          sent |-> "never", early |-> {}]
      <3>1. att' = [att EXCEPT ![a] = item] /\ item.sent = "never" /\ item.key = k
        BY <2>2 DEF InsertReservation
      <3>2. posts[k] = 0
        BY <2>1, <2>2 DEF QueueInv, PostsOK
      <3> HIDE DEF item, k
      <3> QED
        BY <1>1, <3>1, <3>2 DEF Untransmitted, Transmitted
    <2>3. CASE UNCHANGED ledgerVars
      BY <1>2, <2>3 DEF ledgerVars
    <2> QED
      BY <1>3, <2>2, <2>3 DEF Reserve
  <1>4. ASSUME NEW a, Known(a), NEW state, MarkAttemptError(a, state)
        PROVE  Untransmitted
    <2> DEFINE item == [att[a] EXCEPT !.state = state]
    <2>1. att' = [att EXCEPT ![a] = item] /\ item.sent = att[a].sent
      BY <1>1, <1>4 DEF MarkAttemptError, Known, AttemptRow
    <2> HIDE DEF item
    <2> QED
      BY <1>1, <1>4, <2>1 DEF Untransmitted, Transmitted, Known
  <1>5. ASSUME NEW a, Known(a), NEW s, NEW state, BindSession(a, s, state)
        PROVE  Untransmitted
    <2> DEFINE item == [att[a] EXCEPT !.state = state, !.session = s]
    <2>1. att' = [att EXCEPT ![a] = item] /\ item.sent = att[a].sent
      BY <1>1, <1>5 DEF BindSession, Known, AttemptRow
    <2> HIDE DEF item
    <2> QED
      BY <1>1, <1>5, <2>1 DEF Untransmitted, Transmitted, Known
  <1>6. ASSUME NEW w \in Worker,
               MarkRejected(w) \/ MarkReconciling(w) \/ MarkIndeterminate(w) \/ Bind(w)
        PROVE  Untransmitted
    <2>1. Known(run[w].att)
      BY <1>6, AttemptOfHead
      DEF MarkRejected, MarkReconciling, MarkIndeterminate, Bind, At, QueueInv, HoldsAttempt
    <2>2. \/ \E state : MarkAttemptError(run[w].att, state)
          \/ \E s, state : BindSession(run[w].att, s, state)
          \/ UNCHANGED att
      BY <1>6 DEF MarkRejected, MarkReconciling, MarkIndeterminate, Bind, ledgerVars
    <2> QED
      BY <1>2, <1>4, <1>5, <2>1, <2>2
  <1>7. ASSUME NEW value \in BOOLEAN, Fence(value) PROVE Untransmitted
    <2> DEFINE c == {a \in Attempt : value /\ att[a].state = "RESERVED"}
    <2>1. att' = [a \in Attempt |-> IF a \in c
                                   THEN [att[a] EXCEPT !.state = "CANCELLED_LOCAL"]
                                   ELSE att[a]]
      BY <1>7 DEF Fence, SetFrozen
    <2>2. \A a \in c : att[a].state = "RESERVED"
      OBVIOUS
    <2> HIDE DEF c
    <2>3. \A a \in Attempt : att'[a].sent = att[a].sent
      BY <1>1, <2>1 DEF AttemptRow
    <2>4. \A a \in Attempt : att[a].state = "ABSENT" => att'[a] = att[a]
      BY <2>1, <2>2
    <2> QED
      BY <2>3, <2>4 DEF Untransmitted, Transmitted
  <1> QED
    BY <1>2, <1>3, <1>6, <1>7

LEMMA QuietPosts ==
  ASSUME QueueInv, Evolves, UNCHANGED posts, Untransmitted, NoArrival
  PROVE  PostsOK'
  <1>1. \A k \in Key : (posts[k] \in {0, 1} /\ (~HasWork(k) => posts[k] = 0))'
    BY DEF QueueInv, PostsOK, Evolves
  <1>2. \A a \in Attempt : (att[a].state # "ABSENT" /\ ~Transmitted(a)
                               => posts[att[a].key] = 0)'
    <2> SUFFICES ASSUME NEW a \in Attempt, att'[a].state # "ABSENT", ~Transmitted(a)'
                 PROVE  posts[att'[a].key] = 0
      OBVIOUS
    <2>1. ~Transmitted(a)
      BY DEF Evolves
    <2>2. CASE att[a].state = "ABSENT"
      BY <2>2 DEF Untransmitted
    <2>3. CASE att[a].state # "ABSENT"
      BY <2>1, <2>3 DEF Evolves, QueueInv, PostsOK
    <2> QED
      BY <2>2, <2>3
  <1>3. ASSUME NEW v \in Worker, At(v, "post")'
        PROVE  (Transmitted(run[v].att) /\ posts[att[run[v].att].key] = 0)'
    <2>1. At(v, "post") /\ run'[v].att = run[v].att
      BY <1>3 DEF NoArrival
    <2>2. Known(run[v].att)
      BY <2>1, AttemptOfHead DEF At, HoldsAttempt, QueueInv
    <2>3. Transmitted(run[v].att) /\ posts[att[run[v].att].key] = 0
      BY <2>1 DEF QueueInv, PostsOK
    <2>4. Transmitted(run[v].att)' /\ att'[run[v].att].key = att[run[v].att].key
      <3>1. \A a \in Attempt : Transmitted(a) => att'[a].sent # "never"
        BY DEF Evolves, Transmitted
      <3>2. att'[run[v].att].sent # "never"
        BY <2>2, <2>3, <3>1 DEF Known
      <3>3. att'[run[v].att].key = att[run[v].att].key
        BY <2>2 DEF Known, Evolves
      <3> QED
        BY <2>1, <3>2, <3>3 DEF Transmitted
    <2> QED
      BY <2>1, <2>3, <2>4
  <1>4. \A v, w \in Worker : (At(v, "post") /\ At(w, "post")
                                 /\ run[v].att = run[w].att => v = w)'
    BY DEF NoArrival, QueueInv, PostsOK
  <1> QED
    BY <1>1, <1>2, <1>3, <1>4 DEF PostsOK

(* begin_send puts one worker, of an attempt nobody sent, before the POST.  *)
LEMMA SendPosts ==
  ASSUME QueueInv, Evolves, NEW w \in Worker, UNCHANGED posts,
         CanBeginSend(run[w].att), BeginSend(run[w].att, {}), Goto(w, "post"),
         Known(run[w].att)
  PROVE  PostsOK'
  <1> DEFINE a == run[w].att
  <1>1. ~Transmitted(a) /\ posts[att[a].key] = 0
    BY DEF CanBeginSend, QueueInv, LedgerInv, ReservedIsUnsent, PostsOK, Known
  <1>2. att'[a].sent = "recent" /\ \A b \in Attempt \ {a} : att'[b] = att[b]
    <2> DEFINE item == [att[a] EXCEPT !.state = "SEND_STARTED", !.sent = "recent",
                                      !.early = {}]
    <2>1. att[a] \in AttemptRow /\ att \in [Attempt -> AttemptRow]
      BY DEF Known, QueueInv, LedgerInv, LedgerTypeOK
    <2>2. item.sent = "recent"
      BY <2>1 DEF AttemptRow
    <2>3. att' = [att EXCEPT ![a] = item]
      BY DEF BeginSend
    <2> HIDE DEF item
    <2> QED
      BY <2>1, <2>2, <2>3 DEF Known
  <1>3. run'[w].att = a /\ \A v \in Worker \ {w} : run'[v] = run[v]
    BY DEF Goto, QueueInv, RunsOK, Run
  <1>4. \A v \in Worker : At(v, "post") => Known(run[v].att) /\ run[v].att # a
                                           /\ posts[att[run[v].att].key] = 0
    <2> SUFFICES ASSUME NEW v \in Worker, At(v, "post")
                 PROVE  Known(run[v].att) /\ run[v].att # a
                        /\ posts[att[run[v].att].key] = 0
      OBVIOUS
    <2>1. Known(run[v].att)
      BY AttemptOfHead DEF At, HoldsAttempt, QueueInv
    <2>2. Transmitted(run[v].att) /\ posts[att[run[v].att].key] = 0
      BY DEF QueueInv, PostsOK
    <2> QED
      BY <1>1, <2>1, <2>2
  <1>5. att'[a].key = att[a].key /\ a \in Attempt
    BY DEF Evolves, Known
  <1> HIDE DEF a
  <1>6. \A k \in Key : (posts[k] \in {0, 1} /\ (~HasWork(k) => posts[k] = 0))'
    BY DEF QueueInv, PostsOK, Evolves
  <1>7. \A b \in Attempt : (att[b].state # "ABSENT" /\ ~Transmitted(b)
                               => posts[att[b].key] = 0)'
    BY <1>2, <1>5 DEF QueueInv, PostsOK, Transmitted
  <1>8. ASSUME NEW v \in Worker, At(v, "post")'
        PROVE  (Transmitted(run[v].att) /\ posts[att[run[v].att].key] = 0)'
    <2>1. CASE v = w
      BY <1>1, <1>2, <1>3, <1>5, <2>1 DEF Transmitted
    <2>2. CASE v # w
      <3>1. At(v, "post") /\ run'[v].att = run[v].att
        BY <1>3, <1>8, <2>2 DEF At
      <3>2. att'[run[v].att] = att[run[v].att]
        BY <1>2, <1>4, <3>1 DEF Known
      <3>3. Transmitted(run[v].att)
        BY <3>1 DEF QueueInv, PostsOK
      <3> QED
        BY <1>4, <3>1, <3>2, <3>3 DEF Transmitted
    <2> QED
      BY <2>1, <2>2
  <1>9. \A u, v \in Worker : (At(u, "post") /\ At(v, "post")
                                 /\ run[u].att = run[v].att => u = v)'
    BY <1>3, <1>4 DEF QueueInv, PostsOK, At
  <1> QED
    BY <1>6, <1>7, <1>8, <1>9 DEF PostsOK

(* The request that is posted is the first of its key.                      *)
LEMMA PostingPosts ==
  ASSUME QueueInv, NEW w \in Worker, Posting(w)
  PROVE  PostsOK'
  <1> DEFINE a == run[w].att
  <1>1. Transmit(a) /\ UNCHANGED <<att, work>> /\ run[w].pc = "post"
    BY PostDoes
  <1>2. /\ Known(a) /\ Transmitted(a) /\ posts[att[a].key] = 0
        /\ att[a].key \in Key /\ made[a] = None
    BY <1>1, PosterHolds DEF Known
  <1>3. HasWork(att[a].key)
    BY <1>2 DEF QueueInv, LedgerInv, WorkMirrorsAttempt, Known, HasWork
  <1>4. \A b \in Attempt : Known(b) /\ b # a => att[b].key \in Key /\ att[b].key # att[a].key
    BY <1>2 DEF QueueInv, LedgerInv, WorkMirrorsAttempt, Known
  <1>5. posts' = [posts EXCEPT ![att[a].key] = 1] /\ posts \in [Key -> Nat]
    BY <1>1, <1>2 DEF Transmit, QueueInv, RemoteOK
  <1>6. ~At(w, "post")' /\ NoArrival
    BY ArrivalOnlyBySend
  <1> HIDE DEF a
  <1>7. \A k \in Key : (posts[k] \in {0, 1} /\ (~HasWork(k) => posts[k] = 0))'
    BY <1>1, <1>3, <1>5 DEF QueueInv, PostsOK, HasWork
  <1>8. \A b \in Attempt : (att[b].state # "ABSENT" /\ ~Transmitted(b)
                               => posts[att[b].key] = 0)'
    BY <1>1, <1>2, <1>4, <1>5 DEF QueueInv, PostsOK, Transmitted, Known
  <1>9. ASSUME NEW v \in Worker, At(v, "post")'
        PROVE  (Transmitted(run[v].att) /\ posts[att[run[v].att].key] = 0)'
    <2>1. v # w /\ At(v, "post") /\ run'[v].att = run[v].att
      BY <1>6, <1>9 DEF NoArrival
    <2>2. run[v].att # a
      BY <1>1, <2>1 DEF QueueInv, PostsOK, At, a
    <2>3. Known(run[v].att) /\ Transmitted(run[v].att) /\ posts[att[run[v].att].key] = 0
      BY <2>1, PosterHolds DEF At, Known
    <2> QED
      BY <1>1, <1>4, <1>5, <2>1, <2>2, <2>3 DEF Transmitted, Known
  <1>10. \A u, v \in Worker : (At(u, "post") /\ At(v, "post")
                                  /\ run[u].att = run[v].att => u = v)'
    BY <1>6 DEF NoArrival, QueueInv, PostsOK
  <1> QED
    BY <1>7, <1>8, <1>9, <1>10 DEF PostsOK

LEMMA PostsStep ==
  ASSUME QueueInv, Next, Evolves
  PROVE  PostsOK'
  <1>1. ASSUME UNCHANGED att, UNCHANGED posts, NoArrival PROVE PostsOK'
    BY <1>1, QuietPosts, UntransmittedSteps
  <1>2. ASSUME NEW w \in Worker, Send(w) PROVE PostsOK'
    <2>1. Known(run[w].att) /\ UNCHANGED posts /\ RunsOK
      BY <1>2, AttemptOfHead DEF Send, At, QueueInv, HoldsAttempt, remoteVars
    <2>2. CASE UNCHANGED ledgerVars /\ (Returns(w, "FAILED") \/ Goto(w, "release"))
      <3>1. NoArrival
        BY <2>1, <2>2, LabelsReached DEF Label
      <3> QED
        BY <1>1, <2>1, <2>2, <3>1 DEF ledgerVars
    <2>3. CASE /\ CanBeginSend(run[w].att) /\ BeginSend(run[w].att, {})
               /\ Goto(w, "post")
      BY <2>1, <2>3, SendPosts
    <2> QED
      BY <1>2, <2>2, <2>3 DEF Send
  <1>3. ASSUME NEW w \in Worker, Posting(w) PROVE PostsOK'
    BY <1>3, PostingPosts
  <1>4. ASSUME NEW w \in Worker,
               \/ Requeue(w) \/ Claim(w) \/ Item(w) \/ Finish(w) \/ Release(w)
               \/ Lookup(w) \/ ReadAttempt(w) \/ Scan(w) \/ Crash(w)
        PROVE  PostsOK'
    <2>1. UNCHANGED posts /\ UNCHANGED att
      BY <1>4
      DEF Requeue, Claim, Item, Finish, Release, Lookup, ReadAttempt, Scan, Crash,
          ledgerVars, remoteVars
    <2>2. NoArrival
      BY <1>4, ArrivalOnlyBySend
    <2> QED
      BY <1>1, <2>1, <2>2
  <1>5. ASSUME NEW w \in Worker,
               Reserve(w) \/ MarkRejected(w) \/ MarkReconciling(w)
               \/ MarkIndeterminate(w) \/ Bind(w)
        PROVE  PostsOK'
    <2>1. UNCHANGED posts
      BY <1>5 DEF Reserve, MarkRejected, MarkReconciling, MarkIndeterminate, Bind, remoteVars
    <2>2. NoArrival
      BY <1>5, ArrivalOnlyBySend
    <2>3. Untransmitted
      BY <1>5, UntransmittedSteps
    <2> QED
      BY <2>1, <2>2, <2>3, QuietPosts
  <1>6. ASSUME NEW value \in BOOLEAN, Fence(value) PROVE PostsOK'
    <2>1. UNCHANGED posts /\ NoArrival
      BY <1>6 DEF Fence, remoteVars, NoArrival, At
    <2> QED
      BY <1>6, <2>1, QuietPosts, UntransmittedSteps
  <1>7. ASSUME \/ \E k \in Key : Enqueue(k) \/ ClaimAges(k) \/ Expire(k)
               \/ \E a \in Attempt : CreateLate(a)
        PROVE  PostsOK'
    <2>1. UNCHANGED <<att, posts, run>>
      BY <1>7 DEF Enqueue, ClaimAges, Expire, CreateLate, ledgerVars, remoteVars
    <2>2. NoArrival
      BY <2>1 DEF NoArrival, At
    <2> QED
      BY <1>1, <2>1, <2>2
  <1> QED
    BY <1>2, <1>3, <1>4, <1>5, <1>6, <1>7 DEF Next, Step, Posting

-----------------------------------------------------------------------------
LEMMA MadeStep ==
  ASSUME QueueInv, Next, Evolves
  PROVE  MadeOK'
  <1>1. MadeOK /\ RemoteOK
    BY DEF QueueInv
  <1>2. CASE UNCHANGED remoteVars
    BY <1>1, <1>2 DEF remoteVars, MadeOK, Evolves
  <1>3. ASSUME NEW w \in Worker, Posting(w) PROVE MadeOK'
    <2> DEFINE a == run[w].att
    <2>1. /\ run[w].pc = "post" /\ UNCHANGED att /\ Transmit(a)
          /\ \/ Make(a) /\ UNCHANGED pending
             \/ UNCHANGED made /\ pending' \in {pending, pending \cup {a}}
      BY <1>3, PostDoes
    <2>2. /\ a \in Attempt /\ att[a].key \in Key /\ att[a].state # "ABSENT"
          /\ posts[att[a].key] = 0 /\ made[a] = None /\ a \notin pending
      BY <2>1, PosterHolds
    <2> HIDE DEF a
    <2>3. \A k \in Key : posts'[k] = IF k = att[a].key THEN 1 ELSE posts[k]
      BY <1>1, <2>1, <2>2, Transmits
    <2>4. \A b \in Attempt : att[b].state # "ABSENT" => att[b].key \in Key
      BY DEF QueueInv, LedgerInv, WorkMirrorsAttempt
    <2>5. \A b \in Attempt : att[b].state # "ABSENT" /\ posts[att[b].key] = 1
                               => posts'[att[b].key] = 1
      BY <2>2, <2>3, <2>4
    <2>6. posts'[att[a].key] = 1
      BY <2>2, <2>3
    <2>7. CASE Make(a) /\ UNCHANGED pending
      <3>1. PICK s \in Session :
              /\ s # None /\ \A b \in Attempt : made[b] # s
              /\ \A b \in Attempt : made'[b] = IF b = a THEN s ELSE made[b]
        BY <1>1, <2>2, <2>7, MakeOne
      <3> QED
        BY <1>1, <2>1, <2>2, <2>5, <2>6, <2>7, <3>1 DEF MadeOK, RemoteOK
    <2>8. CASE UNCHANGED made /\ pending' \in {pending, pending \cup {a}}
      BY <1>1, <2>1, <2>2, <2>5, <2>6, <2>8 DEF MadeOK
    <2> QED
      BY <2>1, <2>7, <2>8
  <1>4. ASSUME NEW a \in Attempt, CreateLate(a) PROVE MadeOK'
    <2>1. a \in pending /\ Make(a) /\ pending' = pending \ {a} /\ UNCHANGED <<att, posts>>
      BY <1>4 DEF CreateLate, ledgerVars
    <2>2. PICK s \in Session :
            /\ s # None /\ \A b \in Attempt : made[b] # s
            /\ \A b \in Attempt : made'[b] = IF b = a THEN s ELSE made[b]
      BY <1>1, <2>1, MakeOne
    <2> QED
      BY <1>1, <2>1, <2>2 DEF MadeOK, RemoteOK
  <1> QED
    BY <1>2, <1>3, <1>4, QuietSteps

-----------------------------------------------------------------------------
LEMMA NextInv == QueueInv /\ [Next]_vars => QueueInv'
  <1>1. ASSUME QueueInv, Next PROVE QueueInv'
    <2>1. LedgerInv' /\ Evolves
      BY <1>1, LedgerStep
    <2>2. RemoteOK' /\ MadeStays
      BY <1>1, RemoteStep
    <2>3. OwnersStay
      BY <1>1, OwnersRemain
    <2>4. RunsOK'
      BY <1>1, <2>1, <2>2, <2>3, RunsStep DEF Stays
    <2>5. RowsOK' /\ CompletedIsBound'
      BY <1>1, <2>3, RowsStep, CompletedStep
    <2>6. NoWorkNoSession'
      BY <1>1, <2>1, NoWorkStep
    <2>7. PostsOK' /\ MadeOK'
      BY <1>1, <2>1, PostsStep, MadeStep
    <2> QED
      BY <2>1, <2>2, <2>4, <2>5, <2>6, <2>7 DEF QueueInv
  <1>2. ASSUME QueueInv, UNCHANGED vars PROVE QueueInv'
    <2>1. LedgerInv'
      BY <1>2, LedgerStutterInv DEF QueueInv, vars, ledgerVars
    <2>2. RunsOK'
      <3>1. Stays /\ UNCHANGED run
        BY <1>2, LedgerStutterInv
        DEF QueueInv, Stays, OwnersStay, MadeStays, vars, ledgerVars, remoteVars
      <3> QED
        BY <1>2, <3>1, NoneRuns
    <2>3. RowsOK' /\ RemoteOK' /\ NoWorkNoSession' /\ CompletedIsBound'
      BY <1>2 DEF QueueInv, RowsOK, RemoteOK, NoWorkNoSession, CompletedIsBound, HasWork,
                  vars, remoteVars
    <2>4. PostsOK' /\ MadeOK'
      BY <1>2 DEF QueueInv, PostsOK, MadeOK, HasWork, Transmitted, At, vars, remoteVars
    <2> QED
      BY <2>1, <2>2, <2>3, <2>4 DEF QueueInv
  <1> QED
    BY <1>1, <1>2

(* QueueInv holds in every state a run of CandidateQueue reaches.           *)
THEOREM Inductive == Spec => []QueueInv
  <1> QED
    BY InitInv, NextInv, PTL DEF Spec

(* Every variable of the queue holds a value of its kind, and no outcome of *)
(* a dispatch is lost on its way to the candidate's row.                    *)
THEOREM TypeCorrect == Spec => []TypeOK
  <1>1. QueueInv => TypeOK
    BY DEF QueueInv, LedgerInv, RowsOK, RemoteOK, RunsOK, RunOK, TypeOK
  <1> QED
    BY <1>1, Inductive, PTL

(* A COMPLETED candidate has a session, although claims are requeued under  *)
(* their workers and attempts are overwritten.                              *)
THEOREM CompletedIsTrue == Spec => []CompletedIsBound
  <1>1. QueueInv => CompletedIsBound
    BY DEF QueueInv
  <1> QED
    BY <1>1, Inductive, PTL

(* A candidate has one result for good, whoever claims or finishes it.      *)
THEOREM OneResult == Spec => ResultIsFinal
  <1>1. QueueInv /\ [Next]_vars
          => [\A k \in Key : row[k].state \in Result => row'[k] = row[k]]_vars
    BY RowsStep DEF RowStays
  <1> QED
    BY <1>1, Inductive, PTL DEF Spec, ResultIsFinal

-----------------------------------------------------------------------------
(* The refinement of AtMostOnceCreate: posting sends, a late create makes   *)
(* later, a bind owns, and every other step stutters.                       *)
MakerOf(fleet, table, s) ==
    IF \E a \in Attempt : fleet[a] = s
    THEN table[CHOOSE a \in Attempt : fleet[a] = s].key ELSE None

MadeBy == [s \in Session |-> MakerOf(made, att, s)]
Owner == [k \in Key |-> work[k].session]

LEMMA MakerIs ==
  ASSUME NEW fleet, NEW table, NEW s, NEW a \in Attempt, fleet[a] = s,
         \A b \in Attempt : fleet[b] = s => b = a
  PROVE  MakerOf(fleet, table, s) = table[a].key
  BY DEF MakerOf

LEMMA MakerIsNone ==
  ASSUME NEW fleet, NEW table, NEW s, \A a \in Attempt : fleet[a] # s
  PROVE  MakerOf(fleet, table, s) = None
  BY DEF MakerOf

LEMMA MadeBySame ==
  ASSUME QueueInv, Evolves, UNCHANGED made
  PROVE  MadeBy' = MadeBy
  <1>1. ASSUME NEW s \in Session
        PROVE  MakerOf(made, att', s) = MakerOf(made, att, s)
    <2>1. CASE \A a \in Attempt : made[a] # s
      BY <2>1, MakerIsNone
    <2>2. ASSUME NEW a \in Attempt, made[a] = s
          PROVE  MakerOf(made, att', s) = MakerOf(made, att, s)
      <3>1. s # None
        BY NullAssumption
      <3>2. \A b \in Attempt : made[b] = s => b = a
        BY <2>2, <3>1 DEF QueueInv, MadeOK
      <3>3. att'[a].key = att[a].key
        BY <2>2, <3>1 DEF QueueInv, MadeOK, Evolves
      <3>4. MakerOf(made, att, s) = att[a].key
        BY <2>2, <3>2, MakerIs
      <3>5. MakerOf(made, att', s) = att'[a].key
        BY <2>2, <3>2, MakerIs
      <3> QED
        BY <3>3, <3>4, <3>5
    <2> QED
      BY <2>1, <2>2
  <1> QED
    BY <1>1 DEF MadeBy

(* A new session is the first one of its key.                               *)
LEMMA MakesOne ==
  ASSUME QueueInv, att' = att, NEW a \in Attempt, att[a].state # "ABSENT",
         made[a] = None, Make(a)
  PROVE  \E s \in Session :
           /\ MadeBy[s] = None
           /\ \A t \in Session : MadeBy[t] # att[a].key
           /\ MadeBy' = [MadeBy EXCEPT ![s] = att[a].key]
  <1>1. PICK s \in Session :
          /\ s # None /\ \A b \in Attempt : made[b] # s
          /\ \A b \in Attempt : made'[b] = IF b = a THEN s ELSE made[b]
    BY MakeOne DEF QueueInv
  <1>2. att[a].key \in Key /\ att[a].key # None
    BY NullAssumption DEF QueueInv, LedgerInv, WorkMirrorsAttempt
  <1>3. MadeBy[s] = None
    BY <1>1, MakerIsNone DEF MadeBy
  <1>4. ASSUME NEW t \in Session PROVE MadeBy[t] # att[a].key
    <2>1. CASE \A b \in Attempt : made[b] # t
      BY <1>2, <2>1, MakerIsNone DEF MadeBy
    <2>2. ASSUME NEW b \in Attempt, made[b] = t PROVE MadeBy[t] # att[a].key
      <3>1. t # None /\ b # a
        BY <2>2, NullAssumption
      <3>2. att[b].state # "ABSENT" /\ \A c \in Attempt : made[c] = t => c = b
        BY <2>2, <3>1 DEF QueueInv, MadeOK
      <3>3. MadeBy[t] = att[b].key
        <4>1. \A c \in Attempt : made[c] = t => c = b
          BY <3>2
        <4>2. MakerOf(made, att, t) = att[b].key
          BY <2>2, <4>1, MakerIs
        <4> QED
          BY <4>2 DEF MadeBy
      <3>4. att[b].key # att[a].key
        BY <3>1, <3>2 DEF QueueInv, LedgerInv, WorkMirrorsAttempt
      <3> QED
        BY <3>3, <3>4
    <2> QED
      BY <2>1, <2>2
  <1>5. ASSUME NEW t \in Session
        PROVE  MakerOf(made', att', t) = IF t = s THEN att[a].key ELSE MakerOf(made, att, t)
    <2>1. CASE t = s
      BY <1>1, <2>1, MakerIs
    <2>2. CASE t # s /\ \A b \in Attempt : made[b] # t
      BY <1>1, <2>2, MakerIsNone
    <2>3. ASSUME t # s, NEW b \in Attempt, made[b] = t
          PROVE  MakerOf(made', att', t) = MakerOf(made, att, t)
      <3>1. t # None /\ b # a
        BY <2>3, NullAssumption
      <3>2. \A c \in Attempt : made[c] = t => c = b
        BY <2>3, <3>1 DEF QueueInv, MadeOK
      <3>3. made'[b] = t /\ \A c \in Attempt : made'[c] = t => c = b
        BY <1>1, <2>3, <3>1, <3>2
      <3> QED
        BY <2>3, <3>2, <3>3, MakerIs
    <2> QED
      BY <2>1, <2>2, <2>3
  <1>6. MadeBy' = [MadeBy EXCEPT ![s] = att[a].key]
    BY <1>5 DEF MadeBy
  <1> QED
    BY <1>3, <1>4, <1>6

LEMMA PromiseInit == Init => Promise!Init
  <1> SUFFICES ASSUME Init PROVE Promise!Init
    OBVIOUS
  <1>1. \A s \in Session : \A a \in Attempt : made[a] # s
    BY NullAssumption DEF Init
  <1> QED
    BY <1>1 DEF Init, LedgerInit, NoWork, Promise!Init

LEMMA OwnStep ==
  ASSUME QueueInv, Evolves, NEW w \in Worker, Binds(w), NEW k \in Key, k = Head(w),
         NEW s \in Session, s = made[run[w].att]
  PROVE  Promise!Own(k, s)
  <1>1. /\ run[w].att \in Attempt /\ att[run[w].att].state # "ABSENT"
        /\ att[run[w].att].key = k
    BY AttemptOfHead DEF Binds, HoldsAttempt, QueueInv, Known
  <1>2. MadeBy' = MadeBy /\ posts' = posts
    BY MadeBySame DEF Binds, remoteVars
  <1>3. ASSUME NEW j \in Key \ {k}, work[j].session = s PROVE FALSE
    <2>1. HasWork(j)
      BY <1>3, NullAssumption DEF QueueInv, NoWorkNoSession
    <2>2. PICK b : b = work[j].attempt
      OBVIOUS
    <2>3. b \in Attempt /\ att[b].state # "ABSENT" /\ att[b].key = j
      BY <2>1, <2>2 DEF QueueInv, LedgerInv, WorkMirrorsAttempt
    <2>4. att[b].session = s
      BY <1>3, <2>3 DEF QueueInv, LedgerInv, WorkMirrorsAttempt
    <2>5. b # run[w].att
      BY <1>1, <1>3, <2>3
    <2> QED
      BY <2>3, <2>4, <2>5 DEF Binds, BindConflict
  <1>4. Owner' = [Owner EXCEPT ![k] = s]
    BY DEF Binds, Owner
  <1> QED
    BY <1>2, <1>3, <1>4 DEF Promise!Own, MadeBy, MakerOf, Owner

LEMMA SendStep ==
  ASSUME QueueInv, NEW w \in Worker, Posting(w),
         NEW k \in Key, k = att[run[w].att].key
  PROVE  Promise!Send(k)
  <1>1. PICK a : a = run[w].att
    OBVIOUS
  <1>2. /\ run[w].pc = "post" /\ Transmit(a) /\ UNCHANGED <<att, work>>
        /\ Make(a) \/ UNCHANGED made
    BY <1>1, PostDoes
  <1>3. /\ a \in Attempt /\ att[a].state # "ABSENT" /\ made[a] = None
        /\ att[a].key \in Key /\ posts[att[a].key] = 0
    BY <1>1, <1>2, PosterHolds
  <1>4. posts' = [posts EXCEPT ![k] = 1] /\ posts[k] = 0
    BY <1>1, <1>2, <1>3 DEF Transmit, QueueInv, RemoteOK
  <1>5. Owner' = Owner
    BY <1>2 DEF Owner
  <1>6. CASE Make(a)
    <2>1. \E s \in Session :
            /\ MadeBy[s] = None
            /\ \A t \in Session : MadeBy[t] # k
            /\ MadeBy' = [MadeBy EXCEPT ![s] = k]
      BY <1>1, <1>2, <1>3, <1>6, MakesOne
    <2>2. Promise!Makes(k)
      BY <2>1 DEF Promise!Makes, MadeBy, MakerOf
    <2> QED
      BY <1>4, <1>5, <2>2 DEF Promise!Send, Owner
  <1>7. CASE UNCHANGED made
    <2>1. MadeBy' = MadeBy
      BY <1>2, <1>7 DEF MadeBy
    <2> QED
      BY <1>4, <1>5, <2>1 DEF Promise!Send, Owner, MadeBy, MakerOf
  <1> QED
    BY <1>2, <1>6, <1>7

LEMMA LateStep ==
  ASSUME QueueInv, NEW a \in Attempt, CreateLate(a), NEW k \in Key, k = att[a].key
  PROVE  Promise!MakeLater(k)
  <1>1. a \in pending /\ Make(a) /\ UNCHANGED <<att, work, posts>>
    BY DEF CreateLate, ledgerVars
  <1>2. att[a].state # "ABSENT" /\ made[a] = None /\ posts[k] = 1
    BY <1>1 DEF QueueInv, MadeOK
  <1>3. \E s \in Session :
          /\ MadeBy[s] = None
          /\ \A t \in Session : MadeBy[t] # k
          /\ MadeBy' = [MadeBy EXCEPT ![s] = k]
    BY <1>1, <1>2, MakesOne
  <1>4. Promise!Makes(k)
    BY <1>3 DEF Promise!Makes, MadeBy, MakerOf
  <1>5. Owner' = Owner
    BY <1>1 DEF Owner
  <1> QED
    BY <1>1, <1>2, <1>4, <1>5 DEF Promise!MakeLater, Owner

LEMMA PromiseNext ==
  ASSUME QueueInv, [Next]_vars
  PROVE  Promise!Next \/ (posts' = posts /\ MadeBy' = MadeBy /\ Owner' = Owner)
  <1>1. ASSUME NEW w \in Worker, Posting(w) PROVE Promise!Next
    <2>1. att[run[w].att].key \in Key
      BY <1>1, PostDoes, PosterHolds
    <2>2. PICK k \in Key : k = att[run[w].att].key
      BY <2>1
    <2>3. Promise!Send(k)
      BY <1>1, <2>2, SendStep
    <2> QED
      BY <2>3 DEF Promise!Next
  <1>2. ASSUME NEW a \in Attempt, CreateLate(a) PROVE Promise!Next
    <2>1. att[a].key \in Key
      BY <1>2 DEF CreateLate, QueueInv, MadeOK, LedgerInv, WorkMirrorsAttempt
    <2>2. PICK k \in Key : k = att[a].key
      BY <2>1
    <2>3. Promise!MakeLater(k)
      BY <1>2, <2>2, LateStep
    <2> QED
      BY <2>3 DEF Promise!Next
  <1>3. ASSUME Next, NEW w \in Worker, Binds(w) PROVE Promise!Next
    <2>1. Evolves /\ Head(w) \in Key
      BY <1>3, LedgerStep, HeadIsCandidate DEF Binds, QueueInv
    <2>2. made[run[w].att] \in Session
      BY <1>3, AttemptOfHead DEF Binds, QueueInv, RunsOK, RunOK, RemoteOK, HoldsAttempt, Known
    <2>3. PICK k \in Key : k = Head(w)
      BY <2>1
    <2>4. PICK s \in Session : s = made[run[w].att]
      BY <2>2
    <2>5. Promise!Own(k, s)
      BY <1>3, <2>1, <2>3, <2>4, OwnStep
    <2> QED
      BY <2>5 DEF Promise!Next
  <1>4. ASSUME Next, UNCHANGED remoteVars, KeepsOwners
        PROVE  posts' = posts /\ MadeBy' = MadeBy /\ Owner' = Owner
    <2>1. MadeBy' = MadeBy
      BY <1>4, LedgerStep, MadeBySame DEF remoteVars
    <2>2. Owner' = Owner
      BY <1>4 DEF KeepsOwners, Owner
    <2> QED
      BY <1>4, <2>1, <2>2 DEF remoteVars
  <1>5. CASE UNCHANGED vars
    BY <1>5 DEF vars, remoteVars, MadeBy, Owner
  <1> QED
    BY <1>1, <1>2, <1>3, <1>4, <1>5, QuietSteps, OwnerSteps

(* The queue implements the promise of dispatch: requeued claims, crashes   *)
(* and workers that share a candidate cause at most one create request.     *)
THEOREM QueueKeepsThePromise == Spec => KeepsPromise
  <1>1. QueueInv /\ [Next]_vars => [Promise!Next]_<<posts, MadeBy, Owner>>
    BY PromiseNext
  <1> QED
    BY <1>1, Inductive, PromiseInit, PTL
    DEF Spec, KeepsPromise, Promise!Spec, MadeBy, MakerOf, Owner

-----------------------------------------------------------------------------
(* A run of a worker runs down: it claims once, its batch shrinks, and the  *)
(* dispatch of the head of the batch passes its labels in one direction.    *)
Stage(label) ==
    CASE label \in {"idle", "claim"} -> 0
      [] label \in {"finish", "release"} -> 1
      [] label \in {"rejected", "bind", "none"} -> 2
      [] label = "scan" -> 3
      [] label = "recon" -> 4
      [] label = "uncertain" -> 5
      [] label = "post" -> 6
      [] label = "send" -> 7
      [] label = "reserve" -> 8
      [] label = "lookup" -> 9
      [] label = "item" -> 10

Smaller(c, d) == c.batch \subseteq d.batch /\ c.batch # d.batch
Onward(c, d) == c.batch = d.batch /\ Stage(c.pc) < Stage(d.pc)

(* A run at c is nearer to its end than one at d.                           *)
Nearer(c, d) == c.pc # "claim" /\ (d.pc = "claim" \/ Smaller(c, d) \/ Onward(c, d))

(* No step of a run is a detour: whatever happens to its claims meanwhile,  *)
(* it never claims twice and never returns to a candidate.                  *)
RunsRunDown ==
    [][\A w \in Worker :
         At(w, "idle") \/ run'[w] = run[w] \/ Nearer(run'[w], run[w])]_vars

(* A create request leaves only for a candidate that some worker could read *)
(* and whose repository that worker's own list allows.                      *)
MayDispatch(w, k) == <<w, k>> \in Allowed \ Unreadable

OnlyAllowedIsSent ==
    \A k \in Key : posts[k] > 0 => \E w \in Worker : MayDispatch(w, k)

Sending == {"lookup", "reserve", "send", "post"}

AllowedInv ==
    /\ OnlyAllowedIsSent
    /\ \A w \in Worker : run[w].pc \in Sending => MayDispatch(w, Head(w))

(* The moves that runs are made of.                                         *)
LEMMA RunsTo ==
  ASSUME RunsOK, NEW w \in Worker
  PROVE  /\ \A label : Goto(w, label)
                         => run'[w].pc = label /\ run'[w].batch = run[w].batch
         /\ \A result : Returns(w, result)
                          => run'[w].pc = "finish" /\ run'[w].batch = run[w].batch
         /\ \A label, a : run' = [run EXCEPT ![w].pc = label, ![w].att = a]
                            => run'[w].pc = label /\ run'[w].batch = run[w].batch
         /\ \A label, a : run' = [run EXCEPT ![w].att = a, ![w].pc = label]
                            => run'[w].pc = label /\ run'[w].batch = run[w].batch
  <1>1. run \in [Worker -> Run] /\ run[w] \in Run
    BY DEF RunsOK
  <1>2. \A label : Goto(w, label) => run'[w].pc = label /\ run'[w].batch = run[w].batch
    BY <1>1 DEF Goto, Run
  <1>3. \A result : Returns(w, result)
                      => run'[w].pc = "finish" /\ run'[w].batch = run[w].batch
    BY <1>1 DEF Returns, Run
  <1>4. \A label, a : run' = [run EXCEPT ![w].pc = label, ![w].att = a]
                        => run'[w].pc = label /\ run'[w].batch = run[w].batch
    BY <1>1 DEF Run
  <1>5. \A label, a : run' = [run EXCEPT ![w].att = a, ![w].pc = label]
                        => run'[w].pc = label /\ run'[w].batch = run[w].batch
    BY <1>1 DEF Run
  <1> QED
    BY <1>2, <1>3, <1>4, <1>5

(* A run that ends, or is done with the head of its batch.                  *)
LEMMA BatchShrinks ==
  ASSUME RunsOK, NEW w \in Worker, run[w].pc \notin {"idle", "claim"},
         End(w) \/ NextItem(w)
  PROVE  run'[w].pc \in {"idle", "item"} /\ Smaller(run'[w], run[w])
  <1>1. /\ run \in [Worker -> Run] /\ run[w].batch # {}
        /\ run[w].batch \in SUBSET Nat
    BY CandidateAssumption DEF RunsOK, RunOK, Run
  <1>2. Oldest(run[w].batch) \in run[w].batch
    BY <1>1, OldestIsIn
  <1>3. CASE End(w)
    BY <1>1, <1>3 DEF End, NoRun, Smaller
  <1>4. CASE ~End(w)
    <2> DEFINE left == run[w].batch \ {Oldest(run[w].batch)}
    <2>1. run' = [run EXCEPT ![w] = [NoRun EXCEPT !.pc = "item", !.batch = left]]
      BY <1>4 DEF NextItem
    <2>2. run'[w].pc = "item" /\ run'[w].batch = left
      BY <1>1, <2>1 DEF NoRun
    <2> QED
      BY <1>2, <2>2 DEF Smaller
  <1> QED
    BY <1>3, <1>4

(* Where the step of a worker leads: to another candidate, or onward with   *)
(* this one, and to the labels of a dispatch only past the policy.          *)
LEMMA RunMoves ==
  ASSUME QueueInv, NEW w \in Worker, Step(w) \/ Crash(w),
         run[w].pc \notin {"idle", "claim"}
  PROVE  \/ run'[w].pc \in {"idle", "item"} /\ Smaller(run'[w], run[w])
         \/ /\ Onward(run'[w], run[w]) /\ run'[w].pc \notin {"idle", "item", "claim"}
            /\ run'[w].pc \in Sending
                 => run[w].pc \in Sending \/ MayDispatch(w, Head(w))
  <1>a. RunsOK
    BY DEF QueueInv
  <1> DEFINE Moves(labels) == run'[w].pc \in labels /\ run'[w].batch = run[w].batch
             Leaves == run'[w].pc \in {"idle", "item"} /\ Smaller(run'[w], run[w])
  <1>1. End(w) \/ NextItem(w) => Leaves
    BY <1>a, BatchShrinks
  <1>2. \A T : \A label \in T : Goto(w, label) => Moves(T)
    BY <1>a, RunsTo
  <1>3. \A T : "finish" \in T => \A result : Returns(w, result) => Moves(T)
    BY <1>a, RunsTo
  <1>4. \A T : \A label \in T : \A a :
          (\/ run' = [run EXCEPT ![w].pc = label, ![w].att = a]
           \/ run' = [run EXCEPT ![w].att = a, ![w].pc = label])
          => Moves(T)
    BY <1>a, RunsTo
  <1> HIDE DEF Moves, Leaves
  <1>5. ASSUME Item(w)
        PROVE  /\ run[w].pc = "item"
               /\ Leaves \/ (Moves({"lookup"}) /\ MayDispatch(w, Head(w)))
    BY <1>1, <1>2, <1>5 DEF Item, At, FinishCandidate, MayDispatch
  <1>6. ASSUME Finish(w) \/ Release(w) \/ Crash(w) PROVE Leaves
    BY <1>1, <1>6 DEF Finish, Release, Crash, FinishCandidate
  <1>7. ASSUME Lookup(w)
        PROVE  run[w].pc = "lookup"
               /\ Moves({"reserve", "finish", "release", "send", "recon"})
    <2> DEFINE T == {"reserve", "finish", "release", "send", "recon"}
    <2>1. \/ Goto(w, "reserve") \/ Goto(w, "release")
          \/ Returns(w, "FAILED") \/ Returns(w, "COMPLETED")
          \/ \E label \in T : \E a : run' = [run EXCEPT ![w].att = a, ![w].pc = label]
      BY <1>7 DEF Lookup
    <2>2. Moves(T)
      BY <1>2, <1>3, <1>4, <2>1
    <2> QED
      BY <1>7, <2>2 DEF Lookup, At
  <1>8. ASSUME Reserve(w)
        PROVE  run[w].pc = "reserve" /\ Moves({"release", "finish", "recon", "send"})
    <2> DEFINE T == {"release", "finish", "recon", "send"}
    <2>1. \/ Goto(w, "release") \/ Returns(w, "COMPLETED")
          \/ \E label \in T : \E a : run' = [run EXCEPT ![w].pc = label, ![w].att = a]
      BY <1>8 DEF Reserve
    <2>2. Moves(T)
      BY <1>2, <1>3, <1>4, <2>1
    <2> QED
      BY <1>8, <2>2 DEF Reserve, At
  <1>9. ASSUME Send(w)
        PROVE  run[w].pc = "send" /\ Moves({"finish", "release", "post"})
    BY <1>2, <1>3, <1>9 DEF Send, At
  <1>10. ASSUME PostAnswered(w) \/ PostRejected(w) \/ PostUncertain(w)
         PROVE  run[w].pc = "post" /\ Moves({"bind", "rejected", "uncertain"})
    BY <1>2, <1>10 DEF PostAnswered, PostRejected, PostUncertain, At
  <1>11. ASSUME MarkReconciling(w)
         PROVE  run[w].pc = "uncertain" /\ Moves({"recon"})
    BY <1>2, <1>11 DEF MarkReconciling, At
  <1>12. ASSUME MarkRejected(w) \/ Bind(w) \/ MarkIndeterminate(w)
         PROVE  run[w].pc \in {"rejected", "bind", "none"} /\ Moves({"finish"})
    BY <1>3, <1>12 DEF MarkRejected, Bind, MarkIndeterminate, At
  <1>13. ASSUME ReadAttempt(w)
         PROVE  run[w].pc = "recon" /\ Moves({"finish", "scan"})
    BY <1>2, <1>3, <1>13 DEF ReadAttempt, At
  <1>14. ASSUME Scan(w)
         PROVE  run[w].pc = "scan" /\ Moves({"bind", "none", "finish"})
    BY <1>2, <1>3, <1>14 DEF Scan, At
  <1>15. ~Requeue(w) /\ ~Claim(w)
    BY DEF Requeue, Claim, At
  <1> QED
    BY <1>5, <1>6, <1>7, <1>8, <1>9, <1>10, <1>11, <1>12, <1>13, <1>14, <1>15
    DEF Step, Moves, Leaves, Onward, Stage, Sending

LEMMA OtherRuns ==
  ASSUME QueueInv, NEW w \in Worker, NEW v \in Worker \ {w}, Step(v) \/ Crash(v)
  PROVE  run'[w] = run[w]
  BY DEF QueueInv, RunsOK, Step, Crash, Requeue, Claim, Item, Finish, Release, Lookup,
         Reserve, Send, PostAnswered, PostRejected, PostUncertain, MarkRejected,
         MarkReconciling, Bind, ReadAttempt, Scan, MarkIndeterminate, FinishCandidate,
         NextItem, Returns, Goto, End

(* What the end of every claim rests on (TLC checks that it comes).         *)
THEOREM EveryRunRunsDown == Spec => RunsRunDown
  <1>1. QueueInv /\ [Next]_vars
          => \A w \in Worker :
               At(w, "idle") \/ run'[w] = run[w] \/ Nearer(run'[w], run[w])
    <2> SUFFICES ASSUME QueueInv, [Next]_vars, NEW w \in Worker, ~At(w, "idle"),
                        run'[w] # run[w]
                 PROVE  Nearer(run'[w], run[w])
      OBVIOUS
    <2>1. Step(w) \/ Crash(w)
      BY OtherRuns
      DEF Next, Enqueue, ClaimAges, Expire, Fence, CreateLate, vars
    <2>2. CASE run[w].pc = "claim"
      <3>1. run \in [Worker -> Run] /\ run[w] \in Run
        BY DEF QueueInv, RunsOK
      <3>2. Claim(w) \/ Crash(w)
        BY <2>1, <2>2
        DEF Step, Requeue, Item, Finish, Release, Lookup, Reserve, Send, PostAnswered,
            PostRejected, PostUncertain, MarkRejected, MarkReconciling, Bind, ReadAttempt,
            Scan, MarkIndeterminate, At
      <3>3. \/ End(w)
            \/ \E batch : run' = [run EXCEPT ![w].pc = "item", ![w].batch = batch]
        BY <3>2 DEF Claim, Crash
      <3>4. run'[w].pc # "claim"
        BY <3>1, <3>3 DEF End, NoRun, Run
      <3> QED
        BY <2>2, <3>4 DEF Nearer
    <2>3. CASE run[w].pc # "claim"
      BY <2>1, <2>3, RunMoves DEF Nearer, At
    <2> QED
      BY <2>2, <2>3
  <1> QED
    BY <1>1, Inductive, PTL DEF Spec, RunsRunDown

-----------------------------------------------------------------------------
LEMMA AllowedInit == Init => AllowedInv
  BY DEF Init, AllowedInv, OnlyAllowedIsSent, NoRun, Sending

LEMMA AllowedNext == QueueInv /\ AllowedInv /\ [Next]_vars => AllowedInv'
  <1> SUFFICES ASSUME QueueInv, AllowedInv, [Next]_vars PROVE AllowedInv'
    OBVIOUS
  <1>a. run \in [Worker -> Run] /\ RunsOK /\ RemoteOK
    BY DEF QueueInv, RunsOK
  <1>1. OnlyAllowedIsSent'
    <2>1. CASE UNCHANGED posts
      BY <2>1 DEF AllowedInv, OnlyAllowedIsSent
    <2>2. ASSUME NEW w \in Worker, Posting(w) PROVE OnlyAllowedIsSent'
      <3>1. run[w].pc = "post" /\ Transmit(run[w].att)
        BY <2>2 DEF Posting, PostAnswered, PostRejected, PostUncertain, At
      <3>2. /\ run[w].att \in Attempt /\ att[run[w].att].key = Head(w)
            /\ Head(w) \in Key /\ MayDispatch(w, Head(w))
        BY <1>a, <3>1, AttemptOfHead, HeadIsCandidate
        DEF HoldsAttempt, Known, AllowedInv, Sending
      <3>3. \A k \in Key : posts'[k] = IF k = Head(w) THEN posts[k] + 1 ELSE posts[k]
        BY <1>a, <3>1, <3>2, Transmits
      <3> QED
        BY <3>2, <3>3 DEF AllowedInv, OnlyAllowedIsSent, MayDispatch
    <2>3. UNCHANGED posts \/ \E w \in Worker : Posting(w)
      BY DEF Next, Step, Crash, Requeue, Claim, Item, Finish, Release, Lookup, Reserve,
             Send, MarkRejected, MarkReconciling, Bind, ReadAttempt, Scan,
             MarkIndeterminate, Enqueue, ClaimAges, Expire, Fence, CreateLate, vars,
             remoteVars, Posting
    <2> QED
      BY <2>1, <2>2, <2>3
  <1>2. ASSUME NEW w \in Worker, run'[w].pc \in Sending
        PROVE  MayDispatch(w, Head(w)')
    <2>1. CASE run'[w] = run[w]
      BY <1>2, <2>1 DEF AllowedInv, Head, MayDispatch
    <2>2. CASE run'[w] # run[w]
      <3>1. Step(w) \/ Crash(w)
        BY <2>2, OtherRuns DEF Next, Enqueue, ClaimAges, Expire, Fence, CreateLate, vars
      <3>2. run[w].pc \notin {"idle", "claim"}
        <4>1. ASSUME At(w, "idle") \/ At(w, "claim")
              PROVE  run'[w].pc \in {"idle", "item", "claim"}
          <5>1. Requeue(w) \/ Claim(w) \/ Crash(w)
            BY <3>1, <4>1
            DEF Step, Item, Finish, Release, Lookup, Reserve, Send, PostAnswered,
                PostRejected, PostUncertain, MarkRejected, MarkReconciling, Bind,
                ReadAttempt, Scan, MarkIndeterminate, At
          <5>2. \/ End(w) \/ Goto(w, "claim")
                \/ \E batch : run' = [run EXCEPT ![w].pc = "item", ![w].batch = batch]
            BY <5>1 DEF Requeue, Claim, Crash
          <5> QED
            BY <1>a, <5>2 DEF End, Goto, NoRun, Run
        <4> QED
          BY <1>2, <4>1 DEF At, Sending
      <3>3. run'[w].batch = run[w].batch /\ (run[w].pc \in Sending \/ MayDispatch(w, Head(w)))
        BY <1>2, <3>1, <3>2, RunMoves DEF Onward, Sending
      <3> QED
        BY <3>3 DEF AllowedInv, Head, MayDispatch
    <2> QED
      BY <2>1, <2>2
  <1> QED
    BY <1>1, <1>2 DEF AllowedInv, MayDispatch

(* No worker is brought to send what its list does not allow, by a          *)
(* reservation another worker left behind or a claim that was requeued.     *)
THEOREM PolicyIsKept == Spec => []OnlyAllowedIsSent
  <1>1. AllowedInv => OnlyAllowedIsSent
    BY DEF AllowedInv
  <1> QED
    BY <1>1, AllowedInit, AllowedNext, Inductive, PTL DEF Spec
=============================================================================
