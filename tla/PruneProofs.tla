----------------------------- MODULE PruneProofs -----------------------------
(***************************************************************************)
(* Proofs about Prune, for any number of sessions, appliers, passes and    *)
(* attempts.  The inductive invariant says of each applier what it may     *)
(* believe of its targets, and rests on two facts about Jules: a session   *)
(* that is gone stays gone, and a stored plan never changes.  Last comes   *)
(* the measure that every step of an application runs down.                *)
(***************************************************************************)
EXTENDS Prune, TLAPS

Targets == IF plan = NoPlan THEN {} ELSE plan.targets
Gone(s) == remote[s] = "gone"

AppOK(p) ==
    /\ apply[p].pc # "idle" => plan # NoPlan
    /\ apply[p].pc \in {"delete", "settle"} =>
         apply[p].pass >= 1 /\ (plan.kind # "prune" => apply[p].pass = 1)
    /\ apply[p].todo \subseteq Targets
    /\ \A s \in Session : apply[p].result[s] \in {"already_absent", "deleted"} => Gone(s)
    /\ \A s \in Session : apply[p].result[s] = "deleted" => remover[s] = p
    /\ apply[p].pc = "settle" => \A s \in Targets : s \notin apply[p].fleet => Gone(s)
    /\ apply[p].report = "completed" => plan # NoPlan /\ \A s \in Targets : Gone(s)

ThreadsOK(p) ==
    \A s \in Session : /\ thread[p][s].pc \in {"removed", "absent"} => Gone(s)
                       /\ thread[p][s].pc = "removed" => remover[s] = p

JulesOK ==
    /\ late \subseteq Targets
    /\ \A s \in Session : remover[s] # "nobody" => s \in Targets /\ Gone(s)
    /\ \A s \in Targets : remote[s] # "unborn"
    /\ \A s \in marked : Gone(s)

IndInv ==
    /\ TypeOK
    /\ JulesOK
    /\ \A p \in Applier : AppOK(p) /\ ThreadsOK(p)

(* A session that is gone stays gone, under one remover; a plan stays.      *)
Evolves ==
    /\ \A s \in Session : /\ Gone(s) => Gone(s)' /\ UNCHANGED (remover[s])
                          /\ remote[s] # "unborn" => remote'[s] # "unborn"
    /\ plan # NoPlan => UNCHANGED plan

-----------------------------------------------------------------------------
LEMMA TargetsAreSessions == TypeOK => Targets \subseteq Session
  BY DEF TypeOK, Targets, Plan

LEMMA InitInv == Init => IndInv
  <1> SUFFICES ASSUME Init PROVE IndInv
    OBVIOUS
  <1>1. NotApplied \in Apply
    BY BoundAssumption DEF NotApplied, Apply, Outcome
  <1>2. NoThread \in Thread
    BY BoundAssumption DEF NoThread, Thread
  <1>3. TypeOK
    BY <1>1, <1>2 DEF Init, TypeOK
  <1>4. JulesOK
    BY DEF Init, JulesOK, Targets
  <1>5. \A p \in Applier : AppOK(p) /\ ThreadsOK(p)
    BY DEF Init, AppOK, ThreadsOK, NotApplied, NoThread
  <1> QED
    BY <1>3, <1>4, <1>5 DEF IndInv

(* An applier and its threads that do not move keep what they believe.      *)
LEMMA OthersKeep ==
  ASSUME TypeOK, TypeOK', Evolves, NEW p \in Applier, AppOK(p),
         UNCHANGED (apply[p])
  PROVE  AppOK(p)'
  <1>1. plan # NoPlan => plan' # NoPlan /\ Targets' = Targets
    BY DEF Evolves, Targets
  <1>2. plan = NoPlan => Targets = {}
    BY DEF Targets
  <1>3. \A s \in Session : (Gone(s) => Gone(s)' /\ remover'[s] = remover[s])
    BY DEF Evolves
  <1>4. Targets \subseteq Session
    BY TargetsAreSessions
  <1> QED
    BY <1>1, <1>2, <1>3, <1>4 DEF AppOK, Evolves

LEMMA ThreadsKeep ==
  ASSUME Evolves, NEW p \in Applier, ThreadsOK(p), UNCHANGED (thread[p])
  PROVE  ThreadsOK(p)'
  BY DEF ThreadsOK, Evolves

(* One thread of one applier moves.                                         *)
LEMMA ThreadMoves ==
  ASSUME TypeOK, NEW p \in Applier, NEW s \in Session, NEW t \in Thread,
         thread' = [thread EXCEPT ![p] = [thread[p] EXCEPT ![s] = t]]
  PROVE  /\ thread' \in [Applier -> [Session -> Thread]]
         /\ thread'[p][s] = t
         /\ \A r \in Session \ {s} : thread'[p][r] = thread[p][r]
         /\ \A q \in Applier \ {p} : thread'[q] = thread[q]
  BY DEF TypeOK

(* The moves of a thread that a DELETE makes.                               *)
LEMMA ThreadGoesTo ==
  ASSUME TypeOK, NEW p \in Applier, NEW s \in Session,
         NEW label \in {"off", "removed", "absent", "transient", "permanent"},
         ThreadGoes(p, s, label)
  PROVE  \E t \in Thread : t.pc = label /\
           thread' = [thread EXCEPT ![p] = [thread[p] EXCEPT ![s] = t]]
  <1> DEFINE t == [thread[p][s] EXCEPT !.pc = label]
  <1>1. t \in Thread /\ t.pc = label
    BY DEF TypeOK, Thread, Failed
  <1>2. thread' = [thread EXCEPT ![p] = [thread[p] EXCEPT ![s] = t]]
    BY DEF ThreadGoes
  <1> QED
    BY <1>1, <1>2

LEMMA RetryGoesTo ==
  ASSUME TypeOK, NEW p \in Applier, NEW s \in Session, thread[p][s].pc = "off",
         RetryOrFail(p, s)
  PROVE  \E t \in Thread : t.pc \in {"off", "transient"} /\
           thread' = [thread EXCEPT ![p] = [thread[p] EXCEPT ![s] = t]]
  <1> DEFINE t == [thread[p][s] EXCEPT !.tries = @ + 1]
  <1>1. CASE thread[p][s].tries + 1 < Attempts
    <2>1. t \in Thread /\ t.pc = "off"
      BY <1>1, BoundAssumption DEF TypeOK, Thread
    <2>2. thread' = [thread EXCEPT ![p] = [thread[p] EXCEPT ![s] = t]]
      BY <1>1 DEF RetryOrFail
    <2> QED
      BY <2>1, <2>2
  <1>2. CASE ~(thread[p][s].tries + 1 < Attempts)
    BY <1>2, ThreadGoesTo DEF RetryOrFail
  <1> QED
    BY <1>1, <1>2

(* One applier moves to a.                                                  *)
LEMMA ApplyMoves ==
  ASSUME TypeOK, NEW p \in Applier, NEW a \in Apply,
         apply' = [apply EXCEPT ![p] = a]
  PROVE  /\ apply' \in [Applier -> Apply]
         /\ apply'[p] = a
         /\ \A q \in Applier \ {p} : apply'[q] = apply[q]
  BY DEF TypeOK

LEMMA EvolvesStep ==
  ASSUME IndInv, [Next]_vars
  PROVE  Evolves
  <1>0. remote \in [Session -> {"unborn", "present", "gone"}]
        /\ remover \in [Session -> Applier \cup {"nobody"}]
    BY DEF IndInv, TypeOK
  <1>1. ASSUME PlanPrune \/ PlanDrain PROVE Evolves
    BY <1>1 DEF PlanPrune, PlanDrain, Evolves, Gone, remoteVars
  <1>2. ASSUME NEW p \in Applier,
               RemoveSessions(p) \/ StartApply(p) \/ ReportDrain(p) \/ Enumerate(p)
               \/ EnumerateFails(p) \/ Settle(p) \/ Crash(p)
        PROVE  Evolves
    BY <1>2
    DEF RemoveSessions, StartApply, ReportDrain, Enumerate, EnumerateFails, Settle,
        Crash, Evolves, Gone, remoteVars
  <1>3. ASSUME NEW p \in Applier, NEW s \in Session, Delete(p, s) PROVE Evolves
    BY <1>0, <1>3 DEF Delete, Present, Evolves, Gone
  <1>4. ASSUME NEW p \in Applier, NEW s \in Session, Collect(p, s) PROVE Evolves
    BY <1>4 DEF Collect, Evolves, Gone, remoteVars
  <1>5. ASSUME NEW s \in Session,
               \/ DeleteLate(s) \/ SessionAppears(s) \/ SessionChanges(s)
               \/ SessionVanishes(s)
        PROVE  Evolves
    BY <1>0, <1>5
    DEF DeleteLate, SessionAppears, SessionChanges, SessionVanishes, Present, Evolves,
        Gone
  <1>6. ASSUME UNCHANGED vars PROVE Evolves
    BY <1>6 DEF vars, Evolves, Gone, remoteVars
  <1> QED
    BY <1>1, <1>2, <1>3, <1>4, <1>5, <1>6 DEF Next, Step

(* A pass that begins.                                                      *)
LEMMA PassBegins ==
  ASSUME NEW a \in Apply, NEW pass \in 0 .. Passes, NEW todo \in SUBSET Session
  PROVE  LET b == [a EXCEPT !.pc = "delete", !.pass = pass, !.todo = todo,
                            !.fleet = {}, !.match = {}]
         IN  /\ b \in Apply /\ b.pc = "delete" /\ b.pass = pass /\ b.todo = todo
             /\ b.result = a.result /\ b.report = a.report
  BY DEF Apply

(* An application that comes to its report.                                 *)
LEMMA Finishes ==
  ASSUME NEW a \in Apply, NEW report \in {"completed", "partial"}
  PROVE  LET b == [a EXCEPT !.pc = "done", !.report = report, !.fleet = {}, !.match = {}]
         IN  /\ b \in Apply /\ b.pc = "done" /\ b.todo = a.todo
             /\ b.result = a.result /\ b.report = report
  BY DEF Apply

(* A step that changes only what one applier believes.                      *)
LEMMA OneApplier ==
  ASSUME IndInv, Evolves, NEW p \in Applier, NEW a \in Apply,
         apply' = [apply EXCEPT ![p] = a], AppOK(p)',
         UNCHANGED <<remoteVars, plan, thread, marked>>
  PROVE  IndInv'
  <1>1. TypeOK'
    BY ApplyMoves DEF IndInv, TypeOK, remoteVars
  <1>2. JulesOK'
    BY DEF IndInv, JulesOK, Targets, Gone, remoteVars
  <1>3. \A q \in Applier : ThreadsOK(q)'
    BY ThreadsKeep DEF IndInv
  <1>4. \A q \in Applier \ {p} : AppOK(q)'
    BY <1>1, ApplyMoves, OthersKeep DEF IndInv
  <1> QED
    BY <1>1, <1>2, <1>3, <1>4 DEF IndInv

LEMMA StartsKeep ==
  ASSUME IndInv, Evolves, NEW p \in Applier, RemoveSessions(p) \/ StartApply(p)
  PROVE  IndInv'
  <1>a. /\ apply[p] \in Apply /\ 1 \in 0 .. Passes
        /\ {"prune", "rm", "drain"} \subseteq {"none", "prune", "rm", "drain"}
    BY BoundAssumption DEF IndInv, TypeOK
  <1>b. AppOK(p) /\ TypeOK
    BY DEF IndInv
  <1>1. ASSUME NEW command \in {"prune", "rm", "drain"}, NEW ids \in SUBSET Session,
               Start(p, command, ids)
        PROVE  \E b \in Apply :
                 /\ apply' = [apply EXCEPT ![p] = b]
                 /\ b.pc = "delete" /\ b.pass = 1 /\ b.todo = ids
                 /\ b.result = apply[p].result /\ b.report = apply[p].report
    <2> DEFINE c == [apply[p] EXCEPT !.command = command]
    <2>1. c \in Apply /\ c.result = apply[p].result /\ c.report = apply[p].report
      BY <1>a DEF Apply
    <2>2. BeginPass(p, c, 1, ids)
      BY <1>1 DEF Start
    <2> HIDE DEF c
    <2> DEFINE b == [c EXCEPT !.pc = "delete", !.pass = 1, !.todo = ids,
                             !.fleet = {}, !.match = {}]
    <2>3. apply' = [apply EXCEPT ![p] = b]
      BY <2>2 DEF BeginPass
    <2>4. /\ b \in Apply /\ b.pc = "delete" /\ b.pass = 1 /\ b.todo = ids
          /\ b.result = c.result /\ b.report = c.report
      BY <1>a, <2>1 DEF Apply
    <2> HIDE DEF b
    <2> QED
      BY <2>1, <2>3, <2>4
  <1>2. ASSUME RemoveSessions(p) PROVE IndInv'
    <2>1. PICK ids \in SUBSET {s \in Session : remote[s] # "unborn"} :
            /\ plan' = [kind |-> "rm", targets |-> ids, baseline |-> {}]
            /\ Start(p, "rm", ids)
      BY <1>2 DEF RemoveSessions
    <2>2. PICK b \in Apply :
                 /\ apply' = [apply EXCEPT ![p] = b]
                 /\ b.pc = "delete" /\ b.pass = 1 /\ b.todo = ids
                 /\ b.result = apply[p].result /\ b.report = apply[p].report
      BY <1>1, <2>1
    <2>3. /\ plan = NoPlan /\ Targets = {} /\ plan' \in Plan /\ plan' # NoPlan
          /\ plan'.kind = "rm" /\ Targets' = ids
          /\ UNCHANGED <<remoteVars, thread, marked>>
      BY <1>2, <2>1 DEF RemoveSessions, Targets, Plan, NoPlan
    <2>4. TypeOK'
      BY <1>b, <2>2, <2>3, ApplyMoves DEF TypeOK, remoteVars
    <2>5. JulesOK'
      BY <2>3 DEF IndInv, JulesOK, Gone, remoteVars
    <2>6. AppOK(p)'
      BY <1>b, <2>2, <2>3, ApplyMoves DEF AppOK, Gone, remoteVars
    <2>7. \A q \in Applier \ {p} : AppOK(q)'
      BY <1>b, <2>2, <2>4, ApplyMoves, OthersKeep DEF IndInv
    <2>8. \A q \in Applier : ThreadsOK(q)'
      BY <2>3, ThreadsKeep DEF IndInv
    <2> QED
      BY <2>4, <2>5, <2>6, <2>7, <2>8 DEF IndInv
  <1>3. ASSUME StartApply(p) PROVE IndInv'
    <2>1. /\ plan # NoPlan /\ apply[p].pc = "idle"
          /\ \E command \in {"prune", "drain"} : Start(p, command, plan.targets)
          /\ UNCHANGED <<remoteVars, plan, thread, marked>>
      BY <1>3 DEF StartApply, At
    <2>2. plan.targets = Targets /\ Targets \in SUBSET Session
      BY <1>b, <2>1, TargetsAreSessions DEF Targets
    <2>3. PICK b \in Apply :
                 /\ apply' = [apply EXCEPT ![p] = b]
                 /\ b.pc = "delete" /\ b.pass = 1 /\ b.todo = Targets
                 /\ b.result = apply[p].result /\ b.report = apply[p].report
      BY <1>1, <2>1, <2>2
    <2>4. AppOK(p)'
      BY <1>b, <2>1, <2>3, ApplyMoves DEF AppOK, Gone, Targets, remoteVars
    <2> QED
      BY <2>1, <2>3, <2>4, OneApplier
  <1> QED
    BY <1>2, <1>3

-----------------------------------------------------------------------------
LEMMA DeleteKeeps ==
  ASSUME IndInv, Evolves, NEW p \in Applier, NEW s \in Session, Delete(p, s)
  PROVE  IndInv'
  <1>a. TypeOK /\ thread[p][s].pc = "off" /\ s \in Targets /\ At(p, "delete")
    BY DEF IndInv, Delete, MayDelete, AppOK
  <1>b. UNCHANGED <<matching, plan, apply, marked>> /\ Targets' = Targets
    BY DEF Delete, Targets
  <1>1. \/ /\ remote[s] = "present"
           /\ remote' = [remote EXCEPT ![s] = "gone"]
           /\ remover' = [remover EXCEPT ![s] = p]
           /\ ThreadGoes(p, s, "removed") \/ RetryOrFail(p, s)
           /\ UNCHANGED late
        \/ /\ remote[s] = "gone" /\ ThreadGoes(p, s, "absent")
           /\ UNCHANGED <<remote, late, remover>>
        \/ ThreadGoes(p, s, "permanent") /\ UNCHANGED <<remote, late, remover>>
        \/ /\ RetryOrFail(p, s)
           /\ late' \in {late, late \cup {s}}
           /\ UNCHANGED <<remote, remover>>
    BY <1>a DEF Delete, Absent, Present, IndInv, JulesOK, TypeOK
  <1>2. PICK t \in Thread :
          /\ thread' = [thread EXCEPT ![p] = [thread[p] EXCEPT ![s] = t]]
          /\ t.pc \in {"removed", "absent"} => Gone(s)'
          /\ t.pc = "removed" => remover'[s] = p
    <2>1. CASE /\ remote[s] = "present"
               /\ remote' = [remote EXCEPT ![s] = "gone"]
               /\ remover' = [remover EXCEPT ![s] = p]
               /\ ThreadGoes(p, s, "removed") \/ RetryOrFail(p, s)
      <3>1. remote'[s] = "gone" /\ remover'[s] = p
        BY <1>a, <2>1 DEF TypeOK
      <3> QED
        BY <1>a, <2>1, <3>1, ThreadGoesTo, RetryGoesTo DEF Gone
    <2>2. CASE /\ remote[s] = "gone" /\ ThreadGoes(p, s, "absent")
               /\ UNCHANGED <<remote, late, remover>>
      BY <1>a, <2>2, ThreadGoesTo DEF Gone
    <2>3. CASE ThreadGoes(p, s, "permanent")
      BY <1>a, <2>3, ThreadGoesTo
    <2>4. CASE RetryOrFail(p, s)
      BY <1>a, <2>4, RetryGoesTo
    <2> QED
      BY <1>1, <2>1, <2>2, <2>3, <2>4
  <1>3. TypeOK'
    <2>1. /\ remote' \in [Session -> {"unborn", "present", "gone"}]
          /\ remover' \in [Session -> Applier \cup {"nobody"}]
          /\ late' \subseteq Session
      BY <1>1, <1>a DEF TypeOK
    <2> QED
      BY <1>2, <1>a, <1>b, <2>1, ThreadMoves DEF TypeOK
  <1>4. JulesOK'
    <2>1. late' \subseteq Targets'
      BY <1>1, <1>a, <1>b DEF IndInv, JulesOK
    <2>2. \A r \in Session : remover'[r] # "nobody" => r \in Targets' /\ Gone(r)'
      BY <1>1, <1>a, <1>b DEF IndInv, JulesOK, Gone, TypeOK
    <2>3. \A r \in Targets' : remote'[r] # "unborn"
      BY <1>a, <1>b, TargetsAreSessions DEF IndInv, JulesOK, Evolves
    <2>4. \A r \in marked' : Gone(r)'
      BY <1>a, <1>b DEF IndInv, JulesOK, Evolves, TypeOK
    <2> QED
      BY <2>1, <2>2, <2>3, <2>4 DEF JulesOK
  <1>5. \A q \in Applier : AppOK(q)'
    BY <1>a, <1>b, <1>3, OthersKeep DEF IndInv
  <1>6. ThreadsOK(p)'
    BY <1>2, <1>a, ThreadMoves DEF IndInv, ThreadsOK, Evolves
  <1>7. \A q \in Applier \ {p} : ThreadsOK(q)'
    BY <1>2, <1>a, ThreadMoves, ThreadsKeep DEF IndInv
  <1> QED
    BY <1>3, <1>4, <1>5, <1>6, <1>7 DEF IndInv

LEMMA CollectKeeps ==
  ASSUME IndInv, Evolves, NEW p \in Applier, NEW s \in Session, Collect(p, s)
  PROVE  IndInv'
  <1> DEFINE ending == thread[p][s].pc
             current == CASE ending = "removed" -> "deleted"
                          [] ending = "absent"  -> "already_absent"
                          [] OTHER              -> ending
             kept == PreferResult(apply[p].result[s], current)
             a == [apply[p] EXCEPT !.todo = @ \ {s},
                                   !.result = [@ EXCEPT ![s] = kept]]
  <1>a. /\ TypeOK /\ AppOK(p) /\ ThreadsOK(p) /\ apply[p] \in Apply
        /\ ending \in {"removed", "absent"} \cup Failed
        /\ apply[p].result[s] \in Outcome
        /\ At(p, "delete")
    BY DEF IndInv, TypeOK, Collect, Thread, Apply
  <1>1. current \in Outcome
    BY <1>a DEF Outcome, Failed
  <1>2. kept \in {apply[p].result[s], current}
    BY DEF PreferResult
  <1>3. /\ current \in {"already_absent", "deleted"} => Gone(s)
        /\ current = "deleted" => remover[s] = p
    BY <1>a DEF ThreadsOK, Failed
  <1>4. apply' = [apply EXCEPT ![p] = a]
    BY DEF Collect
  <1>5. /\ thread' = [thread EXCEPT ![p] = [thread[p] EXCEPT ![s] = NoThread]]
        /\ UNCHANGED <<remoteVars, plan>> /\ Targets' = Targets
    BY DEF Collect, Targets
  <1>6. marked' = marked \/ (marked' = marked \cup {s} /\ Gone(s))
    BY <1>a DEF Collect, Marks, ThreadsOK
  <1> HIDE DEF ending, current, kept
  <1>7. /\ a \in Apply /\ a.todo = apply[p].todo \ {s} /\ a.pc = apply[p].pc
        /\ a.pass = apply[p].pass /\ a.fleet = apply[p].fleet
        /\ a.report = apply[p].report
        /\ a.result[s] = kept
        /\ \A r \in Session \ {s} : a.result[r] = apply[p].result[r]
    BY <1>a, <1>1, <1>2 DEF Apply
  <1> HIDE DEF a
  <1>8. NoThread \in Thread /\ NoThread.pc = "off"
    BY BoundAssumption DEF NoThread, Thread
  <1>9. TypeOK'
    BY <1>a, <1>4, <1>5, <1>6, <1>7, <1>8, ApplyMoves, ThreadMoves DEF TypeOK, remoteVars
  <1>10. JulesOK'
    BY <1>5, <1>6 DEF IndInv, JulesOK, Gone, remoteVars
  <1>11. apply'[p] = a /\ \A q \in Applier \ {p} : apply'[q] = apply[q]
    BY <1>a, <1>4, <1>7, ApplyMoves
  <1>12. AppOK(p)'
    BY <1>a, <1>2, <1>3, <1>5, <1>7, <1>11 DEF AppOK, Gone, remoteVars, At
  <1>13. \A q \in Applier \ {p} : AppOK(q)'
    BY <1>a, <1>9, <1>11, OthersKeep DEF IndInv
  <1>14. ThreadsOK(p)'
    BY <1>a, <1>5, <1>8, ThreadMoves DEF ThreadsOK, Gone, remoteVars
  <1>15. \A q \in Applier \ {p} : ThreadsOK(q)'
    BY <1>a, <1>5, <1>8, ThreadMoves, ThreadsKeep DEF IndInv
  <1> QED
    BY <1>9, <1>10, <1>12, <1>13, <1>14, <1>15 DEF IndInv

-----------------------------------------------------------------------------
(* An application that reports success has accounted for every target.      *)
LEMMA ReportKeeps ==
  ASSUME IndInv, Evolves, NEW p \in Applier, NEW a \in Apply,
         NEW report \in {"completed", "partial"}, Finish(p, a, report),
         plan # NoPlan, a.todo \subseteq Targets,
         \A s \in Session : a.result[s] \in {"already_absent", "deleted"} => Gone(s),
         \A s \in Session : a.result[s] = "deleted" => remover[s] = p,
         report = "completed" => \A s \in Targets : Gone(s),
         UNCHANGED <<remoteVars, plan>>
  PROVE  AppOK(p)' /\ \E b \in Apply : apply' = [apply EXCEPT ![p] = b]
  <1> DEFINE b == [a EXCEPT !.pc = "done", !.report = report, !.fleet = {}, !.match = {}]
  <1>1. /\ b \in Apply /\ b.pc = "done" /\ b.todo = a.todo
        /\ b.result = a.result /\ b.report = report
    BY DEF Apply
  <1>2. apply' = [apply EXCEPT ![p] = b]
    BY DEF Finish
  <1> HIDE DEF b
  <1>3. apply'[p] = b
    BY <1>1, <1>2, ApplyMoves DEF IndInv
  <1>4. Targets' = Targets
    BY DEF Targets
  <1>5. AppOK(p)'
    BY <1>1, <1>3, <1>4 DEF AppOK, Gone, remoteVars
  <1> QED
    BY <1>1, <1>2, <1>5

LEMMA SucceededIsGone ==
  ASSUME TypeOK, plan # NoPlan, NEW a \in Apply, Failures(a) = {},
         \A s \in Session : a.result[s] \in {"already_absent", "deleted"} => Gone(s)
  PROVE  \A s \in Targets : Gone(s)
  BY TargetsAreSessions DEF Failures, Targets, Apply, Outcome

LEMMA ReportsKeep ==
  ASSUME IndInv, Evolves, NEW p \in Applier, ReportDrain(p) \/ EnumerateFails(p)
  PROVE  IndInv'
  <1>a. /\ TypeOK /\ AppOK(p) /\ apply[p] \in Apply /\ plan # NoPlan
        /\ UNCHANGED <<remoteVars, plan, thread, marked>>
    BY DEF IndInv, TypeOK, AppOK, ReportDrain, EnumerateFails, Collected, At
  <1>1. PICK report \in {"completed", "partial"} :
          /\ Finish(p, apply[p], report)
          /\ report = "completed" => Failures(apply[p]) = {}
    BY DEF ReportDrain, EnumerateFails
  <1>2. report = "completed" => \A s \in Targets : Gone(s)
    BY <1>a, <1>1, SucceededIsGone DEF AppOK
  <1>3. AppOK(p)' /\ \E b \in Apply : apply' = [apply EXCEPT ![p] = b]
    BY <1>a, <1>1, <1>2, ReportKeeps DEF AppOK
  <1> QED
    BY <1>a, <1>3, OneApplier

LEMMA EnumerateKeeps ==
  ASSUME IndInv, Evolves, NEW p \in Applier, Enumerate(p)
  PROVE  IndInv'
  <1>a. /\ TypeOK /\ AppOK(p) /\ apply[p] \in Apply /\ apply[p].pc = "delete"
        /\ UNCHANGED <<remoteVars, plan, thread, marked>> /\ Targets' = Targets
    BY DEF IndInv, TypeOK, Enumerate, Collected, At, Targets
  <1>1. PICK lingering \in SUBSET {s \in Session : remote[s] = "gone"} :
          apply' = [apply EXCEPT ![p].pc = "settle",
                      ![p].fleet = Present \cup lingering,
                      ![p].match = IF plan.kind = "prune"
                                   THEN (Present \cup lingering) \cap matching ELSE {}]
    BY DEF Enumerate
  <1> DEFINE fleet == Present \cup lingering
             match == IF plan.kind = "prune" THEN fleet \cap matching ELSE {}
             b == [apply[p] EXCEPT !.pc = "settle", !.fleet = fleet, !.match = match]
  <1>2. fleet \subseteq Session /\ match \subseteq Session
    BY DEF Present
  <1>3. apply' = [apply EXCEPT ![p] = b]
    BY <1>1
  <1>4. \A s \in Targets : s \notin fleet => Gone(s)
    BY <1>a, TargetsAreSessions DEF Present, Gone, IndInv, JulesOK, TypeOK
  <1> HIDE DEF fleet, match
  <1>5. /\ b \in Apply /\ b.pc = "settle" /\ b.fleet = fleet /\ b.pass = apply[p].pass
        /\ b.todo = apply[p].todo /\ b.result = apply[p].result
        /\ b.report = apply[p].report
    BY <1>a, <1>2 DEF Apply
  <1> HIDE DEF b
  <1>6. apply'[p] = b
    BY <1>a, <1>3, <1>5, ApplyMoves
  <1>7. AppOK(p)'
    BY <1>a, <1>4, <1>5, <1>6 DEF AppOK, Gone, remoteVars, fleet
  <1> QED
    BY <1>a, <1>3, <1>5, <1>7, OneApplier

LEMMA SettleKeeps ==
  ASSUME IndInv, Evolves, NEW p \in Applier, Settle(p)
  PROVE  IndInv'
  <1> DEFINE reconciled == Unseen(apply[p])
             result == [s \in Session |-> IF s \in reconciled
                                   THEN PreferResult(apply[p].result[s], "already_absent")
                                   ELSE apply[p].result[s]]
             a == [apply[p] EXCEPT !.result = result]
             remaining == plan.targets \cap a.fleet
             accounted == plan.kind = "prune"
             last == \/ remaining = {} /\ (accounted => a.match \ plan.baseline = {})
                     \/ a.pass = (IF accounted THEN Passes ELSE 1)
  <1>a. /\ TypeOK /\ AppOK(p) /\ apply[p] \in Apply /\ apply[p].pc = "settle"
        /\ plan # NoPlan /\ plan \in Plan
        /\ UNCHANGED <<remoteVars, plan, thread>> /\ Targets' = Targets
        /\ Targets = plan.targets /\ Targets \subseteq Session
    BY TargetsAreSessions DEF IndInv, TypeOK, Settle, At, AppOK, Targets
  <1>1. \A s \in reconciled : s \in Targets /\ Gone(s)
    BY <1>a DEF Unseen, AppOK
  <1>2. /\ marked' = marked \cup reconciled
        /\ IF last
           THEN Finish(p, a, IF Failures(a) = {} /\ remaining = {}
                             THEN "completed" ELSE "partial")
           ELSE BeginPass(p, a, a.pass + 1, RetrySet(a, remaining))
    BY DEF Settle
  <1>3. \A o \in Outcome : PreferResult(o, "already_absent") \in {o, "already_absent"}
    BY DEF PreferResult
  <1>4. \A s \in Session : apply[p].result[s] \in Outcome
    BY <1>a DEF Apply
  <1>5. /\ result \in [Session -> Outcome]
        /\ \A s \in Session : result[s] \in {"already_absent", "deleted"} => Gone(s)
        /\ \A s \in Session : result[s] = "deleted" => remover[s] = p
    <2>1. ASSUME NEW s \in Session
          PROVE  /\ result[s] \in Outcome
                 /\ result[s] \in {"already_absent", "deleted"} => Gone(s)
                 /\ result[s] = "deleted" => remover[s] = p
      <3>1. CASE s \in reconciled
        BY <1>1, <1>3, <1>4, <1>a, <3>1 DEF AppOK, Outcome
      <3>2. CASE s \notin reconciled
        BY <1>4, <1>a, <3>2 DEF AppOK
      <3> QED
        BY <3>1, <3>2
    <2> QED
      BY <2>1
  <1> HIDE DEF result
  <1>6. /\ a \in Apply /\ a.result = result /\ a.fleet = apply[p].fleet
        /\ a.pass = apply[p].pass /\ a.todo = apply[p].todo /\ a.pc = "settle"
    BY <1>5, <1>a DEF Apply
  <1> HIDE DEF a, reconciled
  <1>7. remaining = {} => \A s \in Targets : Gone(s)
    BY <1>6, <1>a DEF AppOK
  <1>8. AppOK(p)' /\ \E b \in Apply : apply' = [apply EXCEPT ![p] = b]
    <2>1. CASE last
      <3> DEFINE report == IF Failures(a) = {} /\ remaining = {}
                           THEN "completed" ELSE "partial"
      <3>1. Finish(p, a, report)
        BY <1>2, <2>1
      <3>2. report \in {"completed", "partial"}
            /\ (report = "completed" => \A s \in Targets : Gone(s))
        BY <1>7
      <3> HIDE DEF report
      <3> QED
        BY <1>5, <1>6, <1>a, <3>1, <3>2, ReportKeeps DEF AppOK
    <2>2. CASE ~last
      <3> DEFINE pass == a.pass + 1
                 todo == RetrySet(a, remaining)
                 b == [a EXCEPT !.pc = "delete", !.pass = pass, !.todo = todo,
                                !.fleet = {}, !.match = {}]
      <3>1. apply' = [apply EXCEPT ![p] = b]
        BY <1>2, <2>2 DEF BeginPass
      <3>2. accounted /\ a.pass # Passes /\ a.pass \in 0 .. Passes /\ a.pass >= 1
        BY <1>6, <1>a, <2>2 DEF AppOK, Apply
      <3>3. pass \in 0 .. Passes /\ pass >= 1
        BY <3>2, BoundAssumption
      <3>4. todo \subseteq Targets /\ todo \in SUBSET Session
        BY <1>a DEF RetrySet
      <3>5. accounted
        BY <3>2
      <3> HIDE DEF pass, todo
      <3>6. /\ b \in Apply /\ b.pc = "delete" /\ b.pass = pass /\ b.todo = todo
            /\ b.result = result /\ b.report = a.report
        BY <1>6, <3>3, <3>4 DEF Apply
      <3>7. a.report = apply[p].report
        BY <1>a DEF a, Apply
      <3> HIDE DEF b
      <3>8. apply'[p] = b
        BY <1>a, <3>1, <3>6, ApplyMoves
      <3>9. AppOK(p)'
        BY <1>5, <1>a, <3>3, <3>4, <3>5, <3>6, <3>7, <3>8 DEF AppOK, Gone, remoteVars
      <3> QED
        BY <3>1, <3>6, <3>9
    <2> QED
      BY <2>1, <2>2
  <1>9. PICK b \in Apply : apply' = [apply EXCEPT ![p] = b]
    BY <1>8
  <1>10. TypeOK'
    BY <1>1, <1>2, <1>9, <1>a, ApplyMoves DEF TypeOK, remoteVars
  <1>11. JulesOK'
    BY <1>1, <1>2, <1>a DEF IndInv, JulesOK, Gone, remoteVars
  <1>12. \A q \in Applier \ {p} : AppOK(q)'
    BY <1>9, <1>10, <1>a, ApplyMoves, OthersKeep DEF IndInv
  <1>13. \A q \in Applier : ThreadsOK(q)'
    BY <1>a, ThreadsKeep DEF IndInv
  <1> QED
    BY <1>8, <1>10, <1>11, <1>12, <1>13 DEF IndInv

LEMMA CrashKeeps ==
  ASSUME IndInv, Evolves, NEW p \in Applier, Crash(p)
  PROVE  IndInv'
  <1>a. /\ TypeOK /\ NotApplied \in Apply
        /\ [s \in Session |-> NoThread] \in [Session -> Thread]
        /\ UNCHANGED <<remote, matching, remover, plan, marked>> /\ Targets' = Targets
    BY BoundAssumption
    DEF IndInv, Crash, Targets, NotApplied, Apply, Outcome, NoThread, Thread
  <1>1. /\ apply' = [apply EXCEPT ![p] = NotApplied]
        /\ thread' = [thread EXCEPT ![p] = [s \in Session |-> NoThread]]
        /\ late' \subseteq late \cup {s \in Session : s \in apply[p].todo}
    BY DEF Crash, MayDelete
  <1>2. late' \subseteq Targets'
    BY <1>1, <1>a DEF IndInv, JulesOK, AppOK
  <1>3. /\ apply'[p] = NotApplied
        /\ \A q \in Applier \ {p} : apply'[q] = apply[q] /\ thread'[q] = thread[q]
        /\ thread'[p] = [s \in Session |-> NoThread]
    BY <1>1, <1>a DEF TypeOK
  <1>4. TypeOK'
    BY <1>1, <1>a DEF TypeOK
  <1>5. JulesOK'
    BY <1>2, <1>a DEF IndInv, JulesOK, Gone
  <1>6. AppOK(p)' /\ ThreadsOK(p)'
    BY <1>3 DEF AppOK, ThreadsOK, NotApplied, NoThread
  <1>7. \A q \in Applier \ {p} : AppOK(q)' /\ ThreadsOK(q)'
    BY <1>3, <1>4, <1>a, OthersKeep, ThreadsKeep DEF IndInv
  <1> QED
    BY <1>4, <1>5, <1>6, <1>7 DEF IndInv

(* Steps that move no applier: a plan is stored, or Jules acts.             *)
LEMMA OutsideKeeps ==
  ASSUME IndInv, Evolves,
         \/ PlanPrune \/ PlanDrain \/ UNCHANGED vars
         \/ \E s \in Session : \/ DeleteLate(s) \/ SessionAppears(s)
                               \/ SessionChanges(s) \/ SessionVanishes(s)
  PROVE  IndInv'
  <1>a. TypeOK /\ Targets \subseteq Session
    BY TargetsAreSessions DEF IndInv
  <1>1. /\ UNCHANGED <<apply, thread, marked, remover>> /\ late' \subseteq late
    BY DEF PlanPrune, PlanDrain, DeleteLate, SessionAppears, SessionChanges,
           SessionVanishes, vars, remoteVars
  <1>2. TypeOK'
    BY <1>a
    DEF PlanPrune, PlanDrain, DeleteLate, SessionAppears, SessionChanges,
        SessionVanishes, vars, remoteVars, TypeOK, Plan, Present
  <1>3. Targets \subseteq Targets' /\ \A s \in Targets' : remote'[s] # "unborn"
    <2>1. CASE UNCHANGED plan
      BY <1>a, <2>1 DEF Targets, Evolves, IndInv, JulesOK
    <2>2. CASE PlanPrune \/ PlanDrain
      <3>1. plan = NoPlan /\ plan'.targets = Present \cap matching /\ UNCHANGED remote
            /\ plan' # NoPlan
        BY <2>2 DEF PlanPrune, PlanDrain, remoteVars, NoPlan
      <3> QED
        BY <3>1 DEF Targets, Present
    <2> QED
      BY <2>1, <2>2
      DEF DeleteLate, SessionAppears, SessionChanges, SessionVanishes, vars
  <1>4. JulesOK'
    BY <1>1, <1>3, <1>a DEF IndInv, JulesOK, Evolves, TypeOK
  <1>5. \A q \in Applier : AppOK(q)' /\ ThreadsOK(q)'
    BY <1>1, <1>2, <1>a, OthersKeep, ThreadsKeep DEF IndInv
  <1> QED
    BY <1>2, <1>4, <1>5 DEF IndInv

LEMMA NextInv == IndInv /\ [Next]_vars => IndInv'
  <1> SUFFICES ASSUME IndInv, [Next]_vars PROVE IndInv'
    OBVIOUS
  <1>1. Evolves
    BY EvolvesStep
  <1> QED
    BY <1>1, StartsKeep, DeleteKeeps, CollectKeeps, ReportsKeep, EnumerateKeeps,
       SettleKeeps, CrashKeeps, OutsideKeeps
    DEF Next, Step

-----------------------------------------------------------------------------
(* IndInv holds in every state that applying plans reaches.                 *)
THEOREM Inductive == Spec => []IndInv
  BY InitInv, NextInv, PTL DEF Spec

(* Every variable keeps its type; in particular no application exceeds its  *)
(* passes and no DELETE its attempts.                                       *)
THEOREM TypeCorrect == Spec => []TypeOK
  <1>1. IndInv => TypeOK
    BY DEF IndInv
  <1> QED
    BY <1>1, Inductive, PTL

(* Whatever is or may still be removed by a DELETE is a stored target.      *)
THEOREM StoredTargetsOnly == Spec => []OnlyStoredTargets
  <1>1. IndInv => OnlyStoredTargets
    BY DEF IndInv, JulesOK, OnlyStoredTargets, Targets
  <1> QED
    BY <1>1, Inductive, PTL

(* A row is marked deleted only when its session is gone.                   *)
THEOREM MarksAreTrue == Spec => []MarkedIsGone
  <1>1. IndInv => MarkedIsGone
    BY DEF IndInv, JulesOK, MarkedIsGone, Gone
  <1> QED
    BY <1>1, Inductive, PTL

(* A plan reported completed has no target left.                            *)
THEOREM CompletionIsTrue == Spec => []CompletedMeansGone
  <1>1. IndInv => CompletedMeansGone
    BY DEF IndInv, AppOK, CompletedMeansGone, Gone, Targets
  <1> QED
    BY <1>1, Inductive, PTL

(* Two applications never both claim a removal.                             *)
THEOREM ClaimsAreTrue == Spec => []DeletedOnce
  <1>1. IndInv => DeletedOnce
    BY DEF IndInv, AppOK, ThreadsOK, DeletedOnce, Claims
  <1> QED
    BY <1>1, Inductive, PTL

-----------------------------------------------------------------------------
(* An application runs down: a pass is one step nearer to its end when a    *)
(* thread used an attempt or ended, when one target less is to be           *)
(* collected, or when it has been enumerated; and passes are counted.       *)
Phase(label) == CASE label = "delete" -> 2 [] label = "settle" -> 1 [] OTHER -> 0

(* A thread that has less to do at t than at u.                             *)
Ahead(t, u) == u.pc = "off" /\ (t.pc # "off" \/ t.tries > u.tries)

(* An application at c with its threads at t is nearer to its report than   *)
(* at d with its threads at u.                                              *)
Nearer(c, d, t, u) ==
    \/ Phase(c.pc) = 0
    \/ c.pass > d.pass
    \/ c.pass = d.pass /\ Phase(c.pc) < Phase(d.pc)
    \/ /\ c.pass = d.pass /\ c.pc = d.pc
       /\ c.todo \subseteq d.todo /\ c.todo # d.todo
    \/ /\ c.pass = d.pass /\ c.pc = d.pc /\ c.todo = d.todo
       /\ \E s \in d.todo : Ahead(t[s], u[s]) /\ \A r \in Session \ {s} : t[r] = u[r]

(* No step of an application that runs is a detour: whatever Jules and the  *)
(* other processes do, each brings it nearer to its report.                 *)
AppliesRunDown ==
    [][\A p \in Applier :
         \/ apply[p].pc \in {"idle", "done"}
         \/ UNCHANGED <<apply[p], thread[p]>>
         \/ Nearer(apply'[p], apply[p], thread'[p], thread[p])]_vars

(* A thread runs only for a target that is still to be collected.           *)
ThreadsServe ==
    \A p \in Applier, s \in Session :
        thread[p][s] # NoThread => apply[p].pc = "delete" /\ s \in apply[p].todo

LEMMA ServeInit == Init => ThreadsServe
  BY DEF Init, ThreadsServe

LEMMA ServeNext == IndInv /\ ThreadsServe /\ [Next]_vars => ThreadsServe'
  <1> SUFFICES ASSUME IndInv, ThreadsServe, [Next]_vars PROVE ThreadsServe'
    OBVIOUS
  <1>a. /\ TypeOK /\ apply \in [Applier -> Apply]
        /\ thread \in [Applier -> [Session -> Thread]]
    BY DEF IndInv, TypeOK
  <1>1. ASSUME NEW p \in Applier, RemoveSessions(p) \/ StartApply(p)
        PROVE  ThreadsServe'
    <2>1. /\ apply[p].pc = "idle" /\ UNCHANGED thread
          /\ \A q \in Applier \ {p} : apply'[q] = apply[q]
      BY <1>1, <1>a DEF RemoveSessions, StartApply, Start, BeginPass, At
    <2> QED
      BY <2>1 DEF ThreadsServe
  <1>2. ASSUME NEW p \in Applier, NEW s \in Session, Delete(p, s)
        PROVE  ThreadsServe'
    <2>1. UNCHANGED apply /\ apply[p].pc = "delete" /\ s \in apply[p].todo
          /\ thread[p][s].pc = "off"
      BY <1>2 DEF Delete, MayDelete, At
    <2>2. \E t \in Thread :
            thread' = [thread EXCEPT ![p] = [thread[p] EXCEPT ![s] = t]]
      BY <1>2, <1>a, <2>1, ThreadGoesTo, RetryGoesTo DEF Delete, Absent
    <2>3. /\ \A r \in Session \ {s} : thread'[p][r] = thread[p][r]
          /\ \A q \in Applier \ {p} : thread'[q] = thread[q]
      BY <1>a, <2>2, ThreadMoves
    <2> QED
      BY <2>1, <2>3 DEF ThreadsServe
  <1>3. ASSUME NEW p \in Applier, NEW s \in Session, Collect(p, s)
        PROVE  ThreadsServe'
    <2>1. /\ apply'[p].pc = apply[p].pc /\ apply'[p].todo = apply[p].todo \ {s}
          /\ \A q \in Applier \ {p} : apply'[q] = apply[q]
      BY <1>3, <1>a DEF Collect, Apply
    <2>2. /\ thread'[p][s] = NoThread
          /\ \A r \in Session \ {s} : thread'[p][r] = thread[p][r]
          /\ \A q \in Applier \ {p} : thread'[q] = thread[q]
      BY <1>3, <1>a DEF Collect
    <2> QED
      BY <2>1, <2>2 DEF ThreadsServe
  <1>4. ASSUME NEW p \in Applier,
               ReportDrain(p) \/ Enumerate(p) \/ EnumerateFails(p) \/ Settle(p)
        PROVE  ThreadsServe'
    <2>1. /\ UNCHANGED thread
          /\ apply[p].pc = "settle" \/ apply[p].todo = {}
          /\ \A q \in Applier \ {p} : apply'[q] = apply[q]
      BY <1>4, <1>a DEF ReportDrain, Enumerate, EnumerateFails, Settle, Collected, At,
                        Finish, BeginPass
    <2>2. \A s \in Session : thread[p][s] = NoThread
      BY <2>1 DEF ThreadsServe
    <2> QED
      BY <2>1, <2>2 DEF ThreadsServe
  <1>5. ASSUME NEW p \in Applier, Crash(p) PROVE ThreadsServe'
    <2>1. /\ \A s \in Session : thread'[p][s] = NoThread
          /\ \A q \in Applier \ {p} : apply'[q] = apply[q] /\ thread'[q] = thread[q]
      BY <1>5, <1>a DEF Crash
    <2> QED
      BY <2>1 DEF ThreadsServe
  <1>6. ASSUME UNCHANGED <<apply, thread>> PROVE ThreadsServe'
    BY <1>6 DEF ThreadsServe
  <1> QED
    BY <1>1, <1>2, <1>3, <1>4, <1>5, <1>6
    DEF Next, Step, PlanPrune, PlanDrain, DeleteLate, SessionAppears, SessionChanges,
        SessionVanishes, vars

(* A DELETE that was answered, or not, leaves its thread ahead.             *)
LEMMA DeleteAdvances ==
  ASSUME IndInv, NEW p \in Applier, NEW s \in Session, Delete(p, s)
  PROVE  Nearer(apply'[p], apply[p], thread'[p], thread[p])
  <1>a. TypeOK /\ thread \in [Applier -> [Session -> Thread]]
    BY DEF IndInv, TypeOK
  <1>1. UNCHANGED apply /\ s \in apply[p].todo /\ thread[p][s].pc = "off"
    BY DEF Delete, MayDelete
  <1>2. \/ \E label \in {"removed", "absent", "transient", "permanent"} :
             ThreadGoes(p, s, label)
        \/ thread' = [thread EXCEPT ![p][s].tries = @ + 1]
    BY DEF Delete, Absent, RetryOrFail
  <1>3. /\ thread'[p][s].pc # "off" \/ thread'[p][s].tries > thread[p][s].tries
        /\ \A r \in Session \ {s} : thread'[p][r] = thread[p][r]
    <2>1. ASSUME NEW label \in {"removed", "absent", "transient", "permanent"},
                 ThreadGoes(p, s, label)
          PROVE  /\ thread'[p][s].pc # "off"
                 /\ \A r \in Session \ {s} : thread'[p][r] = thread[p][r]
      <3>1. PICK t \in Thread :
              /\ t.pc = label
              /\ thread' = [thread EXCEPT ![p] = [thread[p] EXCEPT ![s] = t]]
        BY <1>a, <2>1, ThreadGoesTo
      <3> QED
        BY <1>a, <3>1, ThreadMoves
    <2>2. ASSUME thread' = [thread EXCEPT ![p][s].tries = @ + 1]
          PROVE  /\ thread'[p][s].tries > thread[p][s].tries
                 /\ \A r \in Session \ {s} : thread'[p][r] = thread[p][r]
      <3>1. thread[p][s].tries \in Nat
        BY <1>a, BoundAssumption DEF Thread
      <3>2. /\ thread'[p][s] = [thread[p][s] EXCEPT !.tries = @ + 1]
            /\ \A r \in Session \ {s} : thread'[p][r] = thread[p][r]
        BY <1>a, <2>2
      <3>3. thread'[p][s].tries = thread[p][s].tries + 1
        BY <1>a, <3>2 DEF Thread
      <3> QED
        BY <3>1, <3>2, <3>3
    <2> QED
      BY <1>2, <2>1, <2>2
  <1>4. Ahead(thread'[p][s], thread[p][s])
    BY <1>1, <1>3 DEF Ahead
  <1> QED
    BY <1>1, <1>3, <1>4 DEF Nearer

(* A pass that is settled ends the application or is followed by the next.  *)
LEMMA SettleAdvances ==
  ASSUME IndInv, NEW p \in Applier, Settle(p)
  PROVE  Nearer(apply'[p], apply[p], thread'[p], thread[p])
  <1>a. apply \in [Applier -> Apply] /\ apply[p].pass \in Nat
    BY BoundAssumption DEF IndInv, TypeOK, Apply
  <1>1. PICK a : /\ a.pass = apply[p].pass
                 /\ \/ \E report : Finish(p, a, report)
                    \/ \E todo : BeginPass(p, a, a.pass + 1, todo)
                 /\ DOMAIN a = DOMAIN apply[p]
    <2> DEFINE c == [apply[p] EXCEPT !.result =
                [s \in Session |-> IF s \in Unseen(apply[p])
                                   THEN PreferResult(apply[p].result[s], "already_absent")
                                   ELSE apply[p].result[s]]]
    <2>1. c.pass = apply[p].pass /\ DOMAIN c = DOMAIN apply[p]
      BY <1>a DEF Apply
    <2>2. \/ \E report : Finish(p, c, report)
          \/ \E todo : BeginPass(p, c, c.pass + 1, todo)
      BY DEF Settle
    <2> HIDE DEF c
    <2> QED
      BY <2>1, <2>2
  <1>2. DOMAIN a = {"pc", "command", "pass", "todo", "result", "fleet", "match", "report"}
    BY <1>1, <1>a DEF Apply
  <1>3. CASE \E report : Finish(p, a, report)
    <2>1. apply'[p].pc = "done"
      BY <1>2, <1>3, <1>a DEF Finish
    <2> QED
      BY <2>1 DEF Nearer, Phase
  <1>4. CASE \E todo : BeginPass(p, a, a.pass + 1, todo)
    <2>1. apply'[p].pass = a.pass + 1
      BY <1>2, <1>4, <1>a DEF BeginPass
    <2> QED
      BY <1>1, <1>a, <2>1 DEF Nearer
  <1> QED
    BY <1>1, <1>3, <1>4

LEMMA ApplierAdvances ==
  ASSUME IndInv, ThreadsServe, NEW p \in Applier, Step(p) \/ Crash(p)
  PROVE  Nearer(apply'[p], apply[p], thread'[p], thread[p])
  <1>a. apply \in [Applier -> Apply]
    BY DEF IndInv, TypeOK
  <1>1. ASSUME NEW s \in Session, Collect(p, s)
        PROVE  Nearer(apply'[p], apply[p], thread'[p], thread[p])
    <2>1. s \in apply[p].todo
      BY <1>1 DEF Collect, ThreadsServe, NoThread
    <2>2. /\ apply'[p].pc = apply[p].pc /\ apply'[p].todo = apply[p].todo \ {s}
          /\ apply'[p].pass = apply[p].pass
      BY <1>1, <1>a DEF Collect, Apply
    <2> QED
      BY <2>1, <2>2 DEF Nearer
  <1>2. ASSUME ReportDrain(p) \/ EnumerateFails(p) \/ Crash(p)
        PROVE  Nearer(apply'[p], apply[p], thread'[p], thread[p])
    <2>1. \/ \E report : Finish(p, apply[p], report)
          \/ apply' = [apply EXCEPT ![p] = NotApplied]
      BY <1>2 DEF ReportDrain, EnumerateFails, Crash
    <2>2. ASSUME NEW report, Finish(p, apply[p], report) PROVE apply'[p].pc = "done"
      BY <2>2, <1>a DEF Finish, Apply
    <2>3. ASSUME apply' = [apply EXCEPT ![p] = NotApplied] PROVE apply'[p].pc = "idle"
      BY <2>3, <1>a DEF NotApplied
    <2> QED
      BY <2>1, <2>2, <2>3 DEF Nearer, Phase
  <1>3. ASSUME Enumerate(p)
        PROVE  Nearer(apply'[p], apply[p], thread'[p], thread[p])
    <2>1. /\ apply[p].pc = "delete" /\ apply'[p].pc = "settle"
          /\ apply'[p].pass = apply[p].pass
      BY <1>3, <1>a DEF Enumerate, Collected, At, Apply
    <2>2. Phase("settle") < Phase("delete")
      BY DEF Phase
    <2> QED
      BY <2>1, <2>2 DEF Nearer
  <1> QED
    BY <1>1, <1>2, <1>3, DeleteAdvances, SettleAdvances DEF Step

LEMMA OthersWait ==
  ASSUME IndInv, NEW p \in Applier, NEW q \in Applier \ {p},
         RemoveSessions(q) \/ StartApply(q) \/ Step(q) \/ Crash(q)
  PROVE  UNCHANGED <<apply[p], thread[p]>>
  <1>a. /\ apply \in [Applier -> Apply] /\ thread \in [Applier -> [Session -> Thread]]
        /\ TypeOK
    BY DEF IndInv, TypeOK
  <1>1. UNCHANGED apply[p]
    BY <1>a DEF RemoveSessions, StartApply, Start, BeginPass, Step, Delete, Collect,
                ReportDrain, Enumerate, EnumerateFails, Settle, Finish, Crash
  <1>2. UNCHANGED thread[p]
    BY <1>a DEF RemoveSessions, StartApply, Step, Delete, Collect, ReportDrain,
                Enumerate, EnumerateFails, Settle, Crash, ThreadGoes, RetryOrFail, Absent
  <1> QED
    BY <1>1, <1>2

(* What the end of every application rests on (TLC checks that it comes).   *)
THEOREM EveryApplyRunsDown == Spec => AppliesRunDown
  <1>1. IndInv /\ ThreadsServe /\ [Next]_vars
          => \A p \in Applier :
               \/ apply[p].pc \in {"idle", "done"}
               \/ UNCHANGED <<apply[p], thread[p]>>
               \/ Nearer(apply'[p], apply[p], thread'[p], thread[p])
    <2> SUFFICES ASSUME IndInv, ThreadsServe, [Next]_vars, NEW p \in Applier
                 PROVE  \/ apply[p].pc \in {"idle", "done"}
                        \/ UNCHANGED <<apply[p], thread[p]>>
                        \/ Nearer(apply'[p], apply[p], thread'[p], thread[p])
      OBVIOUS
    <2>1. ASSUME RemoveSessions(p) \/ StartApply(p) PROVE apply[p].pc = "idle"
      BY <2>1 DEF RemoveSessions, StartApply, At
    <2> QED
      BY <2>1, ApplierAdvances, OthersWait
      DEF Next, PlanPrune, PlanDrain, DeleteLate, SessionAppears, SessionChanges,
          SessionVanishes, vars
  <1>2. Spec => []ThreadsServe
    BY ServeInit, ServeNext, Inductive, PTL DEF Spec
  <1> QED
    BY <1>1, <1>2, Inductive, PTL DEF Spec, AppliesRunDown
=============================================================================
