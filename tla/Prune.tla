--------------------------------- MODULE Prune ---------------------------------
(***************************************************************************)
(* Deletion plans.  `prune`, `rm` and `fleet drain` store a set of session *)
(* ids; any number of processes then apply the stored plan.  prune and rm  *)
(* (apply_plan_with_settle) delete with a pool of threads, in bounded      *)
(* passes with a complete enumeration of the fleet after each; drain       *)
(* (apply_deletion_plan) deletes one target after the other and does not   *)
(* look again.                                                             *)
(*                                                                         *)
(* Jules is external: a DELETE may take effect and its answer be lost, or  *)
(* take effect after its sender gave up; a deleted session may linger in   *)
(* listings; sessions appear, change and disappear meanwhile.  A session   *)
(* that exists is in every complete listing, and an id is not used again.  *)
(***************************************************************************)
EXTENDS Naturals, FiniteSets

CONSTANTS
    Session,    \* session ids
    Old,        \* the sessions that exist when the plan is made
    Applier,    \* processes that apply the plan
    Passes,     \* --passes of prune
    Attempts    \* attempts of JulesApiClient.delete_session

ASSUME SessionAssumption == Old \subseteq Session /\ IsFiniteSet(Session)
ASSUME BoundAssumption == Passes \in Nat \ {0} /\ Attempts \in Nat \ {0}

VARIABLES
    remote,    \* remote[s]: "unborn", "present" or "gone" at Jules
    matching,  \* the sessions whose present state satisfies the selector
    late,      \* sessions with an unanswered DELETE that may still take effect
    plan,      \* the deletion_plans row
    apply,     \* apply[p]: program counter and locals of applier p
    thread,    \* thread[p][s]: the DELETE of session s by p
    marked,    \* sessions rows with deleted_at set
    remover    \* remover[s]: the applier whose DELETE removed s (history)

remoteVars == <<remote, matching, late, remover>>
vars == <<remoteVars, plan, apply, thread, marked>>

-----------------------------------------------------------------------------
(* The disposition of a target; a failure is transient or permanent.        *)
Failed == {"transient", "permanent"}
Outcome == Failed \cup {"none", "already_absent", "deleted"}

(* Only prune stores a selector it can evaluate again, and its baseline:    *)
(* the ids of the listing it was made from.                                 *)
Plan == [kind : {"prune", "rm", "drain"},
         targets : SUBSET Session, baseline : SUBSET Session]
NoPlan == [kind |-> "none"]

(* The command that applies a plan need not be the one that made it.        *)
Apply == [pc : {"idle", "delete", "settle", "done"},
          command : {"none", "prune", "rm", "drain"}, pass : 0 .. Passes,
          todo : SUBSET Session, result : [Session -> Outcome],
          fleet : SUBSET Session, match : SUBSET Session,
          report : {"none", "completed", "partial"}]
NotApplied == [pc |-> "idle", command |-> "none", pass |-> 0, todo |-> {},
               result |-> [s \in Session |-> "none"],
               fleet |-> {}, match |-> {}, report |-> "none"]

Thread == [pc : {"off", "removed", "absent"} \cup Failed,
           tries : 0 .. Attempts - 1]
NoThread == [pc |-> "off", tries |-> 0]

(* Every variable holds a value of its kind.                                *)
TypeOK ==
    /\ remote \in [Session -> {"unborn", "present", "gone"}]
    /\ matching \subseteq Session
    /\ late \subseteq Session
    /\ plan \in Plan \cup {NoPlan}
    /\ apply \in [Applier -> Apply]
    /\ thread \in [Applier -> [Session -> Thread]]
    /\ marked \subseteq Session
    /\ remover \in [Session -> Applier \cup {"nobody"}]

Init ==
    /\ remote = [s \in Session |-> IF s \in Old THEN "present" ELSE "unborn"]
    /\ matching \in SUBSET Session
    /\ late = {}
    /\ plan = NoPlan
    /\ apply = [p \in Applier |-> NotApplied]
    /\ thread = [p \in Applier |-> [s \in Session |-> NoThread]]
    /\ marked = {}
    /\ remover = [s \in Session |-> "nobody"]

Present == {s \in Session : remote[s] = "present"}
At(p, label) == apply[p].pc = label

-----------------------------------------------------------------------------
(* plan_prune: the sessions of one listing that match, and that listing.    *)
PlanPrune ==
    /\ plan = NoPlan
    /\ plan' = [kind |-> "prune",
                targets |-> Present \cap matching, baseline |-> Present]
    /\ UNCHANGED <<remoteVars, apply, thread, marked>>

(* create_drain_plan: the rows still active after a listing.                *)
PlanDrain ==
    /\ plan = NoPlan
    /\ plan' = [kind |-> "drain",
                targets |-> Present \cap matching, baseline |-> {}]
    /\ UNCHANGED <<remoteVars, apply, thread, marked>>

(* Fault: every pass is the first.                                          *)
BeginFirstPass(p, a, pass, todo) ==
    apply' = [apply EXCEPT ![p] = [a EXCEPT !.pc = "delete", !.pass = 1,
                                            !.todo = todo, !.fleet = {}, !.match = {}]]

(* A pass over the pending targets begins.                                  *)
BeginPass(p, a, pass, todo) ==
    apply' = [apply EXCEPT ![p] = [a EXCEPT !.pc = "delete", !.pass = pass,
                                            !.todo = todo, !.fleet = {}, !.match = {}]]

Start(p, command, targets) ==
    BeginPass(p, [apply[p] EXCEPT !.command = command], 1, targets)

(* remove_sessions: the ids an operator names, stored and applied.          *)
RemoveSessions(p) ==
    /\ plan = NoPlan
    /\ At(p, "idle")
    /\ \E ids \in SUBSET {s \in Session : remote[s] # "unborn"} :
         /\ ids # {}
         /\ plan' = [kind |-> "rm", targets |-> ids, baseline |-> {}]
         /\ Start(p, "rm", ids)
    /\ UNCHANGED <<remoteVars, thread, marked>>

(* `prune --apply` and `fleet drain --apply` take any plan that is stored.  *)
StartApply(p) ==
    /\ plan # NoPlan
    /\ At(p, "idle")
    /\ \E command \in {"prune", "drain"} : Start(p, command, plan.targets)
    /\ UNCHANGED <<remoteVars, plan, thread, marked>>

-----------------------------------------------------------------------------
ThreadGoes(p, s, label) == thread' = [thread EXCEPT ![p][s].pc = label]

(* Fault: one attempt too many.                                             *)
RetryOnceMore(p, s) ==
    IF thread[p][s].tries < Attempts
    THEN thread' = [thread EXCEPT ![p][s].tries = @ + 1]
    ELSE ThreadGoes(p, s, "transient")

(* delete_session's exception handler: try again, or give up.               *)
RetryOrFail(p, s) ==
    IF thread[p][s].tries + 1 < Attempts
    THEN thread' = [thread EXCEPT ![p][s].tries = @ + 1]
    ELSE ThreadGoes(p, s, "transient")

(* Fault: a 404 counts as a removal.                                        *)
AbsentIsRemoved(p, s) == ThreadGoes(p, s, "removed")

Absent(p, s) == ThreadGoes(p, s, "absent")

(* A target awaits its next DELETE, in any order; a drain has one in flight.*)
MayDelete(p, s) ==
    /\ At(p, "delete")
    /\ s \in apply[p].todo
    /\ thread[p][s].pc = "off"
    /\ apply[p].command = "drain" =>
         \A t \in Session \ {s} : thread[p][t] = NoThread

(* One DELETE request: it removes the session and says so, finds nothing, is*)
(* refused, or gets no usable answer, having removed the session or not, or *)
(* not yet.                                                                 *)
Delete(p, s) ==
    /\ MayDelete(p, s)
    /\ \/ /\ s \in Present
          /\ remote' = [remote EXCEPT ![s] = "gone"]
          /\ remover' = [remover EXCEPT ![s] = p]
          /\ ThreadGoes(p, s, "removed") \/ RetryOrFail(p, s)
          /\ UNCHANGED late
       \/ s \notin Present /\ Absent(p, s) /\ UNCHANGED <<remote, late, remover>>
       \/ ThreadGoes(p, s, "permanent") /\ UNCHANGED <<remote, late, remover>>
       \/ /\ RetryOrFail(p, s)
          /\ late' \in {late, late \cup {s}}
          /\ UNCHANGED <<remote, remover>>
    /\ UNCHANGED <<matching, plan, apply, marked>>

(* _prefer_result: the stronger disposition, the fresher of equal ones.     *)
Rank(outcome) ==
    CASE outcome = "none" -> 0 [] outcome \in Failed -> 1
      [] outcome = "already_absent" -> 2 [] outcome = "deleted" -> 3

PreferResult(previous, current) ==
    IF Rank(current) >= Rank(previous) THEN current ELSE previous

(* Fault: the local row is marked whatever the request came to.             *)
MarksAlways(ending) == ending # "off"

Marks(ending) == ending \in {"removed", "absent"}

(* A finished DELETE comes back: the local row is marked unless it failed.  *)
Collect(p, s) ==
    LET ending == thread[p][s].pc
        current == CASE ending = "removed" -> "deleted"
                     [] ending = "absent"  -> "already_absent"
                     [] OTHER              -> ending
    IN  /\ At(p, "delete")
        /\ ending # "off"
        /\ marked' = IF Marks(ending) THEN marked \cup {s} ELSE marked
        /\ apply' = [apply EXCEPT ![p].todo = @ \ {s},
                                  ![p].result[s] = PreferResult(@, current)]
        /\ thread' = [thread EXCEPT ![p][s] = NoThread]
        /\ UNCHANGED <<remoteVars, plan>>

Collected(p) == At(p, "delete") /\ apply[p].todo = {}

Finish(p, a, report) ==
    apply' = [apply EXCEPT ![p] = [a EXCEPT !.pc = "done", !.report = report,
                                            !.fleet = {}, !.match = {}]]

(* Fault: only a target never tried counts as failed.                       *)
NeverTried(a) == {s \in plan.targets : a.result[s] = "none"}

Failures(a) == {s \in plan.targets : a.result[s] \in Failed \cup {"none"}}

(* The report of a drain, which enumerates nothing.                         *)
ReportDrain(p) ==
    /\ Collected(p)
    /\ apply[p].command = "drain"
    /\ Finish(p, apply[p], IF Failures(apply[p]) = {} THEN "completed" ELSE "partial")
    /\ UNCHANGED <<remoteVars, plan, thread, marked>>

(* list_sessions, and the stored selector evaluated again as evidence.      *)
Enumerate(p) ==
    /\ Collected(p)
    /\ apply[p].command = plan.kind
    /\ plan.kind # "drain"
    /\ \E lingering \in SUBSET {s \in Session : remote[s] = "gone"} :
         LET fleet == Present \cup lingering
         IN  apply' = [apply EXCEPT ![p].pc = "settle", ![p].fleet = fleet,
                                    ![p].match = IF plan.kind = "prune"
                                                 THEN fleet \cap matching ELSE {}]
    /\ UNCHANGED <<remoteVars, plan, thread, marked>>

(* The listing fails, or `prune --apply` finds a selector that chooses no   *)
(* mode, as in a plan of rm or drain: the receipts are kept, no more passes.*)
EnumerateFails(p) ==
    /\ Collected(p)
    /\ apply[p].command # "drain"
    /\ Finish(p, apply[p], "partial")
    /\ UNCHANGED <<remoteVars, plan, thread, marked>>

(* Fault: what matches the selector now is deleted too.                     *)
RetryMatching(a, remaining) ==
    {s \in remaining \cup a.match : a.result[s] \in {"transient", "none"}}

RetrySet(a, remaining) == {s \in remaining : a.result[s] = "transient"}

Unseen(a) == {s \in plan.targets : a.result[s] \in Failed /\ s \notin a.fleet}

(* Fault: a failed target is taken to be gone without looking.              *)
UnseenOrFailed(a) == {s \in plan.targets : a.result[s] \in Failed}

(* The rest of the pass: failures of targets out of sight become absences,  *)
(* then stop, or delete again what failed transiently and is still there.   *)
Settle(p) ==
    LET reconciled == Unseen(apply[p])
        a == [apply[p] EXCEPT !.result =
                [s \in Session |-> IF s \in reconciled
                                   THEN PreferResult(apply[p].result[s], "already_absent")
                                   ELSE apply[p].result[s]]]
        remaining == plan.targets \cap a.fleet
        accounted == plan.kind = "prune"
        appeared == a.match \ plan.baseline
        last == \/ remaining = {} /\ (accounted => appeared = {})
                \/ a.pass = (IF accounted THEN Passes ELSE 1)
    IN  /\ At(p, "settle")
        /\ marked' = marked \cup reconciled
        /\ IF last
           THEN Finish(p, a, IF Failures(a) = {} /\ remaining = {}
                             THEN "completed" ELSE "partial")
           ELSE BeginPass(p, a, a.pass + 1, RetrySet(a, remaining))
        /\ UNCHANGED <<remoteVars, plan, thread>>

-----------------------------------------------------------------------------
(* The applying process dies with the requests of its threads on their way. *)
Crash(p) ==
    /\ apply[p].pc \in {"delete", "settle"}
    /\ \E sent \in SUBSET {s \in Session : MayDelete(p, s)} : late' = late \cup sent
    /\ apply' = [apply EXCEPT ![p] = NotApplied]
    /\ thread' = [thread EXCEPT ![p] = [s \in Session |-> NoThread]]
    /\ UNCHANGED <<remote, matching, remover, plan, marked>>

DeleteLate(s) ==
    /\ s \in late
    /\ late' = late \ {s}
    /\ remote' = [remote EXCEPT ![s] = "gone"]
    /\ UNCHANGED <<matching, remover, plan, apply, thread, marked>>

(* Other clients of Jules, and Jules itself.                                *)
SessionAppears(s) ==
    /\ remote[s] = "unborn"
    /\ remote' = [remote EXCEPT ![s] = "present"]
    /\ UNCHANGED <<matching, late, remover, plan, apply, thread, marked>>

SessionChanges(s) ==
    /\ s \in Present
    /\ matching' = IF s \in matching THEN matching \ {s} ELSE matching \cup {s}
    /\ UNCHANGED <<remote, late, remover, plan, apply, thread, marked>>

SessionVanishes(s) ==
    /\ s \in Present
    /\ remote' = [remote EXCEPT ![s] = "gone"]
    /\ UNCHANGED <<matching, late, remover, plan, apply, thread, marked>>

(* What an applier does when nothing stops it.                              *)
Step(p) ==
    \/ \E s \in Session : Delete(p, s) \/ Collect(p, s)
    \/ ReportDrain(p) \/ Enumerate(p) \/ EnumerateFails(p) \/ Settle(p)

Next ==
    \/ PlanPrune \/ PlanDrain
    \/ \E p \in Applier : RemoveSessions(p) \/ StartApply(p) \/ Step(p) \/ Crash(p)
    \/ \E s \in Session : \/ DeleteLate(s) \/ SessionAppears(s)
                          \/ SessionChanges(s) \/ SessionVanishes(s)

Spec == Init /\ [][Next]_vars

(* A process that runs goes on: requests are answered or time out.          *)
FairSpec == Spec /\ \A p \in Applier : WF_vars(Step(p))

-----------------------------------------------------------------------------
(* Whatever appeared or came to match the selector after the review, and in *)
(* however many passes and processes: a session that some DELETE removed or *)
(* may still remove is a stored target (README: never a selector evaluated  *)
(* again later).                                                            *)
OnlyStoredTargets ==
    \A s \in Session :
        s \in late \/ remover[s] # "nobody" => s \in plan.targets

(* deleted_at is set only for a session that is gone from Jules, although   *)
(* answers get lost and a failed DELETE is believed to have worked when an  *)
(* enumeration no longer shows its target.                                  *)
MarkedIsGone == \A s \in marked : remote[s] = "gone"

(* A plan reported completed has no target left at Jules.                   *)
CompletedMeansGone ==
    \A p \in Applier :
        apply[p].report = "completed" => \A s \in plan.targets : remote[s] = "gone"

(* A process claims to have deleted a session only when its own DELETE      *)
(* removed it: two applications never both claim one removal, and a 404 or  *)
(* an absence found by an enumeration is never a claim, although the answer *)
(* of the DELETE that did remove it may have been lost.                     *)
Claims(p, s) == apply[p].result[s] = "deleted" \/ thread[p][s].pc = "removed"

DeletedOnce ==
    \A s \in Session, p \in Applier : Claims(p, s) => remover[s] = p

(* delete_session's attempts and the passes are bounded: an application     *)
(* that is not killed comes to its report.                                  *)
ApplyEnds ==
    \A p \in Applier : (apply[p].pc \in {"delete", "settle"})
                           ~> (apply[p].pc \in {"done", "idle"})
=============================================================================
