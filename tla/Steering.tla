------------------------------- MODULE Steering -------------------------------
(***************************************************************************)
(* Steering sessions: message_once, approve_once, and archive_once and     *)
(* unarchive_once as the bulk commands `session archive` and `session      *)
(* unarchive` run them.  Each takes evidence, sends one POST, and when the *)
(* answer is lost or uncertain looks again, to tell whether it took effect.*)
(* Messages and approvals go to one session, whose activity log is read    *)
(* page by page (Listing); the bulk commands are about archived[s].        *)
(*                                                                         *)
(* Jules is external: a POST takes effect and says so, is refused, or gets *)
(* an uncertain answer having taken effect, not at all, or not yet; other  *)
(* clients send the same prompt, approve and archive; an activity may be   *)
(* listed later than it is written.  Nothing is kept between calls.        *)
(***************************************************************************)
EXTENDS Listing

CONSTANTS
    Caller,    \* processes that steer; the readers of Listing
    Session,   \* sessions of the bulk commands
    MaxCalls,  \* bound on the calls of one caller
    MaxPlans,  \* bound on the plans of the session
    Lag        \* whether a new activity may be listed late

ASSUME CallerAssumption == Caller = Reader
ASSUME CallAssumption == MaxCalls \in Nat /\ MaxPlans \in Nat /\ Lag \in BOOLEAN

VARIABLES
    activity,  \* activity[a]: what activity a is and whose message
    state,     \* the state of the session
    plan,      \* the number of its latest plan
    archived,  \* archived[s]
    late,      \* POSTs with an uncertain answer that may still take effect
    call,      \* call[c]: program counter and locals of caller c
    calls,     \* calls[c]: the calls c has begun
    held       \* held[c]: the sessions of c's bulk command that were as it
               \* desires at some time since it began (history)

sessionVars == <<state, plan, archived, held>>
vars == <<listed, read, activity, sessionVars, late, call, calls>>

-----------------------------------------------------------------------------
Bulk == {"archive", "unarchive"}
Command == {"message", "approve"} \cup Bulk
Success == {"completed", "existing", "reconciled"}

(* What get_session says of a state it knows no name for, or leaves out.    *)
Unspecified == "unspecified"
State == {"working", "awaiting", "ended"}
Undecided == {Unspecified, "awaiting"}

Foreign == <<"foreign", 0>>
Unwritten == [kind |-> "none", by |-> Foreign]
Activity == [kind : {"none", "message", "approval"},
             by : (Caller \X (1 .. MaxCalls)) \cup {Foreign}]

(* before: before_ids; moved: what after_session.state says; ids and todo:  *)
(* the sessions of a bulk command and those it has not tried yet; failed:   *)
(* an item had an error.  History: known and hidden, the activities listed  *)
(* and not yet listed when the call began; asks, the plan that waited then. *)
Call == [pc : {"idle", "look", "before", "post", "again", "after", "done"},
         command : Command \cup {"none"}, before : SUBSET Resource,
         moved : BOOLEAN, ids : SUBSET Session, todo : SUBSET Session,
         failed : BOOLEAN,
         outcome : Success \cup {"none", "indeterminate", "error", "partial"},
         known : SUBSET Resource, hidden : SUBSET Resource, asks : 0 .. MaxPlans]
NoCall == [pc |-> "idle", command |-> "none", before |-> {}, moved |-> FALSE,
           ids |-> {}, todo |-> {}, failed |-> FALSE, outcome |-> "none",
           known |-> {}, hidden |-> {}, asks |-> 0]

Post == [by : Caller \X (1 .. MaxCalls), command : Command, ids : SUBSET Session]

(* Every variable holds a value of its kind.                                *)
TypeOK ==
    /\ ListingTypeOK
    /\ activity \in [Resource -> Activity]
    /\ state \in State
    /\ plan \in 0 .. MaxPlans
    /\ archived \in [Session -> BOOLEAN]
    /\ late \subseteq Post
    /\ call \in [Caller -> Call]
    /\ calls \in [Caller -> 0 .. MaxCalls]
    /\ held \in [Caller -> SUBSET Session]

Init ==
    /\ ListingInit
    /\ activity = [a \in Resource |-> Unwritten]
    /\ state = "working"
    /\ plan = 0
    /\ archived \in [Session -> BOOLEAN]
    /\ late = {}
    /\ call = [c \in Caller |-> NoCall]
    /\ calls = [c \in Caller |-> 0]
    /\ held = [c \in Caller |-> {}]

Written == {a \in Resource : activity[a].kind # "none"}
Desired(command) == command = "archive"

At(c, label) == call[c].pc = label
Goto(c, label) == call' = [call EXCEPT ![c].pc = label]
End(c, outcome) ==
    call' = [call EXCEPT ![c].pc = "done", ![c].outcome = outcome,
                         ![c].before = {}, ![c].moved = FALSE, ![c].todo = {}]

-----------------------------------------------------------------------------
(* message_once reads the log; approve_once gets the session.               *)
Begin(c, command) ==
    [NoCall EXCEPT !.command = command, !.known = listed, !.hidden = Written \ listed,
                   !.asks = IF state = "awaiting" THEN plan ELSE 0]

StartMessage(c) ==
    /\ call' = [call EXCEPT ![c] = [Begin(c, "message") EXCEPT !.pc = "before"]]
    /\ BeginRead(c)
    /\ UNCHANGED held

StartApprove(c) ==
    /\ call' = [call EXCEPT ![c] = [Begin(c, "approve") EXCEPT !.pc = "look"]]
    /\ UNCHANGED <<read, held>>

StartBulk(c) ==
    /\ \E command \in Bulk, ids \in (SUBSET Session) \ {{}} :
         /\ call' = [call EXCEPT ![c] = [Begin(c, command) EXCEPT
                                            !.pc = "look", !.ids = ids, !.todo = ids]]
         /\ held' = [held EXCEPT ![c] = {s \in ids : archived[s] = Desired(command)}]
    /\ UNCHANGED read

Start(c) ==
    /\ call[c].pc \in {"idle", "done"}
    /\ calls[c] < MaxCalls
    /\ calls' = [calls EXCEPT ![c] = @ + 1]
    /\ StartMessage(c) \/ StartApprove(c) \/ StartBulk(c)
    /\ UNCHANGED <<listed, activity, state, plan, archived, late>>

-----------------------------------------------------------------------------
(* The sessions of a bulk command are taken in turn, in some order.         *)
Item(c) == CHOOSE s \in call[c].todo : TRUE

(* One item is done: the next, or the report.                               *)
NextItem(c, failed) ==
    LET rest == call[c].todo \ {Item(c)}
        v == [call[c] EXCEPT !.todo = rest, !.failed = @ \/ failed]
    IN  call' = [call EXCEPT ![c] =
                    IF rest # {} THEN [v EXCEPT !.pc = "look"]
                    ELSE [v EXCEPT !.pc = "done",
                                   !.outcome = IF v.failed THEN "partial" ELSE "completed"]]

(* Fault: the error of an item is forgotten.                                *)
ForgetError(c, outcome) ==
    IF call[c].command \in Bulk THEN NextItem(c, FALSE) ELSE End(c, outcome)

(* An exception ends a call, but not a bulk command, which goes on.         *)
Fails(c, outcome) ==
    IF call[c].command \in Bulk THEN NextItem(c, TRUE) ELSE End(c, outcome)

Succeeds(c, outcome) ==
    IF call[c].command \in Bulk THEN NextItem(c, FALSE) ELSE End(c, outcome)

(* get_session fails.  An answer that is no session ends even a bulk        *)
(* command: a ValidationError is not a JulesCtlError.                       *)
GetFails(c) == Fails(c, "error") \/ End(c, "error")

(* get_session answers with the state, or without it.                       *)
StateSeen == {state, Unspecified}
ArchivedSeen(c) == {"absent"} \cup {IF archived[Item(c)] THEN "yes" ELSE "no"}
Wanted(c) == IF Desired(call[c].command) THEN "yes" ELSE "no"

(* get_session before the POST: there may be nothing left to do.            *)
Look(c) ==
    /\ At(c, "look")
    /\ \/ /\ call[c].command = "approve"
          /\ \E seen \in StateSeen :
               \/ seen \in Undecided /\ Goto(c, "before") /\ BeginRead(c)
               \/ seen \notin Undecided /\ End(c, "existing") /\ UNCHANGED read
       \/ /\ call[c].command \in Bulk
          /\ \E seen \in ArchivedSeen(c) :
               \/ seen = Wanted(c) /\ Succeeds(c, "existing")
               \/ seen # Wanted(c) /\ Goto(c, "post")
          /\ UNCHANGED read
       \/ GetFails(c) /\ UNCHANGED read
    /\ UNCHANGED <<listed, activity, sessionVars, late, calls>>

(* A page of one of the two readings of the log.                            *)
ReadPage(c) ==
    /\ call[c].pc \in {"before", "after"}
    /\ ReadStep(c)
    /\ UNCHANGED <<listed, activity, sessionVars, late, call, calls>>

ReadBreaks(c) ==
    /\ call[c].pc \in {"before", "after"}
    /\ read[c].pc = "broken"
    /\ Fails(c, "error")
    /\ Forget(c)
    /\ UNCHANGED <<listed, activity, sessionVars, late, calls>>

Yielded(c) == {a \in Resource : read[c].yielded[a] > 0}

(* before_ids.                                                              *)
TakeEvidence(c) ==
    /\ At(c, "before")
    /\ read[c].pc = "whole"
    /\ call' = [call EXCEPT ![c].pc = "post", ![c].before = Yielded(c)]
    /\ Forget(c)
    /\ UNCHANGED <<listed, activity, sessionVars, late, calls>>

-----------------------------------------------------------------------------
(* What a POST does at Jules, and another client's like it.                 *)
Write(kind, by) ==
    \E a \in Resource \ Written :
        /\ activity' = [activity EXCEPT ![a] = [kind |-> kind, by |-> by]]
        /\ \/ listed' = listed \cup {a}
           \/ Lag /\ UNCHANGED listed

MessageEffect(by) == Write("message", by) /\ UNCHANGED sessionVars

ApproveEffect ==
    /\ state = "awaiting"
    /\ state' = "working"
    /\ Write("approval", Foreign)
    /\ UNCHANGED <<plan, archived, held>>

ArchiveEffect(s, value) ==
    /\ archived' = [archived EXCEPT ![s] = value]
    /\ held' = [c \in Caller |-> IF /\ call[c].command \in Bulk
                                    /\ s \in call[c].ids
                                    /\ value = Desired(call[c].command)
                                 THEN held[c] \cup {s} ELSE held[c]]
    /\ UNCHANGED <<listed, activity, state, plan>>

Effect(by, command, ids) ==
    \/ command = "message" /\ MessageEffect(by)
    \/ command = "approve" /\ ApproveEffect
    \/ command \in Bulk /\ \E s \in ids : ArchiveEffect(s, Desired(command))

NoEffect == UNCHANGED <<listed, activity, sessionVars>>

Posted(c) == [by |-> <<c, calls[c]>>, command |-> call[c].command,
              ids |-> IF call[c].command \in Bulk THEN {Item(c)} ELSE {}]

(* The POST succeeds; archive's answer may be no session.                   *)
PostAnswered(c) ==
    /\ At(c, "post")
    /\ Effect(Posted(c).by, Posted(c).command, Posted(c).ids)
    /\ Succeeds(c, "completed") \/ (call[c].command \in Bulk /\ End(c, "error"))
    /\ UNCHANGED <<read, late, calls>>

(* Fault: an uncertain POST is sent once more.                              *)
SendAgain(c) == Goto(c, "post") /\ UNCHANGED read

(* What follows an uncertain answer: the log, or the session, once more.    *)
LookAfter(c) ==
    \/ call[c].command = "message" /\ Goto(c, "after") /\ BeginRead(c)
    \/ call[c].command # "message" /\ Goto(c, "again") /\ UNCHANGED read

(* _uncertain: no answer, or a status that does not say what happened.      *)
PostUncertain(c) ==
    /\ At(c, "post")
    /\ \/ Effect(Posted(c).by, Posted(c).command, Posted(c).ids) /\ UNCHANGED late
       \/ NoEffect /\ late' \in {late, late \cup {Posted(c)}}
    /\ LookAfter(c)
    /\ UNCHANGED calls

PostRefused(c) ==
    /\ At(c, "post")
    /\ Fails(c, "error")
    /\ UNCHANGED <<listed, read, activity, sessionVars, late, calls>>

(* get_session after an uncertain answer.                                   *)
LookAgain(c) ==
    /\ At(c, "again")
    /\ \/ /\ call[c].command = "approve"
          /\ \E seen \in StateSeen :
               call' = [call EXCEPT ![c].pc = "after", ![c].moved = seen \notin Undecided]
          /\ BeginRead(c)
       \/ /\ call[c].command \in Bulk
          /\ \E seen \in ArchivedSeen(c) :
               \/ seen = Wanted(c) /\ Succeeds(c, "reconciled")
               \/ seen # Wanted(c) /\ Fails(c, "indeterminate")
          /\ UNCHANGED read
       \/ GetFails(c) /\ UNCHANGED read
    /\ UNCHANGED <<listed, activity, sessionVars, late, calls>>

(* Fault: what was there before the POST proves it too.                     *)
AnyEvidence(c, kind) == {a \in Yielded(c) : activity[a].kind = kind}

(* The activities of a kind that only the second reading shows.             *)
NewEvidence(c, kind) ==
    {a \in Yielded(c) \ call[c].before : activity[a].kind = kind}

(* Exactly one new message, however often it was yielded, proves delivery.  *)
JudgeMessage(c) ==
    End(c, IF \E a \in NewEvidence(c, "message") :
                /\ read[c].yielded[a] = 1
                /\ NewEvidence(c, "message") = {a}
           THEN "reconciled" ELSE "indeterminate")

(* A new approval or a session that moved on proves the approval.           *)
JudgeApproval(c) ==
    End(c, IF NewEvidence(c, "approval") # {} \/ call[c].moved
           THEN "reconciled" ELSE "indeterminate")

Judge(c) ==
    /\ At(c, "after")
    /\ read[c].pc = "whole"
    /\ \/ call[c].command = "message" /\ JudgeMessage(c)
       \/ call[c].command = "approve" /\ JudgeApproval(c)
    /\ Forget(c)
    /\ UNCHANGED <<listed, activity, sessionVars, late, calls>>

-----------------------------------------------------------------------------
(* Jules, and its other clients.                                            *)
LateEffect(post) ==
    /\ post \in late
    /\ late' = late \ {post}
    /\ Effect(post.by, post.command, post.ids)
    /\ UNCHANGED <<read, call, calls>>

ForeignEffect ==
    /\ \E command \in Command : Effect(Foreign, command, Session)
    /\ UNCHANGED <<read, late, call, calls>>

Show(a) ==
    /\ a \in Written \ listed
    /\ listed' = listed \cup {a}
    /\ UNCHANGED <<read, activity, sessionVars, late, call, calls>>

(* The agent asks for approval of a plan, or comes to its end.              *)
SessionMoves ==
    /\ \/ /\ state = "working"
          /\ plan < MaxPlans
          /\ state' = "awaiting"
          /\ plan' = plan + 1
       \/ state # "ended" /\ state' = "ended" /\ UNCHANGED plan
    /\ UNCHANGED <<listed, read, activity, archived, held, late, call, calls>>

(* What a caller does when nothing stops it.                                *)
Step(c) ==
    \/ Look(c) \/ ReadPage(c) \/ ReadBreaks(c) \/ TakeEvidence(c)
    \/ PostAnswered(c) \/ PostUncertain(c) \/ PostRefused(c)
    \/ LookAgain(c) \/ Judge(c)

Next ==
    \/ \E c \in Caller : Start(c) \/ Step(c)
    \/ \E post \in late : LateEffect(post)
    \/ \E a \in Resource : Show(a)
    \/ ForeignEffect \/ SessionMoves

Spec == Init /\ [][Next]_vars

(* A caller that runs goes on: requests are answered or fail.               *)
FairSpec == Spec /\ \A c \in Caller : WF_vars(Step(c))

-----------------------------------------------------------------------------
Reports(c, command, outcomes) ==
    At(c, "done") /\ call[c].command = command /\ call[c].outcome \in outcomes

(* Whatever the other callers, Jules and its clients do between the pages,  *)
(* an answered read is one of a collection that only grows: it has all that *)
(* was listed when it began and nothing that is not listed now.             *)
View == [r \in Reader |->
    [state |-> CASE read[r].pc = "page" -> "reading"
                 [] read[r].pc = "whole" -> "done"
                 [] OTHER -> "idle",
     start |-> IF read[r].pc \in {"page", "whole"} THEN read[r].start ELSE {},
     answer |-> IF read[r].pc = "whole" THEN Yielded(r) ELSE {}]]
Regular == INSTANCE RegularRead WITH view <- View
ImplementsRegularRead == Regular!Spec

(* A message is reported reconciled only on evidence that was not listed    *)
(* when the call began, whatever is listed, moved to another page or sent   *)
(* by others between the two readings of the log.                           *)
EvidenceIsNew ==
    \A c \in Caller : Reports(c, "message", {"reconciled"}) =>
        \E a \in listed \ call[c].known : activity[a].kind = "message"

(* After any success of approve the plan that waited when the call began    *)
(* waits no more, although the answer was lost, others approved or the      *)
(* agent planned again meanwhile; provided no activity was written but not  *)
(* listed at that time.                                                     *)
ApprovedMovesOn ==
    \A c \in Caller :
        /\ Reports(c, "approve", Success)
        /\ call[c].hidden = {}
        /\ state = "awaiting"
        => plan # call[c].asks

(* A call delivers its prompt at most once, with one POST and one late      *)
(* effect that never add up to two (CHANGELOG: one-attempt msg and approve).*)
DeliveredOnce ==
    \A a, b \in Resource : /\ activity[a] = activity[b]
                           /\ activity[a].kind = "message"
                           /\ activity[a].by # Foreign
                           => a = b

(* A bulk command reported completed found or made each of its sessions as  *)
(* desired at some time while it ran, one item after the other failing or   *)
(* being undone by others.                                                  *)
CompletedWasDesired ==
    \A c \in Caller, command \in Bulk :
        Reports(c, command, {"completed"}) => call[c].ids \subseteq held[c]

(* Every call comes to an outcome: pages, their retries and the looks after *)
(* an uncertain answer are bounded, whatever tokens Jules hands out.        *)
CallsEnd == \A c \in Caller : (call[c].pc # "idle") ~> At(c, "done")

(* README, governing invariants: historical matches cannot prove a new      *)
(* write.  A reconciled message was written after the call began.           *)
HistoryProvesNothing ==
    \A c \in Caller : Reports(c, "message", {"reconciled"}) =>
        \E a \in Written \ (call[c].known \cup call[c].hidden) :
            activity[a].kind = "message"
=============================================================================
