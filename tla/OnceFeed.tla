------------------------------- MODULE OnceFeed -------------------------------
(***************************************************************************)
(* What the activity feed promises its readers, with no cursor, listing,   *)
(* pass or process: an activity is recorded for good, its recording owes   *)
(* one event, and a debt is paid once or lost for ever.                    *)
(***************************************************************************)
EXTENDS Naturals

CONSTANT Activity

VARIABLES
    recorded,  \* activities recorded
    owed,      \* those whose event is still to come
    emitted    \* emitted[a]: events of activity a

Init ==
    /\ recorded = {}
    /\ owed = {}
    /\ emitted = [a \in Activity |-> 0]

Record ==
    /\ \E new \in SUBSET (Activity \ recorded) :
         /\ recorded' = recorded \cup new
         /\ owed' = owed \cup new
    /\ UNCHANGED emitted

Emit(a) ==
    /\ emitted[a] = 0
    /\ emitted' = [emitted EXCEPT ![a] = 1]
    /\ owed' = owed \ {a}
    /\ UNCHANGED recorded

Lose ==
    /\ owed' \subseteq owed
    /\ UNCHANGED <<recorded, emitted>>

Next == Record \/ (\E a \in owed : Emit(a)) \/ Lose

Spec == Init /\ [][Next]_<<recorded, owed, emitted>>
=============================================================================
