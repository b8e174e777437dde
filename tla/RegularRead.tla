------------------------------ MODULE RegularRead ------------------------------
(***************************************************************************)
(* What a paged read promises, with no pages, tokens or attempts: a        *)
(* collection only grows, and a read that ends well answers with one of    *)
(* the sets the collection may be taken for while it ran: all of what was  *)
(* there at its beginning, and nothing that is not there at its end.       *)
(***************************************************************************)
CONSTANTS Reader, Resource

VARIABLES
    listed,  \* the collection
    view     \* view[r]: the read of r, what was listed at its start, its answer

Idle == [state |-> "idle", start |-> {}, answer |-> {}]

Init ==
    /\ listed = {}
    /\ view = [r \in Reader |-> Idle]

(* A reader begins anew whenever it likes.                                  *)
Begin(r) ==
    view' = [view EXCEPT ![r] = [state |-> "reading", start |-> listed, answer |-> {}]]

Answer(r) ==
    /\ view[r].state = "reading"
    /\ \E answer \in SUBSET listed :
         /\ view[r].start \subseteq answer
         /\ view' = [view EXCEPT ![r] = [state |-> "done", start |-> view[r].start,
                                         answer |-> answer]]

(* The answer is used, or the read breaks off without one.                  *)
End(r) == view' = [view EXCEPT ![r] = Idle]

Grow ==
    /\ listed \subseteq listed'
    /\ listed' \subseteq Resource

Next ==
    /\ Grow
    /\ UNCHANGED view \/ \E r \in Reader : Begin(r) \/ Answer(r) \/ End(r)

Spec == Init /\ [][Next]_<<listed, view>>
=============================================================================
