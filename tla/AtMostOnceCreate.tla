--------------------------- MODULE AtMostOnceCreate ---------------------------
(***************************************************************************)
(* What dispatch promises its callers, with no process, database or retry: *)
(* one key causes at most one create request, one request makes at most    *)
(* one Jules session, and a session belongs to at most one key.            *)
(***************************************************************************)
EXTENDS Naturals

CONSTANTS Key, Session, None

VARIABLES
    sent,    \* sent[k]: create requests transmitted for key k
    made,    \* made[s]: the key whose request made session s, or None
    owner    \* owner[k]: the session that key k answers with, or None

Init ==
    /\ sent = [k \in Key |-> 0]
    /\ made = [s \in Session |-> None]
    /\ owner = [k \in Key |-> None]

(* Jules makes a session for a request of k, which made none so far.        *)
Makes(k) ==
    /\ \A s \in Session : made[s] # k
    /\ \E s \in Session : made[s] = None /\ made' = [made EXCEPT ![s] = k]

Send(k) ==
    /\ sent[k] = 0
    /\ sent' = [sent EXCEPT ![k] = 1]
    /\ Makes(k) \/ UNCHANGED made
    /\ UNCHANGED owner

MakeLater(k) ==
    /\ sent[k] = 1
    /\ Makes(k)
    /\ UNCHANGED <<sent, owner>>

Own(k, s) ==
    /\ \A j \in Key \ {k} : owner[j] # s
    /\ owner' = [owner EXCEPT ![k] = s]
    /\ UNCHANGED <<sent, made>>

Next ==
    \/ \E k \in Key : Send(k) \/ MakeLater(k)
    \/ \E k \in Key, s \in Session : Own(k, s)

Spec == Init /\ [][Next]_<<sent, made, owner>>
=============================================================================
