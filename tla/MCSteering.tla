------------------------------- MODULE MCSteering -------------------------------
(* Instances of Steering for TLC.                                            *)
EXTENDS Steering

\* Three activities, in the order of their places in the log.
MCResources == 1 .. 3

\* Bound: a behaviour is about messages, about plans or about archiving, with
\* one POST at a time on its way, and with two calls there are two activities.
MCTopics ==
    {"messages" : a \in {b \in Resource : activity[b].kind = "message"}}
        \cup (IF plan > 0 \/ state # "working" THEN {"plans"} ELSE {})
        \cup {"archiving" : s \in {t \in Session : archived[t]}}
        \cup {"archiving" : c \in {d \in Caller : call[d].command \in Bulk}}
MCConstraint ==
    /\ Cardinality(MCTopics) <= 1
    /\ Cardinality(late) <= 1
    /\ \A c \in Caller : Cardinality(Written) + calls[c] <= 4
=============================================================================
