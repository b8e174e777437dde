------------------------------- MODULE MCQueue -------------------------------
(***************************************************************************)
(* Instances of CandidateQueue for TLC.                                    *)
(***************************************************************************)
EXTENDS CandidateQueue, TLC

CONSTANTS w1, w2, a1, a2, s1, s2

(* Workers with one allow list, and every candidate validates.              *)
MCAllAllowed == Worker \X Key
MCReadable == {}
(* Candidate 2 is outside the allow list of worker 2; candidate 3 does not  *)
(* validate for worker 1, whose release is another.                         *)
MCAllowed == (Worker \X Key) \ {<<w2, 2>>}
MCUnreadable == {<<w1, 3>>}

(* Bound: two workers at once are at work on one candidate, one at a time   *)
(* on several.  An attempt and a candidate after the first count for one, a *)
(* candidate that expired and a fence that moved for two: three at most.    *)
(* There are two candidates at a time.  Attempts and sessions are alike and *)
(* used in order.                                                           *)
Others == {k \in Key \ {1} : row[k].state # "ABSENT"}
MCConstraint ==
    /\ Cardinality(Others) <= 1
    /\ att[a2].state # "ABSENT" => att[a1].state # "ABSENT"
    /\ \A a \in Attempt : made[a] = s2 => \E b \in Attempt : made[b] = s1
    /\ Others # {} => Cardinality({w \in Worker : run[w].pc # "idle"}) <= 1
    /\ Cardinality({a \in Attempt : att[a].state # "ABSENT"}) + Cardinality(Others)
         + 2 * (Cardinality(expired) + (IF generation > 0 THEN 1 ELSE 0)) <= 3
=============================================================================
