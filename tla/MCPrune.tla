-------------------------------- MODULE MCPrune --------------------------------
(* Instances of Prune for TLC.                                               *)
EXTENDS Prune, TLC

\* Bound: several processes apply the plan while there is one session; when
\* a second one has appeared, one of them does.
MCFirst == CHOOSE p \in Applier : TRUE
MCConstraint ==
    (\E s \in Session \ Old : remote[s] # "unborn") =>
        \A p \in Applier \ {MCFirst} :
            apply[p].pc = "idle" /\ \A s \in Session : remover[s] # p
=============================================================================
