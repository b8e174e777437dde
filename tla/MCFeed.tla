-------------------------------- MODULE MCFeed --------------------------------
(* Instances of ActivityFeed for TLC.                                        *)
EXTENDS ActivityFeed

\* Two activities, in the order of their names.
MCActivities == 1 .. 2
=============================================================================
