------------------------------ MODULE MCDispatch ------------------------------
(***************************************************************************)
(* Instances of Dispatch for TLC.                                          *)
(***************************************************************************)
EXTENDS Dispatch, TLC

CONSTANTS p1, p2, k1, k2, x, y, a1, a2, s1, s2

(* One key, one specification.                                              *)
MCOne == {<<k1, x>>}
(* Two keys with specifications of different shapes.                        *)
MCDistinct == {<<k1, x>>, <<k2, y>>}
(* Two keys with the same specification, as `new --parallel 2` makes them.  *)
MCTwins == {<<k1, x>>, <<k2, x>>}
(* One key used with two specifications.                                    *)
MCReuse == {<<k1, x>>, <<k1, y>>}

(* Processes, attempts and sessions are interchangeable.                    *)
MCSymmetry == Permutations(Proc) \cup Permutations(Attempt) \cup Permutations(Session)
=============================================================================
