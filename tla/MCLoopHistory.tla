---------------------------- MODULE MCLoopHistory ----------------------------
(* Two keys, observations and capabilities, so that one can come between    *)
(* two of the other; one file and one tree.  Swapping a and b everywhere    *)
(* leaves the rules as they are.                                            *)
EXTENDS LoopHistory, TLC

CONSTANTS a, b, c

Pair     == {a, b}
Single   == {c}
Nothing  == {}
Symmetry == Permutations(Pair)
=============================================================================
