------------------------------ MODULE MCRunLoop ------------------------------
(* Three calls of two capabilities, submit among them; every dimension of   *)
(* the meter can be the first to run out.                                   *)
EXTENDS RunLoop

CONSTANTS k1, k2, submit, read, sentinel, d1

MCKeys         == {k1, k2, submit}
MCToolOf       == [k \in MCKeys |-> IF k = submit THEN sentinel ELSE read]
MCCapabilities == {read, sentinel}
MCDigests      == {d1}
MCFiles        == {}
MCPrompts      == {1}
MCUsages       == {<<0, 1>>, <<2, 1>>}
MCDelays       == {0, 1}
=============================================================================
