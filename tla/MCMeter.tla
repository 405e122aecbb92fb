------------------------------- MODULE MCMeter -------------------------------
(* Counters of three bits: two exchanges reach the largest value.           *)
EXTENDS MeterHistory

MCAmounts == {0, 2, 5}
MCBytes   == {0, 4}
MCCarried == {0, 3}
=============================================================================
