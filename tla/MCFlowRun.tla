------------------------------ MODULE MCFlowRun ------------------------------
(* A random stamp of two bits (so 12.5% is below the finest sample), samples  *)
(* of one in one, one in two and one in what a cast to two bits makes zero, a *)
(* queue of two copies.                                                       *)
EXTENDS FlowRun

MCPercents == {0, 1, 3, 4, 8, 9, NaN}
MCSamples == {0, 1, 2, 4}
=============================================================================
