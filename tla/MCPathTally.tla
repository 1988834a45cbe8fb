----------------------------- MODULE MCPathTally -----------------------------
(* The control law at the constants of steer.c, with up to six flows.      *)
EXTENDS PathTally

(* MIN_RATE, one CNP below full rate, the EWMA's resting point, full rate. *)
MCReportedRate == {64, 943718, FullRate - 3, FullRate}
=============================================================================
