-------------------------- MODULE MCClassifyDispatch --------------------------
(* Six buckets, one guaranteed per path: the even split and both extremes.  *)
EXTENDS ClassifyDispatch

MCRequestedShare == {1, 3, 5}
=============================================================================
