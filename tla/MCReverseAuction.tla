-------------------------- MODULE MCReverseAuction --------------------------
(***************************************************************************)
(* ReverseAuction for TLC.  Vendors and threads are treated alike.         *)
(***************************************************************************)
EXTENDS ReverseAuction, TLC

Interchangeable == Permutations(Vendors) \cup Permutations(Threads)
=============================================================================
