-------------------------- MODULE MCChunkedUpload --------------------------
(***************************************************************************)
(* ChunkedUpload for TLC.  Uploads, contents and requests are treated      *)
(* alike; the chunks are in order.                                         *)
(***************************************************************************)
EXTENDS ChunkedUpload, TLC

Interchangeable == Permutations(Uploads) \cup Permutations(Contents) \cup Permutations(Clients)
=============================================================================
