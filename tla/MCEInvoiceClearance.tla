------------------------ MODULE MCEInvoiceClearance ------------------------
(***************************************************************************)
(* EInvoiceClearance for TLC.  Invoices, batches and threads are treated   *)
(* alike; the numbers of the service are ordered.                          *)
(***************************************************************************)
EXTENDS EInvoiceClearance, TLC

Interchangeable == Permutations(Invoices) \cup Permutations(Batches) \cup Permutations(Threads)
=============================================================================
