-------------------------- MODULE MCPurchaseOrders --------------------------
(***************************************************************************)
(* PurchaseOrders for TLC, with the suffixes that clients supply.          *)
(***************************************************************************)
EXTENDS PurchaseOrders, TLC

Interchangeable == Permutations(Threads) \cup Permutations(Statuses)

\* Of the form that the generator gives.
WellFormed == {<<0, 0, 2>>}

\* The number of the 999th order of a year.
NineHundred99th == {<<9, 9, 9>>}
=============================================================================
