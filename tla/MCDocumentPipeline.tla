------------------------- MODULE MCDocumentPipeline -------------------------
(***************************************************************************)
(* DocumentPipeline for TLC.  Ids are model values; the specification      *)
(* treats those of one kind alike, so they are interchangeable in the runs *)
(* that check safety only.                                                 *)
(***************************************************************************)
EXTENDS DocumentPipeline, TLC

Interchangeable ==
    Permutations(RawIds) \cup Permutations(FileIds) \cup Permutations(InvoiceIds)
        \cup Permutations(Threads) \cup Permutations(Loops) \cup Permutations(Contents)
=============================================================================
