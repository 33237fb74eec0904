--------------------------- MODULE PromotionLedger ---------------------------
(***************************************************************************)
(* What the document pipeline promises, without sessions, locks or crashes:*)
(* a document is promoted to at most one curated file and a file is booked *)
(* as at most one e-invoice, each once and for good, however often ETL and *)
(* ingestion are run on it.                                                *)
(***************************************************************************)
CONSTANTS Docs, Files, Invoices

VARIABLES
    curated, \* document -> the files it was promoted to
    booked   \* file -> the e-invoices it was booked as

ledger == <<curated, booked>>

LedgerInit ==
    /\ curated = [d \in Docs |-> {}]
    /\ booked = [f \in Files |-> {}]

Record(f, i) ==
    /\ booked[f] = {}
    /\ \A g \in Files : i \notin booked[g]
    /\ booked' = [booked EXCEPT ![f] = {i}]

\* A document is promoted, and its file booked at once if it is an invoice.
Promote(d, f) ==
    /\ curated[d] = {}
    /\ \A e \in Docs : f \notin curated[e]
    /\ curated' = [curated EXCEPT ![d] = {f}]
    /\ \/ \E i \in Invoices : Record(f, i)
       \/ UNCHANGED booked

\* A file that was uploaded, or promoted before, is booked.
Book(f) ==
    /\ \E i \in Invoices : Record(f, i)
    /\ UNCHANGED curated

LedgerNext ==
    \/ \E d \in Docs, f \in Files : Promote(d, f)
    \/ \E f \in Files : Book(f)

LedgerSpec == LedgerInit /\ [][LedgerNext]_ledger
=============================================================================
