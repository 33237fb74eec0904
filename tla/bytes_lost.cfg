\* The curated file of a document is deleted.
SPECIFICATION Spec
CONSTANTS
    RawIds = {r1}
    FileIds = {f1, f2}
    InvoiceIds = {i1, i2}
    Loops = {l1}
    Threads = {t1}
    Contents = {c1}
    Categories = {"invoice"}
    OcrResults = {"text"}
    Requests = {"land", "etl", "delete"}
    Faults = FALSE
    None = None
INVARIANT RawBytesPreserved
