\* One event loop and one thread: every kind of request on documents and files, late PUTs
\* with other bytes, requests die.
SPECIFICATION Spec
CONSTANTS
    RawIds = {r1}
    FileIds = {f1, f2}
    InvoiceIds = {i1, i2}
    Loops = {l1}
    Threads = {t1}
    Contents = {c1, c2}
    Categories = {"invoice"}
    OcrResults = {"text"}
    Requests = {"land", "presign", "confirm", "reput", "upload", "etl", "ingest", "delete", "ocr"}
    Faults = TRUE
    None = None
SYMMETRY Interchangeable
PROPERTY PromotedOnce
PROPERTY PartedByBytes
PROPERTY LandedOnce
