\* Two threads promote and ingest one document again and again, and compete for the rows of
\* its manifest and of its file; OCR fails, no request dies.
SPECIFICATION FairSpec
CONSTANTS
    RawIds = {r1}
    FileIds = {f1, f2}
    InvoiceIds = {i1, i2}
    Loops = {l1}
    Threads = {t1, t2}
    Contents = {c1}
    Categories = {"photo"}
    OcrResults = {"[OCR Error"}
    Requests = {"land", "etl", "ingest"}
    Faults = FALSE
    None = None
INVARIANT NoErrorTextCached
PROPERTY RequestsAreAnswered
PROPERTY ExtractingPasses
