\* Two threads and one event loop on one invoice; requests die.
SPECIFICATION Spec
CONSTANTS
    RawIds = {r1}
    FileIds = {f1, f2, f3}
    InvoiceIds = {i1, i2, i3}
    Loops = {l1}
    Threads = {t1, t2}
    Contents = {c1}
    Categories = {"invoice"}
    OcrResults = {"text"}
    Requests = {"land", "etl", "ingest", "delete"}
    Faults = TRUE
    None = None
SYMMETRY Interchangeable
INVARIANT IInv
PROPERTY NothingTakenBack
INVARIANT ExtractedIsBacked
INVARIANT LinksAreSound
INVARIANT PromotionsAreFew
INVARIANT WaitsAreShort
