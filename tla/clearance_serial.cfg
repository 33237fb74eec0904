\* One thread: every request, the service reachable or not, no answer lost.
SPECIFICATION Spec
CONSTANTS
    Invoices = {i1, i2}
    Docs = {1, 2, 3}
    Batches = {b1, b2, b3, b4}
    Threads = {t1}
    Requests = {"submit", "refresh", "cancel", "lines"}
    Answers = {"accepted", "unlisted", "rejected", "numbered", "failed"}
    Faults = FALSE
    None = None
SYMMETRY Interchangeable
INVARIANT OneLiveDocument
INVARIANT RecordIsBacked
INVARIANT LinesMatchDocument
