\* Two threads on one invoice; workers die, answers are lost, rejections may have
\* a number and acceptances no document.
SPECIFICATION FairSpec
CONSTANTS
    Invoices = {i1}
    Docs = {1, 2, 3}
    Batches = {b1}
    Threads = {t1, t2}
    Requests = {"submit", "refresh", "cancel"}
    Answers = {"accepted", "unlisted", "numbered", "failed", "lost"}
    Faults = TRUE
    None = None
INVARIANT NothingLeftSubmitting
INVARIANT DecisionsAreReal
PROPERTY NewestOnRecord
PROPERTY RequestsAreAnswered
