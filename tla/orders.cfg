\* Two threads create three orders over a turn of the year, change and archive them.
SPECIFICATION Spec
CONSTANTS
    Orders = {1, 2, 3}
    Years = {2025, 2026}
    MaxNumber = 13
    Supplied <- WellFormed
    Statuses = {pending, delivered}
    Threads = {t1, t2}
    Faults = TRUE
    None = None
SYMMETRY Interchangeable
INVARIANT NextIsUnused
INVARIANT NoGaps
PROPERTY ArchivedStaysArchived
