\* Two threads: bids of one vendor or none while the status and the step are
\* edited; requests die.  Amounts are positive: 0 stands for "no bid yet".
SPECIFICATION Spec
CONSTANTS
    Bids = {1, 2, 3}
    Vendors = {v1}
    Amounts = {1, 2}
    Steps = {0, 1}
    Threads = {t1, t2}
    Edits = {"status", "step"}
    Faults = TRUE
    None = None
SYMMETRY Interchangeable
INVARIANT LeadWasBid
INVARIANT WithinReserve
INVARIANT LeadersAreFew
INVARIANT LowestLeads
