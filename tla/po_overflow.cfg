\* One thread; the clients may supply the last number of three digits.
SPECIFICATION Spec
CONSTANTS
    Orders = {1, 2, 3}
    Years = {2025}
    MaxNumber = 1002
    Supplied <- NineHundred99th
    Statuses = {pending}
    Threads = {t1}
    Faults = FALSE
    None = None
INVARIANT NextIsUnused
