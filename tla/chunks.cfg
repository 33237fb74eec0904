\* Two requests at once on two uploads of two chunks; the worker may die.
SPECIFICATION Spec
CONSTANTS
    Uploads = {u1, u2}
    Chunks = {0, 1}
    Contents = {x, y}
    Clients = {c1, c2}
    Crashes = TRUE
    None = None
SYMMETRY Interchangeable
PROPERTY UploadIsAtomic
INVARIANT StoredIsReceived
INVARIANT ReceivedIsOnDisk
