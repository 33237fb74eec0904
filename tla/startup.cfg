\* Two servers start on one database, new or at any revision; two deaths, one downgrade.
SPECIFICATION Spec
CONSTANTS
    Servers = {s1, s2}
    Operator = operator
    Deployments = {"postgresql", "sqlite"}
    SeedDemoUsers = TRUE
    MaxCrashes = 2
    MaxDowngrades = 1
INVARIANT ServesDeclared
INVARIANT CommittedIsRevision
INVARIANT SeededOnce
INVARIANT SoundToStartFrom
PROPERTY RefusedOnlyByRival
PROPERTY EveryServerServes
