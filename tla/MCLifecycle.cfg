CONSTANTS
    Procs = {p1}
    Signals = {SIGTERM, SIGINT}
    Requests = {r1, r2}
    Jobs = {j1, j2}
SPECIFICATION FairSpec
INVARIANTS
    CleanExitLosesNothing
PROPERTIES
    ShutdownEnds
