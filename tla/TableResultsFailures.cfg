\* One table with up to two differences of which one is kept, one worker, one client; one restart, two failures.
CONSTANTS
    t1 = t1
    t2 = t2
    Tables = {t1}
    Keyed = {t1}
    Workers = {w1}
    Clients = {c1}
    Run = Run
    Nobody = Nobody
    None = None
    Limit = 1
    MaxRows = 2
    MaxBeats = 0
    MaxStops = 1
    MaxFailures = 2
SPECIFICATION FairSpec
INVARIANTS
    DoneRowsAreOneComparison
    RunningTableIsWorkedOn
PROPERTIES
    FinishedTablesKept
    RunEnds
CHECK_DEADLOCK FALSE
