\* Two tables, one without a key, two workers, no client; one heartbeat, one restart, one failure.
CONSTANTS
    t1 = t1
    t2 = t2
    Tables = {t1, t2}
    Keyed = {t1}
    Workers = {w1, w2}
    Clients = {}
    Run = Run
    Nobody = Nobody
    None = None
    Limit = 1
    MaxRows = 1
    MaxBeats = 1
    MaxStops = 1
    MaxFailures = 1
SPECIFICATION Spec
SYMMETRY MCSymmetry
INVARIANTS
    TypeOK
    ActiveTablesFollowWorkers
PROPERTIES
    CompletedRunIsComplete
CHECK_DEADLOCK FALSE
