\* One run, two requests of any kind, one stop and one failed statement.
CONSTANTS
    p1 = p1
    r1 = r1
    r2 = r2
    Projects = {p1}
    Runs = {r1}
    ProjectOf <- MCProjectOf
    Requests = {q1, q2}
    NoRequest = NoRequest
    Asked = {"execute", "rowdiff", "delete_run", "delete_project", "cancel", "create"}
    MaxStops = 1
    MaxFailures = 1
SPECIFICATION Spec
SYMMETRY MCSymmetry
INVARIANTS
    TypeOK
    OneWorkPerProject
    ActiveIsExact
    RunningIsWorkedOn
    SchemaItemsStored
PROPERTIES
    SweepSparesLiveRuns
    StatusContract
