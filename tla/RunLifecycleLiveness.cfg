\* One run and one request at a time, two stops and two failed statements.
CONSTANTS
    p1 = p1
    r1 = r1
    r2 = r2
    Projects = {p1}
    Runs = {r1}
    ProjectOf <- MCProjectOf
    Requests = {q1}
    NoRequest = NoRequest
    Asked = {"execute", "rowdiff", "delete_run", "create"}
    MaxStops = 2
    MaxFailures = 2
SPECIFICATION FairSpec
PROPERTIES
    RunningEnds
    WorkEnds
