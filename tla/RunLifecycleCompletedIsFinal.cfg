\* Two requests, nothing fails: a behaviour that breaks CompletedIsFinal.
CONSTANTS
    p1 = p1
    r1 = r1
    r2 = r2
    Projects = {p1}
    Runs = {r1}
    ProjectOf <- MCProjectOf
    Requests = {q1, q2}
    NoRequest = NoRequest
    Asked = {"execute", "rowdiff", "delete_run", "delete_project", "cancel", "create"}
    MaxStops = 0
    MaxFailures = 0
SPECIFICATION Spec
PROPERTY CompletedIsFinal
