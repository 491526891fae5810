\* One connection that two runs use while it is edited and deleted.
CONSTANTS
    Conns = {c1}
    Users = {u1, u2}
    Editors = {e1}
    PoolIds = {p1, p2, p3}
    MaxConns = 2
    MaxEdits = 2
    MaxFailures = 1
    None = None
SPECIFICATION Spec
SYMMETRY Symmetric
INVARIANTS
    TypeOK
    CurrentRowsAreUsed
    OpenPoolsAreStored
    DeletedHasNoPool
