\* Three projects, two of which share a source and one of which
\* compares the other way; the invariants and, under fairness, the end.
CONSTANTS
    a = a
    b = b
    Databases = {a, b}
    Projects = {1, 2, 3}
    Source <- MCSource
    Target <- MCTarget
    MaxConns = 2
    MaxParallelTables = 8
SPECIFICATION FairSpec
INVARIANTS
    TypeOK
    NoMutualWait
PROPERTY MergesEnd
