\* Four keys and NULL; up to three rows in the source and two in the target, split
\* or not, with two contents; two tables with up to three columns, an index and a constraint.
CONSTANTS
    MaxKey = 3
    Values = {a, b}
    MaxSource = 3
    MaxTarget = 2
    MaxChunk = 2
    Limit = 3
    BatchSize = 2
    Inputs <- MCInputs
    NoInput = NoInput
SPECIFICATION CompareSpec
SYMMETRY MCSymmetry
INVARIANTS
    CompareTypeOK
    DiffIsExact
    MirrorImage
    KeyIsSound
    CountsAreRight
    SinkIsRight
    ChosenKeysHideNoRows
CHECK_DEADLOCK FALSE
