\* A primary key on the first characters of a text: a behaviour that breaks EveryTableHasAPlan.
CONSTANTS
    MaxKey = 1
    Values = {a}
    MaxSource = 1
    MaxTarget = 1
    MaxChunk = 1
    Limit = 1
    BatchSize = 1
    Inputs <- MCInputs
    NoInput = NoInput
SPECIFICATION CompareSpec
INVARIANT EveryTableHasAPlan
CHECK_DEADLOCK FALSE
