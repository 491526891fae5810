\* Three tables, two workers; a heartbeat interval of four units of time.
CONSTANTS
    Tables = {t1, t2, t3}
    Workers = {w1, w2}
    Half = 2
SPECIFICATION Spec
SYMMETRY MCSymmetry
INVARIANTS
    TypeOK
    EventsShowTheirTable
    DoneShowsTheEnd
    ExactlyOneEnding
    SilenceIsBounded
CHECK_DEADLOCK FALSE
